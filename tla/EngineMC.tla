------------------------------ MODULE EngineMC -------------------------------
(* Small instances of Engine. *)
EXTENDS Engine

CONSTANTS a1, a2, r1

\* One market or two, which never settle.
OneMarket == {1}
TwoMarkets == {1, 2}
NeverSettles == [m \in Markets |-> 0]

\* The first market settles on the first day.
FirstSettles == [m \in Markets |-> IF m = 1 THEN 1 ELSE 0]

\* Lists of one id, and of two different ids; later ids are mostly
\* execs.  A list may also name an id twice.
ShortLists == {<<1>>, <<2>>, <<1, 2>>}
RepeatedIds == ShortLists \union {<<1, 1>>}

\* What the engine keeps: the messages it has left are for the properties of
\* the step that sent them, and no action reads them.
View == <<day, markets, books, orders, sessVars, posns, res>>

Symmetry == Permutations({a1, a2})
=============================================================================
