------------------------------ MODULE JournalMC ------------------------------
(* Small instances of Journal. *)
EXTENDS Journal

CONSTANTS a1, a2, r1

OneMarket == {1}
TwoMarkets == {1, 2}
NeverSettles == [m \in Markets |-> 0]

\* The second market is a forward of the first and settles on the second day.
ForwardSettles == [m \in Markets |-> IF m = 2 THEN 2 ELSE 0]
SameInstr == [m \in Markets |-> 1]
OwnInstrs == [m \in Markets |-> m]

SingleIds == {<<i>> : i \in 1..MaxId}

\* The messages of the last step are read by no property here.
JView == <<day, markets, books, orders, sessVars, posns, res, journalVars>>

Symmetry == Permutations({a1, a2})
=============================================================================
