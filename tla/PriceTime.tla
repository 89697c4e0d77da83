------------------------------ MODULE PriceTime ------------------------------
(***************************************************************************)
(* What one side of a market promises: its orders stand in a queue by      *)
(* price and, at one price, by time of arrival, and the depth shown for    *)
(* each price is the total of the orders at that price.                    *)
(*                                                                         *)
(* MarketSide implements this specification with two structures, a list    *)
(* and a set of levels that point into it.                                 *)
(***************************************************************************)
EXTENDS Integers, Sequences, FiniteSetsExt, SequencesExt

VARIABLES
    queue,    \* the orders, best first: records [id, key, lots]
    depth     \* a function from keys to [lots, count]

vars == <<queue, depth>>

DepthOf(q) ==
    [key \in {q[i].key : i \in DOMAIN q} |->
        LET at == {i \in DOMAIN q : q[i].key = key}
        IN  [lots  |-> SumFunction([i \in at |-> q[i].lots]),
             count |-> Cardinality(at)]]

Init ==
    /\ queue = <<>>
    /\ depth = <<>>

\* A new order stands behind every order whose key is no greater, in front of
\* every other one.
Arrive ==
    /\ Len(queue') = Len(queue) + 1
    /\ \E p \in DOMAIN queue' :
        /\ queue = RemoveAt(queue', p)
        /\ \A i \in DOMAIN queue : queue[i].id # queue'[p].id
        /\ \A i \in 1..(p - 1) : queue[i].key =< queue'[p].key
        /\ \A i \in p..Len(queue) : queue[i].key > queue'[p].key

\* An order leaves, whatever its place.
Leave ==
    \E p \in DOMAIN queue : queue' = RemoveAt(queue, p)

\* An order is reduced and keeps its place.
Reduce ==
    /\ DOMAIN queue' = DOMAIN queue
    /\ \E p \in DOMAIN queue :
        /\ queue'[p].lots \in 1..(queue[p].lots - 1)
        /\ queue' = [queue EXCEPT ![p].lots = queue'[p].lots]

Next ==
    /\ Arrive \/ Leave \/ Reduce
    /\ depth' = DepthOf(queue')

Spec == Init /\ [][Next]_vars
=============================================================================
