-------------------------------- MODULE Fifo ---------------------------------
(***************************************************************************)
(* What a bounded queue shared by many threads promises: messages come out *)
(* in the order in which they went in, each of them once, and no more of   *)
(* them than there are elements are in the queue or being taken out of it. *)
(***************************************************************************)
EXTENDS Naturals, Sequences, FiniteSets

CONSTANTS Consumers, Capacity, Msgs, NoMsg

VARIABLES
    queue,    \* the messages in the queue
    held      \* the message that each consumer is taking out, or NoMsg

vars == <<queue, held>>

Init ==
    /\ queue = <<>>
    /\ held = [c \in Consumers |-> NoMsg]

Holding == {c \in Consumers : held[c] # NoMsg}

Enqueue(msg) ==
    /\ Len(queue) + Cardinality(Holding) < Capacity
    /\ queue' = Append(queue, msg)
    /\ UNCHANGED held

Dequeue(c) ==
    /\ held[c] = NoMsg
    /\ queue # <<>>
    /\ held' = [held EXCEPT ![c] = Head(queue)]
    /\ queue' = Tail(queue)

Release(c) ==
    /\ held[c] # NoMsg
    /\ held' = [held EXCEPT ![c] = NoMsg]
    /\ UNCHANGED queue

Next ==
    \/ \E msg \in Msgs : Enqueue(msg)
    \/ \E c \in Consumers : Dequeue(c) \/ Release(c)

Spec == Init /\ [][Next]_vars
=============================================================================
