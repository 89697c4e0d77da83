------------------------------ MODULE MemQueue -------------------------------
(***************************************************************************)
(* The lock-free queue between the engine and the journal thread           *)
(* (src/src/swirly/app/MemQueue.hpp).                                      *)
(*                                                                         *)
(* An element can be used for position q when its sequence number is q,    *)
(* and holds the message of position q when it is q + 1.  A call of post   *)
(* or fetch loads a position, looks at the element, claims the position    *)
(* with a compare-and-exchange, accesses the value and then commits with a *)
(* new sequence number.  Each of these is one action, so that calls of all *)
(* threads interleave between any two of them.                             *)
(*                                                                         *)
(* The positions are only ever changed by the compare-and-exchange and are *)
(* loaded relaxed: each has one modification order, in which a thread that *)
(* loads an old position sees what an interleaving with an earlier load    *)
(* shows.  The sequence numbers are loaded with acquire and stored with    *)
(* release semantics, which orders the plain accesses to the value.        *)
(* Positions are 64 bits wide in the code and do not wrap here.            *)
(***************************************************************************)
EXTENDS Integers, Sequences

CONSTANTS
    Producers, Consumers,   \* the threads that post and that fetch
    Msgs, NoMsg,            \* what they post
    Capacity,   \* capacity_, the requested capacity rounded up by next_pow2
    Initialised,    \* how many elements get a sequence number at the start
    MaxPos      \* bound: no call of post begins once MaxPos were claimed

ASSUME MemQueueAssumption ==
    /\ Producers \cap Consumers = {}
    /\ NoMsg \notin Msgs
    /\ Capacity \in Nat /\ Capacity >= 2
    /\ Initialised \in 0..Capacity
    /\ MaxPos \in Nat

VARIABLES
    rpos, wpos,   \* the next positions to be fetched and to be posted
    seq, val,     \* the elements
    pc, pos,      \* of each thread: where it is in its call; its local position
    arg           \* what a producer posts, what a consumer has got

vars == <<rpos, wpos, seq, val, pc, pos, arg>>

Threads == Producers \union Consumers
Elems == 0..(Capacity - 1)

\* pos & mask_: the capacity is a power of two.
Elem(q) == q % Capacity

Init ==
    /\ rpos = 0
    /\ wpos = 0
    /\ seq = [i \in Elems |-> IF i < Initialised THEN i ELSE 0]
    /\ val = [i \in Elems |-> NoMsg]
    /\ pc = [t \in Threads |-> "idle"]
    /\ pos = [t \in Threads |-> 0]
    /\ arg = [t \in Threads |-> NoMsg]

Goto(t, label) == pc' = [pc EXCEPT ![t] = label]

-----------------------------------------------------------------------------
(* post *)

\* The call begins with a relaxed load of the position.
Post(p, msg) ==
    /\ pc[p] = "idle"
    /\ wpos < MaxPos
    /\ pos' = [pos EXCEPT ![p] = wpos]
    /\ arg' = [arg EXCEPT ![p] = msg]
    /\ Goto(p, "load")
    /\ UNCHANGED <<rpos, wpos, seq, val>>

\* Faulty: a position that another thread has claimed counts as full.
PostLoadOnce(p) ==
    LET diff == seq[Elem(pos[p])] - pos[p]
    IN  /\ pc[p] = "load"
        /\ \/ diff = 0 /\ Goto(p, "claim") /\ UNCHANGED arg
           \/ diff # 0 /\ Goto(p, "idle") /\ arg' = [arg EXCEPT ![p] = NoMsg]
        /\ UNCHANGED <<rpos, wpos, seq, val, pos>>

\* Look at the element: it is free, or not yet free, or another thread has
\* claimed the position.
PostLoad(p) ==
    LET diff == seq[Elem(pos[p])] - pos[p]
    IN  /\ pc[p] = "load"
        /\ \/ /\ diff = 0
              /\ Goto(p, "claim")
              /\ UNCHANGED arg
           \/ /\ diff < 0
              /\ Goto(p, "idle")
              /\ arg' = [arg EXCEPT ![p] = NoMsg]
           \/ /\ diff > 0
              /\ Goto(p, "again")
              /\ UNCHANGED arg
        /\ UNCHANGED <<rpos, wpos, seq, val, pos>>

PostAgain(p) ==
    /\ pc[p] = "again"
    /\ pos' = [pos EXCEPT ![p] = wpos]
    /\ Goto(p, "load")
    /\ UNCHANGED <<rpos, wpos, seq, val, arg>>

\* Faulty: the position is not compared.
PostClaimAnyway(p) ==
    /\ pc[p] = "claim"
    /\ wpos' = wpos + 1
    /\ Goto(p, "access")
    /\ UNCHANGED <<rpos, seq, val, pos, arg>>

\* The compare-and-exchange succeeds.
PostClaim(p) ==
    /\ pc[p] = "claim"
    /\ wpos = pos[p]
    /\ wpos' = wpos + 1
    /\ Goto(p, "access")
    /\ UNCHANGED <<rpos, seq, val, pos, arg>>

\* It fails, for no reason if it likes (it is the weak one), and re-reads the
\* position.
PostLose(p) ==
    /\ pc[p] = "claim"
    /\ pos' = [pos EXCEPT ![p] = wpos]
    /\ Goto(p, "load")
    /\ UNCHANGED <<rpos, wpos, seq, val, arg>>

PostAccess(p) ==
    /\ pc[p] = "access"
    /\ val' = [val EXCEPT ![Elem(pos[p])] = arg[p]]
    /\ Goto(p, "commit")
    /\ UNCHANGED <<rpos, wpos, seq, pos, arg>>

\* Faulty: the element is not marked as full.
PostCommitNothing(p) ==
    /\ pc[p] = "commit"
    /\ seq' = [seq EXCEPT ![Elem(pos[p])] = pos[p]]
    /\ arg' = [arg EXCEPT ![p] = NoMsg]
    /\ Goto(p, "idle")
    /\ UNCHANGED <<rpos, wpos, val, pos>>

PostCommit(p) ==
    /\ pc[p] = "commit"
    /\ seq' = [seq EXCEPT ![Elem(pos[p])] = pos[p] + 1]
    /\ arg' = [arg EXCEPT ![p] = NoMsg]
    /\ Goto(p, "idle")
    /\ UNCHANGED <<rpos, wpos, val, pos>>

-----------------------------------------------------------------------------
(* fetch *)

Fetch(c) ==
    /\ pc[c] = "idle"
    /\ pos' = [pos EXCEPT ![c] = rpos]
    /\ Goto(c, "load")
    /\ UNCHANGED <<rpos, wpos, seq, val, arg>>

FetchLoad(c) ==
    LET diff == seq[Elem(pos[c])] - (pos[c] + 1)
    IN  /\ pc[c] = "load"
        /\ \/ diff = 0 /\ Goto(c, "claim")
           \/ diff < 0 /\ Goto(c, "idle")
           \/ diff > 0 /\ Goto(c, "again")
        /\ UNCHANGED <<rpos, wpos, seq, val, pos, arg>>

FetchAgain(c) ==
    /\ pc[c] = "again"
    /\ pos' = [pos EXCEPT ![c] = rpos]
    /\ Goto(c, "load")
    /\ UNCHANGED <<rpos, wpos, seq, val, arg>>

\* Faulty: the position is not compared.
FetchClaimAnyway(c) ==
    /\ pc[c] = "claim"
    /\ rpos' = rpos + 1
    /\ Goto(c, "access")
    /\ UNCHANGED <<wpos, seq, val, pos, arg>>

FetchClaim(c) ==
    /\ pc[c] = "claim"
    /\ rpos = pos[c]
    /\ rpos' = rpos + 1
    /\ Goto(c, "access")
    /\ UNCHANGED <<wpos, seq, val, pos, arg>>

FetchLose(c) ==
    /\ pc[c] = "claim"
    /\ pos' = [pos EXCEPT ![c] = rpos]
    /\ Goto(c, "load")
    /\ UNCHANGED <<rpos, wpos, seq, val, arg>>

\* Faulty: the shared position is used instead of the claimed one.
FetchAccessShared(c) ==
    /\ pc[c] = "access"
    /\ arg' = [arg EXCEPT ![c] = val[Elem(rpos)]]
    /\ Goto(c, "commit")
    /\ UNCHANGED <<rpos, wpos, seq, val, pos>>

FetchAccess(c) ==
    /\ pc[c] = "access"
    /\ arg' = [arg EXCEPT ![c] = val[Elem(pos[c])]]
    /\ Goto(c, "commit")
    /\ UNCHANGED <<rpos, wpos, seq, val, pos>>

\* The message is delivered; the element is free for the next lap.
FetchCommit(c) ==
    /\ pc[c] = "commit"
    /\ seq' = [seq EXCEPT ![Elem(pos[c])] = pos[c] + Capacity]
    /\ arg' = [arg EXCEPT ![c] = NoMsg]
    /\ Goto(c, "idle")
    /\ UNCHANGED <<rpos, wpos, val, pos>>

-----------------------------------------------------------------------------
PostSteps(p) ==
    \/ PostLoad(p) \/ PostAgain(p) \/ PostClaim(p) \/ PostLose(p)
    \/ PostAccess(p) \/ PostCommit(p)

FetchSteps(c) ==
    \/ Fetch(c) \/ FetchLoad(c) \/ FetchAgain(c) \/ FetchClaim(c) \/ FetchLose(c)
    \/ FetchAccess(c) \/ FetchCommit(c)

Next ==
    \/ \E p \in Producers : PostSteps(p) \/ \E msg \in Msgs : Post(p, msg)
    \/ \E c \in Consumers : FetchSteps(c)

Spec == Init /\ [][Next]_vars

\* Threads keep running: a call that has begun goes on, consumers keep calling
\* fetch (the journal thread polls), and a compare-and-exchange that could
\* succeed again and again does not fail for no reason forever.
Fairness ==
    /\ \A p \in Producers : WF_vars(PostSteps(p)) /\ SF_vars(PostClaim(p))
    /\ \A c \in Consumers : WF_vars(FetchSteps(c)) /\ SF_vars(FetchClaim(c))

FairSpec == Spec /\ Fairness

-----------------------------------------------------------------------------
Labels == {"idle", "load", "again", "claim", "access", "commit"}

\* The type invariant.
TypeOK ==
    /\ rpos \in Nat
    /\ wpos \in Nat
    /\ seq \in [Elems -> Nat]
    /\ val \in [Elems -> Msgs \union {NoMsg}]
    /\ pc \in [Threads -> Labels]
    /\ pos \in [Threads -> Nat]
    /\ arg \in [Threads -> Msgs \union {NoMsg}]

\* The threads that have claimed their position and not committed.
Claimed(t) == pc[t] \in {"access", "commit"}

\* The plain accesses to a value never race: no two threads have claimed the
\* same element at the same time (post and fetch between their
\* compare-and-exchange and their commit).
NoRace ==
    \A s, t \in Threads :
        s # t /\ Claimed(s) /\ Claimed(t) => Elem(pos[s]) # Elem(pos[t])

-----------------------------------------------------------------------------
(* The inductive invariant of a queue all of whose elements are initialised. *)

PositionsOK == wpos - rpos \in 0..Capacity

ProducersOK ==
    \A p \in Producers :
        /\ pos[p] =< wpos
        /\ pc[p] = "claim" => seq[Elem(pos[p])] >= pos[p]
        /\ Claimed(p) => /\ pos[p] >= rpos /\ pos[p] < wpos
                         /\ seq[Elem(pos[p])] = pos[p]

ConsumersOK ==
    \A c \in Consumers :
        /\ pos[c] =< rpos
        /\ pc[c] = "claim" => seq[Elem(pos[c])] > pos[c]
        /\ Claimed(c) => /\ pos[c] < rpos /\ wpos =< pos[c] + Capacity
                         /\ seq[Elem(pos[c])] = pos[c] + 1

ClaimsDiffer ==
    /\ \A s, t \in Producers :
        s # t /\ Claimed(s) /\ Claimed(t) => pos[s] # pos[t]
    /\ \A s, t \in Consumers :
        s # t /\ Claimed(s) /\ Claimed(t) => pos[s] # pos[t]

\* The element at which position q will be posted next is free for it, or is
\* being written, is full or is being read for the position one lap before.
ElemOK(q) ==
    LET before == q - Capacity
    IN  \/ /\ seq[Elem(q)] = q
           /\ before < rpos
        \/ /\ seq[Elem(q)] = before
           /\ \E p \in Producers : Claimed(p) /\ pos[p] = before
        \/ /\ seq[Elem(q)] = before + 1
           /\ before >= rpos \/ \E c \in Consumers : Claimed(c) /\ pos[c] = before

ElemsOK == \A q \in wpos..(wpos + Capacity - 1) : ElemOK(q)

\* Sequence numbers do not fall back behind positions that were claimed.
SeqNotBehind ==
    /\ \A q \in 0..(wpos - 1) : seq[Elem(q)] >= q
    /\ \A q \in 0..(rpos - 1) : seq[Elem(q)] > q

\* At any time each element is in one of four phases, and whoever has claimed
\* it is the only one who can move it on (post, fetch).  In particular size()
\* is never negative and never more than the capacity.
Inv ==
    /\ PositionsOK
    /\ ProducersOK
    /\ ConsumersOK
    /\ ClaimsDiffer
    /\ ElemsOK
    /\ SeqNotBehind

-----------------------------------------------------------------------------
\* post returns false only for lack of room: all elements are in the queue, or
\* the one whose turn it is is still being read.
PostFailsForLackOfRoom ==
    [][\A p \in Producers : pc[p] = "load" /\ pc'[p] = "idle" =>
        \/ wpos - rpos = Capacity
        \/ \E c \in Consumers : Claimed(c) /\ pos[c] = wpos - Capacity]_vars

\* fetch returns false only if the queue is empty, or if the next message is
\* still being written.
FetchFailsForLackOfMessages ==
    [][\A c \in Consumers : pc[c] = "load" /\ pc'[c] = "idle" =>
        \/ wpos = rpos
        \/ \E p \in Producers : Claimed(p) /\ pos[p] = rpos]_vars

\* A call that returns false has a reason that its caller can wait for: the
\* queue, or the thread that is still in it (post, fetch).
FailuresAreForLack == PostFailsForLackOfRoom /\ FetchFailsForLackOfMessages

\* The abstract queue: a message is in it from the claim of its producer to the
\* claim of its consumer.
Writing(q) == {p \in Producers : pc[p] = "access" /\ pos[p] = q}

Content(q) ==
    IF Writing(q) = {} THEN val[Elem(q)] ELSE arg[CHOOSE p \in Writing(q) : TRUE]

Queued == [i \in 1..(wpos - rpos) |-> Content(rpos + i - 1)]

Held ==
    [c \in Consumers |->
        CASE pc[c] = "access" -> val[Elem(pos[c])]
          [] pc[c] = "commit" -> arg[c]
          [] OTHER -> NoMsg]

Abstract == INSTANCE Fifo WITH queue <- Queued, held <- Held

\* However calls overlap, messages are fetched in the order in which they were
\* claimed, each once, and never from an element that is still being written
\* (post, fetch).
ImplementsFifo == Abstract!Spec

\* Whatever is posted is fetched in the end, by consumers that keep polling.
EventuallyFetched == \A q \in 0..MaxPos : wpos > q ~> rpos > q
=============================================================================
