------------------------------- MODULE MsgBatch -------------------------------
(***************************************************************************)
(* MsgQueue (src/src/swirly/fin/MsgQueue.cpp) over MemQueue: an operation  *)
(* of the engine posts a batch of execs, one per message, or a list of     *)
(* trades to be archived, MaxIds per message, after it has asked the queue *)
(* whether there is room.  The consumers run between any two steps.        *)
(*                                                                         *)
(* The items of a batch are numbered; a message tells which it holds.      *)
(***************************************************************************)
EXTENDS MemQueue, FiniteSets, SequencesExt

CONSTANTS
    reactor,                \* the only producer
    MaxIds,
    MaxItems, MaxBatches    \* bounds

MsgBatchAssumption ==
    /\ Producers = {reactor} /\ IsFiniteSet(Consumers)
    /\ MaxIds \in Nat \ {0} /\ MaxItems \in Nat /\ MaxBatches \in Nat
    /\ Msgs = [batch : 1..MaxBatches, first : 1..MaxItems, last : 1..MaxItems]

VARIABLES
    batches,    \* [size, step, offset, res] of each call, of which the last may run
    got         \* what the consumers got: positions with their messages

batchVars == <<vars, batches, got>>

Batch == Last(batches)
Running == batches # <<>> /\ Batch.res = "running"

\* Range::step_size, steps.
StepSize(b) == IF b.size - b.offset < b.step THEN b.size - b.offset ELSE b.step
Steps(b) == (b.size - b.offset + b.step - 1) \div b.step

reserve == Capacity - (wpos - rpos)

BatchInit == Init /\ batches = <<>> /\ got = {}

\* archive_trade (step is MaxIds) or create_exec (step is one).
Call(size, step) ==
    /\ ~Running /\ Len(batches) < MaxBatches
    /\ LET b == [size |-> size, step |-> step, offset |-> 0, res |-> "running"]
       IN batches' = Append(batches, IF reserve < Steps(b) THEN [b EXCEPT !.res = "refused"] ELSE b)
    /\ UNCHANGED <<vars, got>>

\* Faulty: the steps overlap.
PostStepOverlap ==
    /\ Running
    /\ Post(reactor, [batch |-> Len(batches), first |-> Batch.offset + 1,
                      last |-> IF Batch.offset + 1 + StepSize(Batch) =< Batch.size
                               THEN Batch.offset + 1 + StepSize(Batch)
                               ELSE Batch.offset + StepSize(Batch)])
    /\ UNCHANGED <<batches, got>>

PostStep ==
    /\ Running
    /\ Post(reactor, [batch |-> Len(batches), first |-> Batch.offset + 1,
                      last |-> Batch.offset + StepSize(Batch)])
    /\ UNCHANGED <<batches, got>>

\* post goes on.  When it returns the next step is taken, or its failure is thrown
\* and leaves what has been posted where it is.
Posting ==
    /\ PostSteps(reactor)
    /\ LET n == Len(batches)
           offset == Batch.offset + StepSize(Batch)
           next == [Batch EXCEPT !.offset = offset,
                                 !.res = IF offset >= Batch.size THEN "ok" ELSE "running"]
       IN batches' =
            CASE pc[reactor] = "commit" -> [batches EXCEPT ![n] = next]
              [] pc[reactor] = "load" /\ pc'[reactor] = "idle" -> [batches EXCEPT ![n].res = "cut"]
              [] OTHER -> batches
    /\ UNCHANGED got

Fetching(c) ==
    /\ FetchSteps(c)
    /\ got' = IF pc[c] = "commit" THEN got \union {<<pos[c], arg[c]>>} ELSE got
    /\ UNCHANGED batches

BatchNext ==
    \/ \E size \in 1..MaxItems, step \in {1, MaxIds} : Call(size, step)
    \/ PostStep \/ Posting
    \/ \E c \in Consumers : Fetching(c)

BatchSpec == BatchInit /\ [][BatchNext]_batchVars

\* The consumers keep polling and the reactor thread goes on.
BatchFairness == Fairness /\ WF_batchVars(PostStep)

-----------------------------------------------------------------------------

\* The messages that were got or are on the queue, with their positions.
Committed == got \union {<<q, val[Elem(q)]>> : q \in {p \in 0..wpos - 1 : seq[Elem(p)] = p + 1}}
Items(m) == m.first..m.last

\* The type invariant.
BatchTypeOK ==
    /\ TypeOK
    /\ \A i \in DOMAIN batches :
        LET b == batches[i]
        IN /\ b.offset \in 0..b.size
           /\ b.res \in {"running", "ok", "cut", "refused"}
           /\ b.res = "running" => i = Len(batches)
    /\ \A m \in got : m[1] < rpos

\* A batch leaves each of its items once, those that were posted: all if the call
\* returns, none if it was refused.
ItemsAreAccounted ==
    /\ \A i \in DOMAIN batches :
        UNION {Items(m[2]) : m \in {n \in Committed : n[2].batch = i}} =
            1..(CASE batches[i].res = "ok" -> batches[i].size
                  [] batches[i].res = "refused" -> 0
                  [] OTHER -> batches[i].offset)
    /\ \A m, n \in Committed :
        m # n /\ m[2].batch = n[2].batch => Items(m[2]) \cap Items(n[2]) = {}

\* A batch that was found to fit can still be cut short, by a consumer that is
\* reading.  With one consumer, the journal thread, it is the last message that is
\* missing, and no more.
OnlyTheLastIsCut ==
    Cardinality(Consumers) = 1 =>
        \A i \in DOMAIN batches : batches[i].res = "cut" => Steps(batches[i]) = 1

\* No call runs for ever, and what it accepted is delivered.
IsOk(i) == IF i \in DOMAIN batches THEN batches[i].res = "ok" ELSE FALSE
AcceptedArrives ==
    /\ Running ~> ~Running
    /\ \A i \in 1..MaxBatches :
        IsOk(i) ~> \E m \in got : m[2].batch = i /\ m[2].last = batches[i].size
===============================================================================
