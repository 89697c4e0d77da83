----------------------------- MODULE MemQueueFile -----------------------------
(***************************************************************************)
(* The queue in a file (MemQueue(const char* path)): the process dies with *)
(* all its threads at any point of their calls, and the next one maps the  *)
(* file as it was left.  What a thread had claimed and not committed stays *)
(* claimed, and there is nobody to commit it.                              *)
(*                                                                         *)
(* The pages of a shared mapping belong to the kernel and survive the      *)
(* process.  That the machine dies is not modelled.                        *)
(***************************************************************************)
EXTENDS MemQueue

CONSTANTS
    MaxCrashes  \* bound

MemQueueFileAssumption ==
    MaxCrashes \in Nat

VARIABLES
    posted,     \* positions with the messages committed there (not in the code)
    crashes

fileVars == <<vars, posted, crashes>>

FileInit ==
    /\ Init
    /\ posted = {} /\ crashes = 0

\* The file is mapped; nothing in it is looked at.
Reopen(s) == s

Crash ==
    /\ crashes < MaxCrashes
    /\ crashes' = crashes + 1
    /\ pc' = [t \in Threads |-> "idle"]
    /\ pos' = [t \in Threads |-> 0]
    /\ arg' = [t \in Threads |-> NoMsg]
    /\ seq' = Reopen(seq)
    /\ UNCHANGED <<rpos, wpos, val, posted>>

Run ==
    /\ Next
    /\ posted' = posted \union
        {<<pos[p], arg[p]>> : p \in {q \in Producers : pc[q] = "commit" /\ pc'[q] = "idle"}}
    /\ UNCHANGED crashes

FileNext == Run \/ Crash

FileSpec == FileInit /\ [][FileNext]_fileVars

-----------------------------------------------------------------------------

\* What was committed and not claimed by a consumer is in the file, whenever the
\* process died and however often.
NothingIsLost ==
    \A m \in posted : m[1] >= rpos =>
        seq[Elem(m[1])] = m[1] + 1 /\ val[Elem(m[1])] = m[2]

\* What a consumer gets was committed, at this very position: never what a dead
\* producer was writing.
DeliversWhatWasPosted ==
    \A c \in Consumers : pc[c] = "commit" => <<pos[c], arg[c]>> \in posted
=============================================================================
