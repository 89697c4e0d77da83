-------------------------------- MODULE SysMC ---------------------------------
(***************************************************************************)
(* What lies under swirlyd: small instances of the memory pool, the        *)
(* reactor and the queue of messages.                                      *)
(*                                                                         *)
(* As in ProgressMC the parts share no variable, one of them runs and the  *)
(* others stay as they start.  The pool is MemPool itself, the other parts *)
(* are instances.                                                          *)
(***************************************************************************)
EXTENDS MemPool, TLC

CONSTANTS
    Users, NoUser, Fds, MaxSid,         \* of Reactor
    reactor, Readers, Writers, NoMsg,   \* of the queues
    QueueSize, MaxPosted, MaxIds, MaxItems, MaxBatches,     \* of MsgBatch
    Words, FileSize, MaxWritten, MaxCrashes                 \* of MemQueueFile

VARIABLES
    part,   \* the one that runs
    data, watch, handle, socket, batch, calling,
    rpos, wpos, seq, val, pc, pos, arg, batches, got,
    frpos, fwpos, fseq, fval, fpc, fpos, farg, posted, crashes

reactorVars == <<data, watch, handle, socket, batch, calling>>
queueVars == <<rpos, wpos, seq, val, pc, pos, arg, batches, got>>
fileVars == <<frpos, fwpos, fseq, fval, fpc, fpos, farg, posted, crashes>>
sysVars == <<part, vars, reactorVars, queueVars, fileVars>>

Reactor == INSTANCE Reactor WITH running <- calling

Queue == INSTANCE MsgBatch WITH
    Producers <- {reactor}, Consumers <- Readers, Capacity <- QueueSize,
    Initialised <- QueueSize, MaxPos <- MaxPosted,
    Msgs <- [batch : 1..MaxBatches, first : 1..MaxItems, last : 1..MaxItems]

File == INSTANCE MemQueueFile WITH
    Producers <- Writers, Consumers <- Readers, Msgs <- Words, Capacity <- FileSize,
    Initialised <- FileSize, MaxPos <- MaxWritten,
    rpos <- frpos, wpos <- fwpos, seq <- fseq, val <- fval, pc <- fpc, pos <- fpos, arg <- farg

\* What the modules assume of their constants.
ASSUME SysAssumption ==
    /\ Reactor!ReactorAssumption
    /\ Queue!MemQueueAssumption /\ Queue!MsgBatchAssumption
    /\ File!MemQueueAssumption /\ File!MemQueueFileAssumption

SysInit ==
    /\ part \in {"Pool", "Reactor", "Queue", "File"}
    /\ Init
    /\ Reactor!Init
    /\ Queue!BatchInit /\ File!FileInit

PoolNext ==
    /\ part = "Pool" /\ Next
    /\ UNCHANGED <<part, reactorVars, queueVars, fileVars>>
ReactorNext ==
    /\ part = "Reactor" /\ Reactor!Next
    /\ UNCHANGED <<part, vars, queueVars, fileVars>>
QueueNext ==
    /\ part = "Queue" /\ Queue!BatchNext
    /\ UNCHANGED <<part, vars, reactorVars, fileVars>>
FileNext ==
    /\ part = "File" /\ File!FileNext
    /\ UNCHANGED <<part, vars, reactorVars, queueVars>>

SysNext == PoolNext \/ ReactorNext \/ QueueNext \/ FileNext

SysSpec == SysInit /\ [][SysNext]_sysVars

Symmetry == Permutations(Users) \union Permutations(Workers)

-----------------------------------------------------------------------------
\* A slot is called for its own subscription, and for nothing it lost interest in
\* (EpollReactor.cpp).
CallsAreCurrent ==
    /\ [](part = "Reactor" => Reactor!TypeOK /\ Reactor!HandlesAreCurrent)
    /\ Reactor!CallsAreCurrent /\ Reactor!OnlyStaleEventsAreDropped

\* Batches are posted once and in one piece but for the last message, and what was
\* posted survives the process (MsgQueue.cpp, MemQueue.hpp).
QueueKeepsMessages ==
    /\ part = "Queue" =>
        Queue!BatchTypeOK /\ Queue!ItemsAreAccounted /\ Queue!OnlyTheLastIsCut
    /\ part = "File" =>
        File!TypeOK /\ File!NothingIsLost /\ File!DeliversWhatWasPosted
===============================================================================
