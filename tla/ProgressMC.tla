------------------------------ MODULE ProgressMC ------------------------------
(***************************************************************************)
(* What must go on in swirlyd and its client: small instances of the parts *)
(* that promise progress.                                                  *)
(*                                                                         *)
(* The parts share no variable, so that interleaving them shows nothing of *)
(* one part that it does not show alone.  In each behaviour one part runs  *)
(* and the others stay as they start.  The timers are TimerQueue itself,   *)
(* whose properties are checked as they stand; the other parts are         *)
(* instances.                                                              *)
(***************************************************************************)
EXTENDS TimerQueue

CONSTANTS
    Followed, MaxQueue, MaxSignals, Signals, Failures,     \* of Daemon
    reactor, c1, NoMsg, h1, l1      \* model values

VARIABLES
    part,   \* the one that runs
    main, sent, journ, taken, count, react, stopJ, stopR, efd, served, queue, written, ended,
    rpos, wpos, seq, val, pc, pos, arg, batches, got,
    pollNow, pollExpiry, ready, waiting, until,
    requests, midway, wire, answers, sess, events, input, parser, keep, interest, timer,
    handled, buf,
    orders, nexecs, net, calls, errors, instrs, rows, execs, asks, fills, faults

daemonVars == <<main, sent, journ, taken, count, react, stopJ, stopR, efd, served, queue,
                written, ended>>
batchVars == <<rpos, wpos, seq, val, pc, pos, arg, batches, got>>
pollVars == <<pollNow, pollExpiry, ready, waiting, until>>
sessVars == <<requests, midway, wire, answers, sess, events, input, parser, keep, interest,
              timer, handled, buf>>
clientVars == <<orders, nexecs, net, calls, errors, instrs, rows, execs, asks, fills, faults>>
allVars == <<part, daemonVars, batchVars, vars, pollVars, sessVars, clientVars>>

Daemon == INSTANCE Daemon

Queue == INSTANCE MsgBatch WITH
    Producers <- {reactor}, Consumers <- {c1}, Capacity <- 2, Initialised <- 2, MaxPos <- 6,
    Msgs <- [batch : 1..2, first : 1..3, last : 1..3], MaxIds <- 2, MaxItems <- 3, MaxBatches <- 2

Poll == INSTANCE Poll WITH
    High <- {h1}, Low <- {l1}, Delays <- {1, 3}, Milli <- 3, MaxTime <- 4,
    now <- pollNow, expiry <- pollExpiry

Sess == INSTANCE HttpSess WITH
    MaxRequests <- 3, Patient <- FALSE, sent <- requests, got <- answers

Client == INSTANCE UiClient WITH
    MaxExecs <- 2, MaxRequests <- 2, MaxAsks <- 2, MaxFills <- 1, MaxFaults <- 1, Hasty <- TRUE,
    pending <- calls

\* What the modules assume of their constants.
ASSUME ProgressAssumption ==
    /\ Daemon!DaemonAssumption /\ Queue!MsgBatchAssumption
    /\ Poll!PollAssumption /\ Sess!HttpSessAssumption /\ Client!UiClientAssumption

ProgressInit ==
    /\ part \in {"Daemon", "Queue", "Timers", "Poll", "Sess", "Client"}
    /\ Daemon!Init /\ Queue!BatchInit /\ Init /\ Sess!Init /\ Client!Init
    /\ Poll!Init /\ (part # "Poll" => Poll!Pending = {})

DaemonNext ==
    /\ part = "Daemon" /\ Daemon!Next
    /\ UNCHANGED <<part, batchVars, vars, pollVars, sessVars, clientVars>>
QueueNext ==
    /\ part = "Queue" /\ Queue!BatchNext
    /\ UNCHANGED <<part, daemonVars, vars, pollVars, sessVars, clientVars>>
TimersNext ==
    /\ part = "Timers" /\ Next
    /\ UNCHANGED <<part, daemonVars, batchVars, pollVars, sessVars, clientVars>>
PollNext ==
    /\ part = "Poll" /\ Poll!Next
    /\ UNCHANGED <<part, daemonVars, batchVars, vars, sessVars, clientVars>>
SessNext ==
    /\ part = "Sess" /\ Sess!Next
    /\ UNCHANGED <<part, daemonVars, batchVars, vars, pollVars, clientVars>>
ClientNext ==
    /\ part = "Client" /\ Client!Next
    /\ UNCHANGED <<part, daemonVars, batchVars, vars, pollVars, sessVars>>

ProgressNext == DaemonNext \/ QueueNext \/ TimersNext \/ PollNext \/ SessNext \/ ClientNext

ProgressSpec == ProgressInit /\ [][ProgressNext]_allVars

-----------------------------------------------------------------------------
\* What is written is what was posted, without gaps, and the process outlives its
\* threads (Main.cpp, AgentThread).
DaemonEndsInOrder ==
    part = "Daemon" => Daemon!TypeOK /\ Daemon!NoGaps /\ Daemon!ThreadsEndFirst

(* Each part progresses under the fairness that its module justifies. *)

\* A process that has lost a thread ends, and so does one that is told to end, once
\* its clients fall quiet; what was posted before is written (Main.cpp, AgentThread,
\* ReactorThread).
DaemonProgresses ==
    Daemon!Fairness =>
        Daemon!Terminates /\ Daemon!FailureEndsProcess /\ Daemon!EventuallyWritten

\* Batches that the queue accepted reach the journal thread (MsgQueue.cpp, MemQueue).
BatchesArrive == Queue!BatchFairness => Queue!AcceptedArrives /\ Queue!EventuallyFetched

\* No timer is lost in its heap (Timer.cpp).
TimersFire == Fairness => TimersExpire

\* Nor starved by the sockets, if it has priority (EpollReactor::do_poll).
TimersArePolled == Poll!Fairness => Poll!HighExpire /\ Poll!LowExpireWhenQuiet

\* A session answers what it handled (HttpSess.cpp).
HandledIsAnswered == Sess!Fairness => Sess!HandledIsAnswered

\* The client shows what the server has, once the book is quiet and failures end
\* (MainWindow.cpp, HttpClient.cpp).
ClientCatchesUp ==
    Client!Fairness => Client!OrdersCatchUp /\ Client!ExecsCatchUp /\ Client!Recovers
===============================================================================
