-------------------------------- MODULE Daemon --------------------------------
(***************************************************************************)
(* The daemon's threads: main (src/src/swirlyd/Main.cpp), the reactor      *)
(* thread and the journal thread (src/src/swirly/app/Thread.hpp and        *)
(* Thread.cpp), how they start, fail and are stopped, and where signals go *)
(* (src/src/swirly/sys/Signal.cpp).                                        *)
(*                                                                         *)
(* Clients may send requests for ever.  Those that leave a message are     *)
(* numbered, and so are their messages; the first ones are followed one by *)
(* one to the database, and all later ones have one number, so that the    *)
(* states remain finite while the load goes on.  What the engine does with *)
(* a request is in Engine, the tables are in Journal; the queue here is    *)
(* the one that MemQueue implements.                                       *)
(***************************************************************************)
EXTENDS Naturals, Sequences, SequencesExt

CONSTANTS
    Followed,     \* how many messages are followed; Later is the number of all others
    MaxQueue,     \* capacity of the queue
    MaxSignals,   \* bound on the signals that are sent to the process
    Signals,      \* what is sent: "HUP", "TERM"
    Failures      \* what may throw: "journal", "reactor"

DaemonAssumption ==
    /\ Followed \in Nat /\ MaxSignals \in Nat /\ MaxQueue \in Nat \ {0}
    /\ Signals \subseteq {"HUP", "TERM"}
    /\ Failures \subseteq {"journal", "reactor"}

VARIABLES
    main,       \* where the main thread is
    sent,       \* how many signals were sent from outside
    journ,      \* where the journal thread is
    taken,      \* the message it has popped, 0 for none
    count,      \* whether the agent has written something in this call
    react,      \* where the reactor thread is
    stopJ, stopR,   \* the stop flags of the two threads
    efd,        \* the event that interrupts the reactor is set
    served,     \* the number of the last message that was posted, 0 for none
    queue,      \* the messages on the queue
    written,    \* the followed messages in the database, in order
    ended       \* "no", "returned" (from main) or "killed" (by a signal)

mainVars == <<main, sent, stopJ, stopR>>
journVars == <<journ, taken, count>>
dataVars == <<served, queue, written>>
vars == <<mainVars, journVars, react, efd, dataVars, ended>>

Later == Followed + 1
NumberOf(n) == IF n > Followed THEN Later ELSE n

Init ==
    /\ main = "start" /\ sent = 0
    /\ journ = "none" /\ taken = 0 /\ count = FALSE
    /\ react = "none"
    /\ stopJ = FALSE /\ stopR = FALSE /\ efd = FALSE
    /\ served = 0 /\ queue = <<>> /\ written = <<>>
    /\ ended = "no"

-----------------------------------------------------------------------------
(* Signals. *)

\* The kernel prefers a thread in sigwait.  Otherwise a thread that does not
\* block the signal gets it, and the default action of each of these signals is
\* to end the process.  There always is one: sig_block_all() gives the other two
\* threads the empty mask, and main's own blocks nothing without a SigWait.
Raise(sig) ==
    IF main = "wait" THEN
        /\ main' = IF sig = "TERM" THEN "stopJournal" ELSE "handle"
        /\ UNCHANGED ended
    ELSE
        /\ ended' = "killed"
        /\ UNCHANGED main

\* A signal from outside.
Signal ==
    /\ sent < MaxSignals
    /\ sent' = sent + 1
    /\ \E sig \in Signals : Raise(sig)
    /\ UNCHANGED <<stopJ, stopR, journVars, react, efd, dataVars>>

-----------------------------------------------------------------------------
(* The main thread. *)

\* The reactor thread is made first, then the journal thread, then SigWait.
Start ==
    /\ \/ main = "start" /\ main' = "started" /\ react' = "check"
          /\ UNCHANGED journ
       \/ main = "started" /\ main' = "wait" /\ journ' = "check"
          /\ UNCHANGED react
    /\ UNCHANGED <<sent, stopJ, stopR, taken, count, efd, dataVars, ended>>

\* After a signal that does not end it, main waits for the next one.
WaitAgain ==
    /\ main = "handle"
    /\ main' = "wait"
    /\ UNCHANGED <<sent, stopJ, stopR, journVars, react, efd, dataVars, ended>>

\* Destructors run in the reverse order: SigWait, the journal thread, the
\* reactor thread.
StopJournal ==
    /\ main = "stopJournal"
    /\ stopJ' = TRUE
    /\ main' = "joinJournal"
    /\ UNCHANGED <<sent, stopR, journVars, react, efd, dataVars, ended>>

JoinJournal ==
    /\ main = "joinJournal" /\ journ = "ended"
    /\ main' = "stopReactor"
    /\ UNCHANGED <<sent, stopJ, stopR, journVars, react, efd, dataVars, ended>>

\* The reactor may be about to wait when it is told to stop, so it is then
\* interrupted.
StopReactor ==
    /\ \/ main = "stopReactor" /\ main' = "interrupt" /\ stopR' = TRUE
          /\ UNCHANGED efd
       \/ main = "interrupt" /\ main' = "joinReactor" /\ efd' = TRUE
          /\ UNCHANGED stopR
    /\ UNCHANGED <<sent, stopJ, journVars, react, dataVars, ended>>

Return ==
    /\ main = "joinReactor" /\ react = "ended"
    /\ ended' = "returned"
    /\ UNCHANGED <<mainVars, journVars, react, efd, dataVars>>

-----------------------------------------------------------------------------
(* The journal thread: AgentThread::run around the agent of Main.cpp. *)

JournalCheck ==
    /\ journ = "check"
    /\ journ' = IF stopJ THEN "ended" ELSE "pop"
    /\ count' = FALSE
    /\ UNCHANGED <<mainVars, taken, react, efd, dataVars, ended>>

\* The agent goes on until the queue is empty; only then are the stop flag and
\* the back-off looked at.
JournalPop ==
    /\ journ = "pop"
    /\ \/ /\ queue # <<>>
          /\ taken' = Head(queue) /\ queue' = Tail(queue)
          /\ journ' = "write"
       \/ /\ queue = <<>>
          /\ journ' = IF count THEN "check" ELSE "idle"
          /\ UNCHANGED <<taken, queue>>
    /\ UNCHANGED <<mainVars, count, react, efd, served, written, ended>>

JournalWrite ==
    /\ journ = "write"
    /\ written' = IF taken = Later THEN written ELSE Append(written, taken)
    /\ taken' = 0
    /\ count' = TRUE
    /\ journ' = "pop"
    /\ UNCHANGED <<mainVars, react, efd, served, queue, ended>>

\* Faulty: the thread logs the exception and goes on.
JournalFailsAndGoesOn ==
    /\ journ = "write" /\ "journal" \in Failures
    /\ journ' = "pop" /\ taken' = 0
    /\ UNCHANGED <<mainVars, count, react, efd, dataVars, ended>>

\* Faulty: the thread ends and nobody is told.
JournalFailsQuietly ==
    /\ journ = "write" /\ "journal" \in Failures
    /\ journ' = "ended" /\ taken' = 0
    /\ UNCHANGED <<mainVars, count, react, efd, dataVars, ended>>

\* The exception ends the thread, which asks the process to terminate.  The
\* message that it could not write is lost.
JournalFails ==
    /\ journ = "write" /\ "journal" \in Failures
    /\ journ' = "ended" /\ taken' = 0
    /\ Raise("TERM")
    /\ UNCHANGED <<sent, stopJ, stopR, count, react, efd, dataVars>>

JournalIdle ==
    /\ journ = "idle"
    /\ journ' = IF stopJ THEN "check" ELSE "pop"
    /\ UNCHANGED <<mainVars, taken, count, react, efd, dataVars, ended>>

-----------------------------------------------------------------------------
(* The reactor thread: run_reactor around EpollReactor::do_poll. *)

ReactorCheck ==
    /\ react = "check"
    /\ react' = IF stopR THEN "ended" ELSE "wait"
    /\ UNCHANGED <<mainVars, journVars, efd, dataVars, ended>>

\* It waits until it is interrupted or a request has come in, which leaves a
\* message unless it only reads, is refused or finds the queue full.
ReactorPoll ==
    /\ react = "wait"
    /\ \/ UNCHANGED <<served, queue>>
       \/ /\ Len(queue) < MaxQueue
          /\ served' = NumberOf(served + 1)
          /\ queue' = Append(queue, served')
    /\ efd' = FALSE
    /\ react' = "check"
    /\ UNCHANGED <<mainVars, journVars, written, ended>>

ReactorFails ==
    /\ react = "wait" /\ "reactor" \in Failures
    /\ react' = "ended"
    /\ Raise("TERM")
    /\ UNCHANGED <<sent, stopJ, stopR, journVars, efd, dataVars>>

-----------------------------------------------------------------------------
MainNext == Start \/ WaitAgain \/ StopJournal \/ JoinJournal \/ StopReactor \/ Return

JournalNext ==
    JournalCheck \/ JournalPop \/ JournalWrite \/ JournalFails \/ JournalIdle

ReactorNext == ReactorCheck \/ ReactorPoll \/ ReactorFails

Next ==
    /\ ended = "no"
    /\ MainNext \/ JournalNext \/ ReactorNext \/ Signal

\* Every thread that can run does; the reactor need not get a request, so only
\* its steps without one are fair.
Fairness ==
    /\ WF_vars(ended = "no" /\ MainNext)
    /\ WF_vars(ended = "no" /\ JournalNext)
    /\ WF_vars(ended = "no" /\ (ReactorCheck \/ (efd /\ ReactorPoll)))

Spec == Init /\ [][Next]_vars /\ Fairness

-----------------------------------------------------------------------------
MainStates == {"start", "started", "wait", "handle", "stopJournal",
               "joinJournal", "stopReactor", "interrupt", "joinReactor"}

\* The type invariant.
TypeOK ==
    /\ main \in MainStates
    /\ sent \in 0..MaxSignals
    /\ journ \in {"none", "check", "pop", "write", "idle", "ended"}
    /\ taken \in 0..Later
    /\ react \in {"none", "check", "wait", "ended"}
    /\ {count, stopJ, stopR, efd} \subseteq BOOLEAN
    /\ served \in 0..Later
    /\ queue \in Seq(1..Later) /\ Len(queue) =< MaxQueue
    /\ written \in Seq(1..Followed)
    /\ ended \in {"no", "returned", "killed"}

Journalled == [i \in 1..Len(written) |-> i]

\* The database holds the messages of the first requests, whichever way the
\* threads are stopped or fail: what is lost is always the end of the sequence
\* and never something before a message that was written (the agent, and
\* AgentThread::run that ends with the first exception).
NoGaps == written = Journalled

\* main does not return, and so destroys the queue, the database and the
\* reactor, while one of the threads that use them runs (~AgentThread and
\* ~ReactorThread join).
ThreadsEndFirst == ended = "returned" => journ = "ended" /\ react = "ended"

\* From some time on clients send nothing that is journalled.
ClientsFallQuiet == <>[][Len(queue') =< Len(queue)]_vars

\* Once the process was told to terminate it ends, if its clients fall quiet: the
\* reactor cannot sleep through its interrupt, nor the journal thread miss its flag
\* (~ReactorThread, ~AgentThread).  If they do not, main may wait for ever in the
\* join: the reactor, which is stopped last, goes on posting, and the agent looks
\* at its flag only when it has found the queue empty (Main.cpp:293).
Terminates == ClientsFallQuiet => (main = "stopJournal" ~> ended # "no")

\* The daemon does not go on serving without a journal, or idle without a
\* reactor: a thread that fails takes the process down (kill in AgentThread::run
\* and run_reactor), under any load, since after either failure nobody is left
\* who keeps main waiting.
FailureEndsProcess == journ = "ended" \/ react = "ended" ~> ended # "no"

\* What was posted is written, unless the process is told to stop or the journal
\* has failed (the back-off of AgentThread::run always polls again).
EventuallyWritten ==
    \A n \in 1..Followed :
        served = n ~> Len(written) >= n \/ stopJ \/ journ = "ended" \/ ended # "no"
=============================================================================
