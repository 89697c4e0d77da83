---------------------------------- MODULE Poll ---------------------------------
(***************************************************************************)
(* The cycle of the reactor (EpollReactor::do_poll): it waits for events,  *)
(* no longer than until the next timer of either priority, and then calls  *)
(* those that are due.  Timers of low priority, as the idle timers of the  *)
(* HTTP sessions, wait for a cycle in which nothing else was to be done.   *)
(*                                                                         *)
(* The queues are sets of timers here: TimerQueue shows that empty() and   *)
(* front() tell of the pending ones, Reactor which events are delivered.   *)
(***************************************************************************)
EXTENDS Integers, FiniteSets, FiniteSetsExt

CONSTANTS
    High, Low,  \* timers by priority
    Delays,     \* of timers that callbacks set
    Milli,      \* units of the clock in a millisecond
    MaxTime     \* bound on the clock

PollAssumption ==
    /\ High \cap Low = {}
    /\ Delays \subseteq Nat \ {0} /\ Milli \in Nat \ {0} /\ MaxTime \in Nat

VARIABLES
    now,
    expiry,     \* of each timer, Never if it is not pending
    ready,      \* a socket has events
    waiting, until  \* whether the thread is in wait(), and for how long
vars == <<now, expiry, ready, waiting, until>>

AllTimers == High \union Low
Never == MaxTime + 1
Pending == {t \in AllTimers : expiry[t] # Never}
Due(q) == {t \in q : expiry[t] =< now}

Init ==
    /\ now = 0 /\ ready = FALSE /\ waiting = FALSE /\ until = 0
    /\ expiry \in [AllTimers -> Delays \union {Never}]

\* The end of the wait: until the next expiry, in whole milliseconds, or none.
WaitUntil ==
    Min({now + Milli * ((Max({expiry[t], now}) - now) \div Milli) : t \in Pending} \union {Never})

Wait ==
    /\ ~waiting
    /\ waiting' = TRUE /\ until' = WaitUntil
    /\ UNCHANGED <<now, expiry, ready>>

\* Faulty: timers wait for a cycle without events, whatever their priority.
DispatchedIfQuiet == IF ready THEN {} ELSE Due(AllTimers)

\* Timers that this cycle calls.
Dispatched == IF Due(High) # {} \/ ready THEN Due(High) ELSE Due(Low)

\* wait() returns with events or for its time-out.  Called timers and the
\* handlers of events set timers, and cancel them.
Dispatch ==
    /\ waiting /\ (ready \/ now >= until)
    /\ waiting' = FALSE /\ until' = 0
    /\ ready' = FALSE
    /\ expiry' \in [AllTimers -> 0..Never]
    /\ \A t \in AllTimers :
        \/ t \notin Dispatched /\ expiry'[t] = expiry[t]
        \/ /\ ready \/ Dispatched # {}
           /\ expiry'[t] \in {Never} \union {now + d : d \in Delays}
    /\ UNCHANGED now

\* wait() is interrupted by a signal.
Interrupt ==
    /\ waiting
    /\ waiting' = FALSE /\ until' = 0
    /\ UNCHANGED <<now, expiry, ready>>

Arrive == ~ready /\ ready' = TRUE /\ UNCHANGED <<now, expiry, waiting, until>>
Tick == now < MaxTime /\ now' = now + 1 /\ UNCHANGED <<expiry, ready, waiting, until>>

Next == Wait \/ Dispatch \/ Interrupt \/ Arrive \/ Tick

\* The reactor goes on, wait() returns when it should (again and again it is
\* not interrupted), and time passes.
Fairness == WF_vars(Wait) /\ SF_vars(Dispatch) /\ WF_vars(Tick)

Spec == Init /\ [][Next]_vars /\ Fairness

-----------------------------------------------------------------------------

\* The type invariant.
TypeOK ==
    /\ now \in 0..MaxTime /\ until \in 0..Never
    /\ expiry \in [AllTimers -> 0..Never]
    /\ {ready, waiting} \subseteq BOOLEAN

\* A timer of high priority expires, however busy the sockets are: it is called
\* or cancelled once its time has come (do_poll dispatches that queue always).
HighExpire == \A t \in High : t \in Due(High) ~> t \notin Due(High)

\* If the sockets are quiet from some time on, timers of low priority expire as
\* well: sessions that are left alone are closed.
LowExpireWhenQuiet == <>[]~ready => \A t \in Low : t \in Due(Low) ~> t \notin Due(Low)
=============================================================================
