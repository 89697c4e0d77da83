------------------------------ MODULE TimerQueue -----------------------------
(***************************************************************************)
(* The queue of timers of the reactor (src/src/swirly/sys/Timer.cpp and    *)
(* Timer.hpp).                                                             *)
(*                                                                         *)
(* A timer is counted by references: the user's handle, the heap, and the  *)
(* local one of expire() while its callback runs.  A cancelled timer stays *)
(* in the heap until it is popped or collected, and "cancelled" should say *)
(* how many these are.  Callbacks call the queue again: whatever the user  *)
(* may do between two dispatches, a callback may do as well, with its own  *)
(* timer or another.                                                       *)
(***************************************************************************)
EXTENDS Integers, FiniteSets

CONSTANTS
    Timers,     \* the memory of timers, taken from and given back to the free list
    NoTimer,
    Intervals,  \* of periodic timers; 0 for a timer that fires once
    Delays,     \* from now to the expiry of a new timer
    MaxTime     \* bound on the clock

ASSUME TimerAssumption ==
    /\ NoTimer \notin Timers
    /\ IsFiniteSet(Timers)
    /\ Intervals \subseteq Nat
    /\ Delays \subseteq Nat \ {0}
    /\ MaxTime \in Nat

VARIABLES
    held,       \* timers that the user has a handle of
    heap,       \* timers in the heap
    front,      \* the one at its front
    pending,    \* timers that have a slot to be called
    expiry, interval,
    cancelled,  \* cancelled_
    running,    \* the timer whose callback runs
    busy,       \* inside dispatch()
    now

queueVars == <<heap, front, cancelled>>
timerVars == <<held, pending, expiry, interval>>
vars == <<queueVars, timerVars, running, busy, now>>

\* The fronts that a heap may have: timers with the same expiry are in no
\* particular order.
Fronts(h) ==
    IF h = {} THEN {NoTimer}
    ELSE {t \in h : \A u \in h : expiry[t] =< expiry[u]}

\* push_heap: a new timer passes those that expire later.
Push(t, at) ==
    /\ heap' = heap \union {t}
    /\ front' = IF front = NoTimer THEN t
                ELSE IF at < expiry[front] THEN t ELSE front

\* Timers that expire after the end of the modelled time.
Horizon == MaxTime + 1

LaterOf(x, y) == IF x > y THEN x ELSE y
EarlierOf(x, y) == IF x < y THEN x ELSE y

\* The references to a timer.
Refs(t) == {<<where, t>> : where \in
    (IF t \in held THEN {"held"} ELSE {}) \union
    (IF t \in heap THEN {"heap"} ELSE {}) \union
    (IF t = running THEN {"running"} ELSE {})}

Init ==
    /\ held = {} /\ heap = {} /\ front = NoTimer /\ pending = {}
    /\ expiry = [t \in Timers |-> 0] /\ interval = [t \in Timers |-> 0]
    /\ cancelled = 0
    /\ running = NoTimer /\ busy = FALSE /\ now = 0

-----------------------------------------------------------------------------
\* Faulty: what is collected stays counted.
GcKeepsCount(h, f, c, p) ==
    IF c > Cardinality(h) \div 2
    THEN {<<h \intersect p, g, c>> : g \in Fronts(h \intersect p)}
    ELSE {<<h, f, c>>}

\* gc: the results of collecting in a heap h with front f, if c timers are
\* said to be cancelled and those of p are pending.
Gc(h, f, c, p) ==
    IF c > Cardinality(h) \div 2
    THEN {<<h \intersect p, g, 0>> : g \in Fronts(h \intersect p)}
    ELSE {<<h, f, c>>}

\* TimerQueue::cancel, when those of p are still pending: timers that are not
\* pending are popped from the front until one that is comes up.
Cancelling(p) ==
    LET first  == {t \in heap : \A u \in heap \intersect p : expiry[t] =< expiry[u]}
        before == {t \in heap : \A u \in heap \intersect p : expiry[t] < expiry[u]}
        popped == IF front = NoTimer \/ front \in p THEN {{}}
                  ELSE {s \in SUBSET (first \ p) : before \union {front} \subseteq s}
    IN  UNION {UNION {Gc(heap \ s, f, cancelled + 1 - Cardinality(s), p) :
                        f \in Fronts(heap \ s) \intersect (p \union {NoTimer})} :
               s \in {q \in popped :
                        front \in p
                        \/ Fronts(heap \ q) \intersect (p \union {NoTimer}) # {}}}

Insert ==
    \E t \in {u \in Timers : Refs(u) = {}}, d \in Delays, i \in Intervals :
        /\ now + d =< Horizon
        /\ expiry' = [expiry EXCEPT ![t] = now + d]
        /\ interval' = [interval EXCEPT ![t] = i]
        /\ held' = held \union {t}
        /\ pending' = pending \union {t}
        /\ Push(t, now + d)
        /\ UNCHANGED <<cancelled, running, busy, now>>

\* Faulty: the queue is not told.
UnslotQuietly(t) ==
    /\ pending' = pending \ {t}
    /\ UNCHANGED queueVars

\* Resetting the slot of a timer and telling the queue.
Unslot(t) ==
    /\ pending' = pending \ {t}
    /\ \E r \in Cancelling(pending') :
        heap' = r[1] /\ front' = r[2] /\ cancelled' = r[3]

\* Timer::cancel.
Cancel ==
    /\ \E t \in held \intersect pending : Unslot(t)
    /\ UNCHANGED <<held, expiry, interval, running, busy, now>>

\* A handle is destroyed or assigned to.  If that leaves a single reference to
\* a pending timer, the timer is cancelled.
Release ==
    /\ \E t \in held :
        /\ held' = held \ {t}
        /\ IF t \in pending /\ Cardinality(Refs(t)) = 2 THEN Unslot(t)
           ELSE UNCHANGED <<pending, queueVars>>
    /\ UNCHANGED <<expiry, interval, running, busy, now>>

-----------------------------------------------------------------------------
(* dispatch. *)

Dispatch ==
    /\ ~busy
    /\ busy' = TRUE
    /\ UNCHANGED <<queueVars, timerVars, running, now>>

InLoop == busy /\ running = NoTimer

PopFront ==
    /\ heap' = heap \ {front}
    /\ front' \in Fronts(heap')

\* A timer at the front that is not pending was cancelled.
PopCancelled ==
    /\ InLoop /\ front # NoTimer /\ front \notin pending
    /\ PopFront
    /\ cancelled' = cancelled - 1
    /\ UNCHANGED <<timerVars, running, busy, now>>

\* Faulty: a timer expires after its time and not at it.
ExpireLate ==
    /\ InLoop /\ front \in pending
    /\ expiry[front] < now
    /\ running' = front
    /\ PopFront
    /\ UNCHANGED <<cancelled, timerVars, busy, now>>

\* expire: the timer is popped and its callback begins.
Expire ==
    /\ InLoop /\ front \in pending
    /\ expiry[front] =< now
    /\ running' = front
    /\ PopFront
    /\ UNCHANGED <<cancelled, timerVars, busy, now>>

\* The callback returns or throws.  A periodic timer that is still pending is
\* scheduled again, after now in any case; another is done.
Return ==
    /\ running # NoTimer
    /\ LET t    == running
           next == EarlierOf(LaterOf(expiry[t] + interval[t], now + 1), Horizon)
       IN  IF t \in pending /\ interval[t] > 0
           THEN /\ expiry' = [expiry EXCEPT ![t] = next]
                /\ Push(t, next)
                /\ UNCHANGED pending
           ELSE /\ pending' = pending \ {t}
                /\ UNCHANGED <<expiry, heap, front>>
    /\ running' = NoTimer
    /\ UNCHANGED <<held, interval, cancelled, busy, now>>

\* The front expires later than now, or there is none.
DispatchEnds ==
    /\ InLoop
    /\ front # NoTimer => front \in pending /\ expiry[front] > now
    /\ \E r \in Gc(heap, front, cancelled, pending) :
        heap' = r[1] /\ front' = r[2] /\ cancelled' = r[3]
    /\ busy' = FALSE
    /\ UNCHANGED <<timerVars, running, now>>

\* Time passes between two calls.
Tick ==
    /\ ~busy /\ now < MaxTime
    /\ now' = now + 1
    /\ UNCHANGED <<queueVars, timerVars, running, busy>>

\* The user's calls, between dispatches or from a callback.
UserCalls ==
    /\ busy => running # NoTimer
    /\ Insert \/ Cancel \/ Release

InDispatch == PopCancelled \/ Expire \/ Return \/ DispatchEnds

Next == UserCalls \/ Dispatch \/ InDispatch \/ Tick

\* The reactor goes on polling, callbacks return, and time passes between polls
\* however often they are.
Fairness == WF_vars(InDispatch) /\ WF_vars(Dispatch) /\ SF_vars(Tick)

Spec == Init /\ [][Next]_vars /\ Fairness

-----------------------------------------------------------------------------
Dead == heap \ pending

\* The type invariant.
TypeOK ==
    /\ {held, heap, pending} \subseteq SUBSET Timers
    /\ front \in Timers \union {NoTimer} /\ running \in Timers \union {NoTimer}
    /\ expiry \in [Timers -> 0..Horizon] /\ interval \in [Timers -> Intervals \union {0}]
    /\ cancelled \in 0..Cardinality(Timers)
    /\ busy \in BOOLEAN /\ now \in 0..MaxTime

\* Whatever is in the heap without a slot is counted as cancelled, so that the
\* count never falls below zero (the asserts of Timer.cpp:63 and :117).
DeadAreCounted == Cardinality(Dead) =< cancelled

\* Between two calls, what empty() and front() say is true: the reactor waits
\* for ever only if no timer is pending, and otherwise until the first pending
\* one expires (EpollReactor::do_poll; cancel, dispatch and gc).
PollSeesTimers ==
    ~busy =>
        /\ (Cardinality(heap) - cancelled = 0) <=> (heap \intersect pending = {})
        /\ heap \intersect pending # {} =>
            /\ front \in pending
            /\ \A t \in heap \intersect pending : expiry[front] =< expiry[t]

\* A timer fires once its time has come, unless it is cancelled: none is lost
\* among cancelled ones or behind later ones (dispatch, expire).
TimersExpire ==
    \A t \in Timers : t \in pending /\ expiry[t] =< MaxTime
        ~> t \notin pending \/ t = running \/ expiry[t] > MaxTime
=============================================================================
