-------------------------- MODULE ProgressProofs ---------------------------
(***************************************************************************)
(* Proofs about TimerQueue for any number of timers, and about Daemon for  *)
(* requests without end, any capacity and any number of signals.           *)
(*                                                                         *)
(* What the reactor reads between two calls, a count and a front, is true  *)
(* of the heap for two reasons.  The timers that are dead in the heap are  *)
(* counted whenever they die (DeadAreCounted); they may be fewer than      *)
(* counted, as a timer cancelled in its own callback is not in the heap.   *)
(* And every call that may bury a pending timer under dead ones ends in    *)
(* gc(): between two calls the front is pending and at most half of the    *)
(* heap is counted (Settled), so that the difference is zero only for an   *)
(* empty heap.  QueueInv is the conjunction of both, of the order of the   *)
(* heap, and of the timer that runs being outside of it.                   *)
(*                                                                         *)
(* Of the daemon, DaemonInv says that the messages in the database, the    *)
(* one that the journal thread has and those on the queue are numbered     *)
(* from one without gaps, as far as they are followed, and how far main is *)
(* when that thread has ended.                                             *)
(***************************************************************************)
EXTENDS ProgressMC, Sequences, FiniteSetTheorems, TLAPS

\* What cancel() and gc() leave behind: a heap h with front f of which c are
\* counted as cancelled, when those of p are pending.
Settled(h, f, c, p) ==
    /\ f \in p \union {NoTimer}
    /\ c =< Cardinality(h) \div 2

\* The inductive invariant, relative to the types.
QueueInv ==
    /\ front \in Fronts(heap)
    /\ running \notin heap
    /\ running # NoTimer => busy
    /\ DeadAreCounted
    /\ ~busy => Settled(heap, front, cancelled, pending)

Kept == TypeOK /\ QueueInv

-----------------------------------------------------------------------------
(* Sets of timers. *)

\* Heaps are finite, so that heap_.size() is a number.
LEMMA HeapsAreFinite ==
    ASSUME NEW h \in SUBSET Timers
    PROVE  /\ IsFiniteSet(h)
           /\ Cardinality(h) \in Nat
           /\ Cardinality(h) =< Cardinality(Timers)
           /\ Cardinality(Timers) \in Nat
  BY FS_Subset, FS_CardinalityType, TimerAssumption

\* A heap without timers is the one of size zero (empty()).
LEMMA EmptyHeap ==
    ASSUME NEW h \in SUBSET Timers
    PROVE  Cardinality(h) = 0 <=> h = {}
  BY FS_EmptySet, HeapsAreFinite

\* The size of a heap after some of it was popped.
LEMMA PoppedSize ==
    ASSUME NEW h \in SUBSET Timers, NEW s \in SUBSET h
    PROVE  Cardinality(h \ s) = Cardinality(h) - Cardinality(s)
<1>1. IsFiniteSet(h) /\ IsFiniteSet(s) /\ h \intersect s = s
  BY HeapsAreFinite
<1> QED
  BY <1>1, FS_Difference

\* A part of a heap is no larger than the heap.
LEMMA PartSize ==
    ASSUME NEW h \in SUBSET Timers, NEW s \in SUBSET h
    PROVE  Cardinality(s) =< Cardinality(h)
  BY HeapsAreFinite, FS_Subset

\* One more timer makes the heap larger by one at most (push_heap).
LEMMA PushedSize ==
    ASSUME NEW h \in SUBSET Timers, NEW t \in Timers
    PROVE  /\ Cardinality(h \union {t}) =< Cardinality(h) + 1
           /\ Cardinality(h) =< Cardinality(h \union {t})
  BY HeapsAreFinite, FS_AddElement

-----------------------------------------------------------------------------
(* The functions that change the heap. *)

\* gc() collects dead timers only, and leaves a settled heap if the front it was
\* given is alive.
LEMMA GcSettles ==
    ASSUME NEW h \in SUBSET Timers, NEW f \in Fronts(h), NEW c \in Nat,
           NEW p \in SUBSET Timers, f \in p \union {NoTimer},
           Cardinality(h \ p) =< c,
           NEW r \in Gc(h, f, c, p)
    PROVE  /\ r[1] \in SUBSET h
           /\ r[2] \in Fronts(r[1])
           /\ r[3] \in 0..Cardinality(Timers)
           /\ Cardinality(r[1] \ p) =< r[3]
           /\ Settled(r[1], r[2], r[3], p)
<1>1. CASE c > Cardinality(h) \div 2
  <2>1. PICK g \in Fronts(h \intersect p) : r = <<h \intersect p, g, 0>>
    BY <1>1 DEF Gc
  <2>2. (h \intersect p) \ p = {}
    OBVIOUS
  <2>3. Cardinality((h \intersect p) \ p) = 0
    BY <2>2, FS_EmptySet
  <2>4. g \in p \union {NoTimer}
    BY <2>1 DEF Fronts
  <2>5. 0 =< Cardinality(h \intersect p) \div 2
    BY HeapsAreFinite
  <2> QED
    BY <2>1, <2>3, <2>4, <2>5, HeapsAreFinite DEF Settled
<1>2. CASE ~(c > Cardinality(h) \div 2)
  <2>1. r = <<h, f, c>>
    BY <1>2 DEF Gc
  <2>2. c =< Cardinality(h) \div 2 /\ c =< Cardinality(Timers)
    BY <1>2, HeapsAreFinite
  <2> QED
    BY <2>1, <2>2 DEF Settled
<1> QED
  BY <1>1, <1>2

\* cancel() of one timer leaves a settled heap, whatever it found: it pops no more
\* timers than are counted, the one that was cancelled included.
LEMMA CancellingSettles ==
    ASSUME Kept, NEW t \in pending, NEW r \in Cancelling(pending \ {t})
    PROVE  /\ r[1] \in SUBSET Timers
           /\ r[2] \in Fronts(r[1])
           /\ r[3] \in 0..Cardinality(Timers)
           /\ Cardinality(r[1] \ (pending \ {t})) =< r[3]
           /\ Settled(r[1], r[2], r[3], pending \ {t})
           /\ running \notin r[1]
<1> DEFINE p == pending \ {t}
<1>1. heap \in SUBSET Timers /\ p \in SUBSET Timers /\ cancelled \in Nat
      /\ t \in Timers
  BY HeapsAreFinite DEF Kept, TypeOK
<1>2. PICK s \in SUBSET heap, f \in Timers \union {NoTimer} :
        /\ s \intersect p = {}
        /\ f \in Fronts(heap \ s) /\ f \in p \union {NoTimer}
        /\ r \in Gc(heap \ s, f, cancelled + 1 - Cardinality(s), p)
  <2> DEFINE first  == {u \in heap : \A v \in heap \intersect p : expiry[u] =< expiry[v]}
             before == {u \in heap : \A v \in heap \intersect p : expiry[u] < expiry[v]}
             popped == IF front = NoTimer \/ front \in p THEN {{}}
                       ELSE {s \in SUBSET (first \ p) : before \union {front} \subseteq s}
             alive(q) == Fronts(heap \ q) \intersect (p \union {NoTimer})
             after(s, f) == Gc(heap \ s, f, cancelled + 1 - Cardinality(s), p)
  <2>1. popped \subseteq SUBSET (heap \ p)
    OBVIOUS
  <2> HIDE DEF p, popped, after
  <2>2. r \in UNION {UNION {after(s, f) : f \in alive(s)} :
                     s \in {q \in popped : front \in p \/ alive(q) # {}}}
    BY DEF Cancelling, p, popped, after
  <2>3. PICK s \in popped : r \in UNION {after(s, f) : f \in alive(s)}
    BY <2>2
  <2>4. PICK f \in alive(s) : r \in after(s, f)
    BY <2>3
  <2>5. s \in SUBSET heap /\ s \intersect p = {} /\ f \in Timers \union {NoTimer}
    BY <1>1, <2>1, <2>3, <2>4
  <2> QED
    BY <2>4, <2>5 DEF after
<1>3. Cardinality(heap \ p) =< cancelled + 1
  <2>1. heap \ p \in SUBSET ((heap \ pending) \union {t})
    OBVIOUS
  <2>2. Cardinality((heap \ pending) \union {t}) =< Cardinality(heap \ pending) + 1
    BY <1>1, PushedSize
  <2>3. Cardinality(heap \ p) =< Cardinality((heap \ pending) \union {t})
    BY <1>1, <2>1, PartSize
  <2> QED
    BY <1>1, <2>2, <2>3, HeapsAreFinite DEF Kept, QueueInv, DeadAreCounted, Dead
<1>4. Cardinality((heap \ p) \ s) = Cardinality(heap \ p) - Cardinality(s)
  BY <1>1, <1>2, PoppedSize
<1>5. (heap \ s) \ p = (heap \ p) \ s
  OBVIOUS
<1> DEFINE c == cancelled + 1 - Cardinality(s)
<1>6. c \in Nat /\ Cardinality((heap \ s) \ p) =< c
  <2>1. {heap \ p, s, (heap \ p) \ s} \subseteq SUBSET Timers
    BY <1>1, <1>2
  <2>2. /\ Cardinality(heap \ p) \in Nat /\ Cardinality(s) \in Nat
        /\ Cardinality((heap \ p) \ s) \in Nat
    BY <2>1, HeapsAreFinite
  <2>3. Cardinality((heap \ s) \ p) = Cardinality(heap \ p) - Cardinality(s)
    BY <1>4, <1>5
  <2> HIDE DEF p
  <2> QED
    BY <1>1, <1>3, <1>4, <2>2, <2>3
<1>7. heap \ s \in SUBSET Timers
  BY <1>1
<1> HIDE DEF c, p
<1>8. r \in Gc(heap \ s, f, c, p)
  BY <1>2 DEF c
<1>9. /\ r[1] \in SUBSET (heap \ s)
      /\ r[2] \in Fronts(r[1])
      /\ r[3] \in 0..Cardinality(Timers)
      /\ Cardinality(r[1] \ p) =< r[3]
      /\ Settled(r[1], r[2], r[3], p)
  BY <1>1, <1>2, <1>6, <1>7, <1>8, GcSettles
<1> QED
  BY <1>1, <1>9 DEF p, Kept, QueueInv

-----------------------------------------------------------------------------
(* The steps. *)

\* push_heap and pop_heap keep the earliest timer at the front, when the timers
\* that are in the heap keep their expiry.
LEMMA PushKeepsOrder ==
    ASSUME Kept, NEW t \in Timers, t \notin heap, NEW d \in 0..Horizon,
           expiry' = [expiry EXCEPT ![t] = d], Push(t, d)
    PROVE  /\ heap' \in SUBSET Timers /\ heap' = heap \union {t}
           /\ front' \in Timers
           /\ front' \in Fronts(heap)'
           /\ front' \in {t, front}
<1>1. /\ heap \in SUBSET Timers /\ front \in Fronts(heap)
      /\ expiry \in [Timers -> 0..Horizon] /\ Horizon \in Nat
  BY TimerAssumption DEF Kept, TypeOK, QueueInv, Horizon
<1>2. expiry'[t] = d /\ \A u \in heap : expiry'[u] = expiry[u]
  BY <1>1
<1>3. heap' = heap \union {t}
  BY DEF Push
<1>4. CASE heap = {}
  <2>1. front = NoTimer /\ front' = t
    BY <1>1, <1>4, TimerAssumption DEF Push, Fronts
  <2> QED
    BY <1>1, <1>2, <1>3, <1>4, <2>1 DEF Fronts
<1>5. CASE heap # {}
  <2>1. front \in heap /\ \A u \in heap : expiry[front] =< expiry[u]
    BY <1>1, <1>5 DEF Fronts
  <2>2. front' = IF d < expiry[front] THEN t ELSE front
    BY <1>1, <2>1, TimerAssumption DEF Push
  <2>3. front' \in heap' /\ \A u \in heap' : expiry'[front'] =< expiry'[u]
    <3>1. \A u \in heap : expiry[u] \in Nat
      BY <1>1
    <3>2. d \in Nat
      BY <1>1
    <3>3. CASE d < expiry[front]
      BY <1>2, <1>3, <2>1, <2>2, <3>1, <3>2, <3>3
    <3>4. CASE ~(d < expiry[front])
      BY <1>2, <1>3, <2>1, <2>2, <3>1, <3>2, <3>4
    <3> QED
      BY <3>3, <3>4
  <2> QED
    BY <1>1, <1>3, <1>5, <2>1, <2>2, <2>3 DEF Fronts
<1> QED
  BY <1>4, <1>5

\* The front of a heap is one of its timers, if it has any.
LEMMA FrontType ==
    ASSUME NEW h \in SUBSET Timers, NEW f \in Fronts(h)
    PROVE  /\ f \in Timers \union {NoTimer}
           /\ f = NoTimer <=> h = {}
  BY TimerAssumption DEF Fronts

\* Nothing is in the heap before the first call.
LEMMA InitKeeps ==
    Init => Kept
<1> SUFFICES ASSUME Init PROVE Kept
  OBVIOUS
<1>1. heap = {} /\ pending = {} /\ cancelled = 0 /\ Cardinality({}) = 0
  BY FS_EmptySet DEF Init
<1>2. Horizon \in Nat /\ Cardinality(Timers) \in Nat
  BY TimerAssumption, HeapsAreFinite DEF Horizon
<1>3. TypeOK
  <2>1. 0 \in 0..Horizon /\ 0 \in 0..Cardinality(Timers) /\ 0 \in 0..MaxTime
    BY <1>2, TimerAssumption
  <2>2. /\ expiry \in [Timers -> 0..Horizon]
        /\ interval \in [Timers -> Intervals \union {0}]
    BY <2>1 DEF Init
  <2>3. {held, heap, pending} \subseteq SUBSET Timers
    BY DEF Init
  <2> QED
    BY <2>1, <2>2, <2>3 DEF Init, TypeOK
<1>4. DeadAreCounted
  <2>1. heap \ pending = {}
    BY <1>1
  <2> QED
    BY <1>1, <2>1 DEF DeadAreCounted, Dead
<1>5. Settled(heap, front, cancelled, pending)
  <2>1. 0 =< 0 \div 2
    OBVIOUS
  <2> QED
    BY <1>1, <2>1 DEF Init, Settled
<1> QED
  BY <1>1, <1>3, <1>4, <1>5 DEF Init, Kept, QueueInv, Fronts

\* cancel() leaves a settled heap between dispatches and within a callback.
LEMMA UnslotKeeps ==
    ASSUME Kept, NEW t \in pending, Unslot(t), held' \in SUBSET Timers,
           UNCHANGED <<expiry, interval, running, busy, now>>
    PROVE  Kept'
<1>1. PICK r \in Cancelling(pending \ {t}) :
        heap' = r[1] /\ front' = r[2] /\ cancelled' = r[3]
  BY DEF Unslot
<1>2. pending' = pending \ {t}
  BY DEF Unslot
<1>3. /\ heap' \in SUBSET Timers
      /\ front' \in Fronts(heap')
      /\ cancelled' \in 0..Cardinality(Timers)
      /\ Cardinality(heap' \ pending') =< cancelled'
      /\ Settled(heap', front', cancelled', pending')
      /\ running \notin heap'
  BY <1>1, <1>2, CancellingSettles
<1>4. front' \in Fronts(heap)'
  BY <1>3 DEF Fronts
<1>5. front' \in Timers \union {NoTimer}
  BY <1>3, FrontType
<1>6. TypeOK'
  BY <1>2, <1>3, <1>5 DEF Kept, TypeOK, Horizon
<1> QED
  BY <1>3, <1>4, <1>6 DEF Kept, QueueInv, DeadAreCounted, Dead, Settled

\* A new timer is alive: the dead are those that were.
LEMMA InsertKeeps ==
    ASSUME Kept, Insert
    PROVE  Kept'
<1>1. PICK t \in {u \in Timers : Refs(u) = {}}, d \in Delays, i \in Intervals :
        /\ now + d =< Horizon
        /\ expiry' = [expiry EXCEPT ![t] = now + d]
        /\ interval' = [interval EXCEPT ![t] = i]
        /\ held' = held \union {t}
        /\ pending' = pending \union {t}
        /\ Push(t, now + d)
        /\ UNCHANGED <<cancelled, running, busy, now>>
  BY DEF Insert
<1>2. t \notin heap /\ t # running
  BY <1>1 DEF Refs
<1>3. now + d \in 0..Horizon
  BY <1>1, TimerAssumption DEF Kept, TypeOK, Horizon
<1>4. /\ heap' \in SUBSET Timers /\ heap' = heap \union {t}
      /\ front' \in Timers /\ front' \in Fronts(heap)'
      /\ front' \in {t, front}
  BY <1>1, <1>2, <1>3, PushKeepsOrder
<1>5. TypeOK'
  BY <1>1, <1>3, <1>4 DEF Kept, TypeOK, Horizon
<1>6. DeadAreCounted'
  <2>1. heap' \ pending' = heap \ pending
    BY <1>1, <1>2, <1>4
  <2> QED
    BY <1>1, <2>1 DEF Kept, QueueInv, DeadAreCounted, Dead
<1>7. ~busy' => Settled(heap, front, cancelled, pending)'
  <2>1. SUFFICES ASSUME ~busy' PROVE Settled(heap', front', cancelled, pending')
    BY <1>1 DEF Settled
  <2>2. Settled(heap, front, cancelled, pending)
    BY <1>1, <2>1 DEF Kept, QueueInv
  <2>3. heap \in SUBSET Timers /\ cancelled \in Nat
    BY HeapsAreFinite DEF Kept, TypeOK
  <2>4. Cardinality(heap) =< Cardinality(heap')
    BY <1>4, <2>3, PushedSize
  <2>5. cancelled =< Cardinality(heap') \div 2
    BY <1>4, <2>2, <2>3, <2>4, HeapsAreFinite DEF Settled
  <2> QED
    BY <1>1, <1>4, <2>2, <2>5 DEF Settled
<1> QED
  BY <1>1, <1>2, <1>4, <1>5, <1>6, <1>7 DEF Kept, QueueInv

\* The last handle of a pending timer cancels it.
LEMMA ReleaseKeeps ==
    ASSUME Kept, Release
    PROVE  Kept'
<1>1. PICK t \in held :
        /\ held' = held \ {t}
        /\ IF t \in pending /\ Cardinality(Refs(t)) = 2 THEN Unslot(t)
           ELSE UNCHANGED <<pending, queueVars>>
  BY DEF Release
<1>2. UNCHANGED <<expiry, interval, running, busy, now>>
  BY DEF Release
<1>3. held' \in SUBSET Timers
  BY <1>1 DEF Kept, TypeOK
<1>4. CASE t \in pending /\ Cardinality(Refs(t)) = 2
  BY <1>1, <1>2, <1>3, <1>4, UnslotKeeps
<1>5. CASE ~(t \in pending /\ Cardinality(Refs(t)) = 2)
  BY <1>1, <1>2, <1>3, <1>5
     DEF Kept, TypeOK, QueueInv, DeadAreCounted, Dead, Settled, queueVars, Horizon, Fronts
<1> QED
  BY <1>4, <1>5

\* pop() removes the front: a dead one that is counted, or a pending one.
LEMMA PopFrontKeeps ==
    ASSUME Kept, front # NoTimer, PopFront
    PROVE  /\ front \in heap
           /\ heap' = heap \ {front} /\ heap' \in SUBSET Timers
           /\ front' \in Timers \union {NoTimer}
           /\ front' \in Fronts(heap')
<1>1. heap \in SUBSET Timers /\ front \in Fronts(heap)
  BY DEF Kept, TypeOK, QueueInv
<1>2. front \in heap
  BY <1>1 DEF Fronts
<1>3. heap' = heap \ {front} /\ heap' \in SUBSET Timers /\ front' \in Fronts(heap')
  BY <1>1 DEF PopFront
<1> QED
  BY <1>2, <1>3, FrontType

\* dispatch() takes a cancelled timer from the heap and from the count: the count is
\* not zero (the assert of Timer.cpp:63).
LEMMA PopCancelledKeeps ==
    ASSUME Kept, PopCancelled
    PROVE  Kept' /\ cancelled > 0
<1>1. /\ front # NoTimer /\ front \notin pending /\ PopFront /\ busy
      /\ cancelled' = cancelled - 1
      /\ UNCHANGED <<timerVars, running, busy, now>>
  BY DEF PopCancelled, InLoop
<1>2. /\ front \in heap
      /\ heap' = heap \ {front} /\ heap' \in SUBSET Timers
      /\ front' \in Timers \union {NoTimer}
      /\ front' \in Fronts(heap')
  BY <1>1, PopFrontKeeps
<1>3. heap \in SUBSET Timers /\ cancelled \in 0..Cardinality(Timers)
  BY DEF Kept, TypeOK
<1>4. Cardinality(heap' \ pending) = Cardinality(heap \ pending) - 1
  <2>1. heap' \ pending = (heap \ pending) \ {front}
    BY <1>2
  <2>2. IsFiniteSet(heap \ pending) /\ front \in heap \ pending
    BY <1>1, <1>2, <1>3, HeapsAreFinite
  <2> QED
    BY <2>1, <2>2, FS_RemoveElement
<1>5. Cardinality(heap \ pending) =< cancelled /\ Cardinality(heap' \ pending) \in Nat
  BY <1>2, HeapsAreFinite DEF Kept, QueueInv, DeadAreCounted, Dead
<1>6. Cardinality(heap \ pending) \in Nat /\ Cardinality(Timers) \in Nat
  BY <1>3, HeapsAreFinite
<1>7. /\ cancelled > 0 /\ cancelled' \in 0..Cardinality(Timers)
      /\ Cardinality(heap' \ pending) =< cancelled'
  BY <1>1, <1>3, <1>4, <1>5, <1>6
<1>8. TypeOK'
  BY <1>1, <1>2, <1>7 DEF Kept, TypeOK, timerVars, Horizon
<1> QED
  BY <1>1, <1>2, <1>7, <1>8
     DEF Kept, QueueInv, DeadAreCounted, Dead, Fronts, timerVars

\* The timer that is called leaves the heap; the dead stay.
LEMMA ExpireKeeps ==
    ASSUME Kept, Expire
    PROVE  Kept'
<1>1. /\ front \in pending /\ running' = front /\ PopFront /\ busy
      /\ UNCHANGED <<cancelled, timerVars, busy, now>>
  BY DEF Expire, InLoop
<1>2. front # NoTimer /\ front \in Timers
  BY <1>1, TimerAssumption DEF Kept, TypeOK
<1>3. /\ front \in heap
      /\ heap' = heap \ {front} /\ heap' \in SUBSET Timers
      /\ front' \in Timers \union {NoTimer}
      /\ front' \in Fronts(heap')
  BY <1>1, <1>2, PopFrontKeeps
<1>4. heap' \ pending' = heap \ pending
  BY <1>1, <1>3 DEF timerVars
<1>5. TypeOK'
  BY <1>1, <1>2, <1>3 DEF Kept, TypeOK, timerVars, Horizon
<1> QED
  BY <1>1, <1>3, <1>4, <1>5
     DEF Kept, QueueInv, DeadAreCounted, Dead, Fronts, timerVars

\* A periodic timer that nobody cancelled goes back into the heap, alive.
LEMMA ReturnKeeps ==
    ASSUME Kept, Return
    PROVE  Kept'
<1> DEFINE t    == running
           next == EarlierOf(LaterOf(expiry[t] + interval[t], now + 1), Horizon)
<1>1. /\ running # NoTimer /\ running' = NoTimer
      /\ UNCHANGED <<held, interval, cancelled, busy, now>>
  BY DEF Return
<1>2. t \in Timers /\ t \notin heap /\ NoTimer \notin heap
  BY <1>1, TimerAssumption DEF Kept, TypeOK, QueueInv
<1>3. CASE t \in pending /\ interval[t] > 0
  <2>1. expiry' = [expiry EXCEPT ![t] = next] /\ Push(t, next) /\ pending' = pending
    BY <1>3 DEF Return
  <2>2. next \in 0..Horizon
    <3>1. /\ expiry[t] \in Nat /\ interval[t] \in Nat /\ now \in Nat /\ Horizon \in Nat
      <4>1. expiry \in [Timers -> 0..Horizon] /\ interval \in [Timers -> Intervals \union {0}]
            /\ now \in 0..MaxTime
        BY DEF Kept, TypeOK
      <4>2. Horizon \in Nat /\ Intervals \union {0} \subseteq Nat /\ MaxTime \in Nat
        BY TimerAssumption DEF Horizon
      <4>3. expiry[t] \in 0..Horizon /\ interval[t] \in Intervals \union {0}
        BY <1>2, <4>1
      <4> QED
        BY <4>1, <4>2, <4>3
    <3>2. LaterOf(expiry[t] + interval[t], now + 1) \in Nat
      BY <3>1 DEF LaterOf
    <3> QED
      BY <3>1, <3>2 DEF EarlierOf
  <2> HIDE DEF next
  <2>3. /\ heap' \in SUBSET Timers /\ heap' = heap \union {t}
        /\ front' \in Timers /\ front' \in Fronts(heap)'
    BY <1>2, <2>1, <2>2, PushKeepsOrder
  <2>4. heap' \ pending' = heap \ pending
    BY <1>3, <2>1, <2>3
  <2>5. TypeOK'
    BY <1>1, <2>1, <2>2, <2>3 DEF Kept, TypeOK, Horizon
  <2> QED
    BY <1>1, <1>2, <2>3, <2>4, <2>5, TimerAssumption DEF Kept, QueueInv, DeadAreCounted, Dead
<1>4. CASE ~(t \in pending /\ interval[t] > 0)
  <2>1. pending' = pending \ {t} /\ UNCHANGED <<expiry, heap, front>>
    BY <1>4 DEF Return
  <2>2. heap' \ pending' = heap \ pending
    BY <1>2, <2>1
  <2>3. TypeOK'
    BY <1>1, <2>1 DEF Kept, TypeOK, Horizon
  <2> QED
    BY <1>1, <1>2, <2>1, <2>2, <2>3 DEF Kept, QueueInv, DeadAreCounted, Dead, Fronts
<1> QED
  BY <1>3, <1>4

\* dispatch() ends when the front is alive, and collects.
LEMMA DispatchEndsKeeps ==
    ASSUME Kept, DispatchEnds
    PROVE  Kept'
<1>1. /\ front # NoTimer => front \in pending
      /\ running = NoTimer
      /\ UNCHANGED <<timerVars, running, now>> /\ busy' = FALSE
  BY DEF DispatchEnds, InLoop
<1>2. PICK r \in Gc(heap, front, cancelled, pending) :
        heap' = r[1] /\ front' = r[2] /\ cancelled' = r[3]
  BY DEF DispatchEnds
<1>3. /\ heap \in SUBSET Timers /\ pending \in SUBSET Timers /\ cancelled \in Nat
      /\ front \in Fronts(heap) /\ Cardinality(heap \ pending) =< cancelled
      /\ running \notin heap
  BY HeapsAreFinite DEF Kept, TypeOK, QueueInv, DeadAreCounted, Dead
<1>4. front \in pending \union {NoTimer}
  BY <1>1
<1>5. /\ r[1] \in SUBSET heap
      /\ r[2] \in Fronts(r[1])
      /\ r[3] \in 0..Cardinality(Timers)
      /\ Cardinality(r[1] \ pending) =< r[3]
      /\ Settled(r[1], r[2], r[3], pending)
  BY <1>2, <1>3, <1>4, GcSettles
<1>6. heap' \in SUBSET Timers /\ front' \in Timers \union {NoTimer}
  BY <1>2, <1>3, <1>5, FrontType
<1>7. TypeOK'
  BY <1>1, <1>2, <1>5, <1>6 DEF Kept, TypeOK, timerVars, Horizon
<1> QED
  BY <1>1, <1>2, <1>3, <1>5, <1>7
     DEF Kept, QueueInv, DeadAreCounted, Dead, Fronts, Settled, timerVars

\* No step of the user, the clock or dispatch() breaks the invariant.
LEMMA StepKeeps ==
    Kept /\ [Next]_vars => Kept'
<1> SUFFICES ASSUME Kept, [Next]_vars PROVE Kept'
  OBVIOUS
<1>1. CASE Insert
  BY <1>1, InsertKeeps
<1>2. CASE Cancel
  <2>1. PICK t \in held \intersect pending : Unslot(t)
    BY <1>2 DEF Cancel
  <2>2. held' \in SUBSET Timers /\ UNCHANGED <<expiry, interval, running, busy, now>>
    BY <1>2 DEF Cancel, Kept, TypeOK
  <2> QED
    BY <2>1, <2>2, UnslotKeeps
<1>3. CASE Release
  BY <1>3, ReleaseKeeps
<1>4. CASE Dispatch
  BY <1>4 DEF Dispatch, Kept, TypeOK, QueueInv, DeadAreCounted, Dead, Fronts,
              queueVars, timerVars, Horizon
<1>5. CASE PopCancelled
  BY <1>5, PopCancelledKeeps
<1>6. CASE Expire
  BY <1>6, ExpireKeeps
<1>7. CASE Return
  BY <1>7, ReturnKeeps
<1>8. CASE DispatchEnds
  BY <1>8, DispatchEndsKeeps
<1>9. CASE Tick
  <2>1. now' \in 0..MaxTime
    BY <1>9, TimerAssumption DEF Tick, Kept, TypeOK
  <2> QED
    BY <1>9, <2>1 DEF Tick, Kept, TypeOK, QueueInv, DeadAreCounted, Dead, Fronts,
              Settled, queueVars, timerVars, Horizon
<1>10. CASE UNCHANGED vars
  BY <1>10 DEF vars, Kept, TypeOK, QueueInv, DeadAreCounted, Dead, Fronts,
              Settled, queueVars, timerVars, Horizon
<1> QED
  BY <1>1, <1>2, <1>3, <1>4, <1>5, <1>6, <1>7, <1>8, <1>9, <1>10
     DEF Next, UserCalls, InDispatch

-----------------------------------------------------------------------------
(* The theorems. *)

\* The heap is ordered, its dead timers are counted, and it is settled between two
\* calls, for ever (Timer.cpp).
THEOREM KeptAlways ==
    Spec => []Kept
<1>1. Init => Kept
  BY InitKeeps
<1>2. Kept /\ [Next]_vars => Kept'
  BY StepKeeps
<1> QED
  BY <1>1, <1>2, PTL DEF Spec

\* The variables keep their types: the count stays between zero and the number of
\* timers (the asserts of Timer.cpp:63 and :117).
THEOREM TypesHold ==
    Spec => []TypeOK
<1>1. Kept => TypeOK
  BY DEF Kept
<1> QED
  BY <1>1, KeptAlways, PTL

\* Whatever is in the heap without a slot is counted as cancelled, however the calls
\* of users, callbacks and dispatch() alternate.
THEOREM DeadCounted ==
    Spec => []DeadAreCounted
<1>1. Kept => DeadAreCounted
  BY DEF Kept, QueueInv
<1> QED
  BY <1>1, KeptAlways, PTL

\* A settled heap tells the truth by its count and its front.
LEMMA SettledIsSeen ==
    Kept => PollSeesTimers
<1> SUFFICES ASSUME Kept, ~busy PROVE PollSeesTimers
  BY DEF PollSeesTimers
<1>1. /\ heap \in SUBSET Timers /\ pending \in SUBSET Timers /\ cancelled \in Nat
      /\ front \in Fronts(heap) /\ Cardinality(heap \ pending) =< cancelled
      /\ front \in pending \union {NoTimer}
      /\ cancelled =< Cardinality(heap) \div 2
  BY HeapsAreFinite DEF Kept, TypeOK, QueueInv, DeadAreCounted, Dead, Settled
<1>2. Cardinality(heap) \in Nat
  BY <1>1, HeapsAreFinite
<1>3. ASSUME heap \intersect pending = {}
      PROVE  Cardinality(heap) - cancelled = 0
  <2>1. heap \ pending = heap
    BY <1>3
  <2> QED
    BY <1>1, <1>2, <2>1
<1>4. ASSUME Cardinality(heap) - cancelled = 0
      PROVE  heap \intersect pending = {}
  <2>1. Cardinality(heap) = 0
    BY <1>1, <1>2, <1>4
  <2> QED
    BY <1>1, <2>1, EmptyHeap
<1>5. ASSUME heap \intersect pending # {}
      PROVE  /\ front \in pending
             /\ \A t \in heap \intersect pending : expiry[front] =< expiry[t]
  <2>1. front \in heap /\ \A t \in heap : expiry[front] =< expiry[t]
    BY <1>1, <1>5 DEF Fronts
  <2> QED
    BY <1>1, <2>1, TimerAssumption
<1> QED
  BY <1>3, <1>4, <1>5 DEF PollSeesTimers

\* Between two calls the reactor waits for ever only if no timer is pending, and
\* otherwise until the first pending one expires.
THEOREM PollSees ==
    Spec => []PollSeesTimers
  BY SettledIsSeen, KeptAlways, PTL

-----------------------------------------------------------------------------
(* The daemon's threads (Main.cpp, Thread.cpp). *)

\* The first message that is neither written nor being written.
NextToPop == Len(written) + (IF journ = "write" THEN 1 ELSE 0) + 1

\* The database holds a beginning of what was posted.
WrittenCounts == \A i \in 1..Len(written) : written[i] = i

\* While the journal thread lives, what it has taken and the queue continue it.
QueueContinues ==
    journ # "ended" =>
        /\ taken = IF journ = "write" THEN Daemon!NumberOf(Len(written) + 1) ELSE 0
        /\ Daemon!NumberOf(NextToPop + Len(queue)) = Daemon!NumberOf(served + 1)
        /\ \A i \in 1..Len(queue) : queue[i] = Daemon!NumberOf(NextToPop + i - 1)

\* main starts the journal thread before it waits, and joins it before it goes on to
\* the reactor.
JoinsInOrder ==
    /\ main \in {"start", "started"} => journ = "none"
    /\ main \in {"stopReactor", "interrupt", "joinReactor"} => journ = "ended"
    /\ Daemon!ThreadsEndFirst

\* The inductive invariant.
DaemonInv == Daemon!TypeOK /\ WrittenCounts /\ QueueContinues /\ JoinsInOrder

\* The process starts with neither a message nor a thread.
LEMMA DaemonStarts ==
    Daemon!Init => DaemonInv
<1> SUFFICES ASSUME Daemon!Init PROVE DaemonInv
  OBVIOUS
<1>0. /\ <<>> \in Seq(1..Daemon!Later) /\ <<>> \in Seq(1..Followed) /\ Len(<<>>) = 0
      /\ Followed \in Nat /\ MaxQueue \in Nat /\ MaxSignals \in Nat
  BY ProgressAssumption DEF Daemon!DaemonAssumption
<1>1. Daemon!TypeOK
  <2>1. /\ queue \in Seq(1..Daemon!Later) /\ Len(queue) =< MaxQueue
        /\ written \in Seq(1..Followed)
    BY <1>0 DEF Daemon!Init
  <2>2. /\ sent \in 0..MaxSignals /\ taken \in 0..Daemon!Later
        /\ served \in 0..Daemon!Later
    BY <1>0 DEF Daemon!Init, Daemon!Later
  <2>3. {count, stopJ, stopR, efd} \subseteq BOOLEAN
    BY DEF Daemon!Init
  <2> QED
    BY <2>1, <2>2, <2>3 DEF Daemon!Init, Daemon!TypeOK, Daemon!MainStates
<1>2. WrittenCounts /\ QueueContinues
  <2>1. Len(written) = 0 /\ Len(queue) = 0 /\ journ = "none" /\ taken = 0 /\ served = 0
    BY <1>0 DEF Daemon!Init
  <2> QED
    BY <2>1 DEF WrittenCounts, QueueContinues, NextToPop
<1>3. JoinsInOrder
  BY DEF Daemon!Init, JoinsInOrder, Daemon!ThreadsEndFirst
<1> QED
  BY <1>1, <1>2, <1>3 DEF DaemonInv

\* A signal moves main to one of the two states after sigwait, or ends the process.
LEMMA Raising ==
    ASSUME NEW sig \in {"HUP", "TERM"}, DaemonInv, ended = "no", Daemon!Raise(sig)
    PROVE  /\ main' \in Daemon!MainStates
           /\ ended' \in {"no", "killed"}
           /\ main' \in {"stopReactor", "interrupt", "joinReactor"} => journ = "ended"
           /\ main' \in {"start", "started"} => journ = "none"
  BY DEF DaemonInv, Daemon!TypeOK, Daemon!MainStates, JoinsInOrder, Daemon!Raise

\* What main and a signal do leaves messages alone; main goes on to the reactor
\* when the journal thread has ended.
LEMMA MainKeepsOrder ==
    ASSUME DaemonInv, ended = "no", Daemon!MainNext \/ Daemon!Signal
    PROVE  DaemonInv'
<1>1. /\ UNCHANGED <<taken, count, served, queue, written>>
      /\ journ' = journ \/ (journ = "none" /\ journ' = "check")
  BY DEF DaemonInv, JoinsInOrder, Daemon!MainNext, Daemon!Signal, Daemon!Start, Daemon!WaitAgain,
         Daemon!StopJournal, Daemon!JoinJournal, Daemon!StopReactor, Daemon!Return,
         Daemon!journVars, Daemon!dataVars, Daemon!mainVars
<1>2. Daemon!TypeOK'
  <2>1. CASE Daemon!Signal
    <3>1. PICK sig \in {"HUP", "TERM"} : Daemon!Raise(sig)
      BY <2>1, ProgressAssumption DEF Daemon!Signal, Daemon!DaemonAssumption
    <3>2. main' \in Daemon!MainStates /\ ended' \in {"no", "killed"}
      BY <3>1, Raising
    <3> QED
      BY <2>1, <3>2, ProgressAssumption
      DEF Daemon!Signal, Daemon!TypeOK, DaemonInv, Daemon!DaemonAssumption,
          Daemon!journVars, Daemon!dataVars
  <2>2. CASE Daemon!MainNext
    BY <1>1, <2>2
    DEF DaemonInv, Daemon!TypeOK, Daemon!MainStates, Daemon!MainNext, Daemon!Start,
        Daemon!WaitAgain, Daemon!StopJournal, Daemon!JoinJournal, Daemon!StopReactor,
        Daemon!Return, Daemon!journVars, Daemon!dataVars, Daemon!mainVars
  <2> QED
    BY <2>1, <2>2
<1>3. JoinsInOrder'
  <2>1. CASE Daemon!Signal
    <3>1. PICK sig \in {"HUP", "TERM"} : Daemon!Raise(sig)
      BY <2>1, ProgressAssumption DEF Daemon!Signal, Daemon!DaemonAssumption
    <3> QED
      BY <2>1, <3>1, Raising DEF Daemon!Signal, Daemon!journVars, JoinsInOrder,
         Daemon!ThreadsEndFirst
  <2>2. CASE Daemon!MainNext
    BY <2>2
    DEF DaemonInv, JoinsInOrder, Daemon!ThreadsEndFirst, Daemon!MainNext, Daemon!Start,
        Daemon!WaitAgain, Daemon!StopJournal, Daemon!JoinJournal, Daemon!StopReactor,
        Daemon!Return, Daemon!journVars, Daemon!dataVars, Daemon!mainVars
  <2> QED
    BY <2>1, <2>2
<1>4. WrittenCounts'
  BY <1>1 DEF DaemonInv, WrittenCounts
<1>5. QueueContinues'
  <2>1. journ' # "ended" => journ # "ended" /\ (journ' = "write" <=> journ = "write")
    BY <1>1
  <2> QED
    BY <1>1, <2>1 DEF DaemonInv, QueueContinues, NextToPop
<1> QED
  BY <1>2, <1>3, <1>4, <1>5 DEF DaemonInv

\* The journal thread writes its message next after those before, and what it has not
\* taken stays in order; if it fails it takes nothing more.
LEMMA JournalKeepsOrder ==
    ASSUME DaemonInv, ended = "no", Daemon!JournalNext
    PROVE  DaemonInv'
<1> USE ProgressAssumption DEF Daemon!DaemonAssumption
<1>t. Daemon!TypeOK
  BY DEF DaemonInv
<1>q. /\ queue \in Seq(1..Daemon!Later) /\ written \in Seq(1..Followed)
      /\ Len(queue) \in Nat /\ Len(written) \in Nat /\ served \in Nat
      /\ Followed \in Nat /\ Daemon!Later \in Nat
  BY <1>t DEF Daemon!TypeOK, Daemon!Later
<1>1. CASE Daemon!JournalCheck \/ Daemon!JournalIdle
  <2>1. /\ UNCHANGED <<main, sent, stopJ, stopR, taken, react, efd, served, queue, written, ended>>
        /\ count' \in {count, FALSE}
        /\ journ \in {"check", "idle"} /\ journ' \in {"check", "pop", "ended"}
    BY <1>1 DEF Daemon!JournalCheck, Daemon!JournalIdle, Daemon!mainVars, Daemon!dataVars
  <2>2. Daemon!TypeOK'
    BY <1>t, <2>1 DEF Daemon!TypeOK, Daemon!MainStates
  <2>3. JoinsInOrder'
    BY <2>1 DEF DaemonInv, JoinsInOrder, Daemon!ThreadsEndFirst
  <2>4. WrittenCounts' /\ QueueContinues'
    BY <2>1 DEF DaemonInv, WrittenCounts, QueueContinues, NextToPop
  <2> QED
    BY <2>2, <2>3, <2>4 DEF DaemonInv
<1>2. CASE Daemon!JournalPop
  <2>1. /\ UNCHANGED <<main, sent, stopJ, stopR, count, react, efd, served, written, ended>>
        /\ journ = "pop" /\ journ' \in {"check", "idle", "write"}
        /\ taken = 0
        /\ main \notin {"start", "started", "stopReactor", "interrupt", "joinReactor"}
    BY <1>2 DEF Daemon!JournalPop, Daemon!mainVars, DaemonInv, QueueContinues, JoinsInOrder
  <2>2. JoinsInOrder' /\ WrittenCounts'
    BY <2>1 DEF DaemonInv, WrittenCounts, JoinsInOrder, Daemon!ThreadsEndFirst
  <2>3. CASE queue = <<>>
    <3>1. UNCHANGED <<taken, queue>> /\ journ' # "write"
      BY <1>2, <2>3 DEF Daemon!JournalPop
    <3>2. Daemon!TypeOK'
      BY <1>t, <2>1, <3>1 DEF Daemon!TypeOK, Daemon!MainStates
    <3>3. QueueContinues'
      BY <2>1, <3>1 DEF DaemonInv, QueueContinues, NextToPop
    <3> QED
      BY <2>2, <3>2, <3>3 DEF DaemonInv
  <2>4. CASE queue # <<>>
    <3>1. taken' = Head(queue) /\ queue' = Tail(queue) /\ journ' = "write"
      BY <1>2, <2>4 DEF Daemon!JournalPop
    <3>2. /\ Len(queue) >= 1 /\ Len(queue') = Len(queue) - 1
          /\ queue' \in Seq(1..Daemon!Later)
          /\ taken' = queue[1] /\ taken' \in 1..Daemon!Later
          /\ \A i \in 1..Len(queue') : queue'[i] = queue[i + 1]
      BY <1>q, <2>4, <3>1
    <3>3. Daemon!TypeOK'
      BY <1>t, <2>1, <3>1, <3>2 DEF Daemon!TypeOK, Daemon!MainStates
    <3>4. QueueContinues'
      <4>1. NextToPop = Len(written) + 1 /\ NextToPop' = Len(written) + 2
        BY <1>q, <2>1, <3>1 DEF NextToPop
      <4>2. taken' = Daemon!NumberOf(Len(written') + 1)
        BY <1>q, <2>1, <3>2, <4>1 DEF DaemonInv, QueueContinues, Daemon!NumberOf
      <4>3. Daemon!NumberOf(NextToPop' + Len(queue')) = Daemon!NumberOf(served' + 1)
        <5>1. NextToPop' + Len(queue') = NextToPop + Len(queue)
          BY <1>q, <3>2, <4>1
        <5> QED
          BY <2>1, <5>1 DEF DaemonInv, QueueContinues
      <4>4. ASSUME NEW i \in 1..Len(queue')
            PROVE  queue'[i] = Daemon!NumberOf(NextToPop' + i - 1)
        <5>1. i + 1 \in 1..Len(queue) /\ NextToPop + (i + 1) - 1 = NextToPop' + i - 1
          BY <1>q, <3>2, <4>1
        <5>2. queue[i + 1] = Daemon!NumberOf(NextToPop + (i + 1) - 1)
          BY <2>1, <5>1 DEF DaemonInv, QueueContinues
        <5> QED
          BY <3>2, <5>1, <5>2
      <4> QED
        BY <3>1, <4>2, <4>3, <4>4 DEF QueueContinues
    <3> QED
      BY <2>2, <3>3, <3>4 DEF DaemonInv
  <2> QED
    BY <2>3, <2>4
<1>3. CASE Daemon!JournalWrite
  <2>1. /\ UNCHANGED <<main, sent, stopJ, stopR, react, efd, served, queue, ended>>
        /\ journ = "write" /\ journ' = "pop" /\ count' = TRUE /\ taken' = 0
    BY <1>3 DEF Daemon!JournalWrite, Daemon!mainVars
  <2>2. /\ taken = Daemon!NumberOf(Len(written) + 1)
        /\ NextToPop = Len(written) + 2
        /\ Daemon!NumberOf(Len(written) + 2 + Len(queue)) = Daemon!NumberOf(served + 1)
        /\ \A i \in 1..Len(queue) : queue[i] = Daemon!NumberOf(Len(written) + 2 + i - 1)
    <3>1. NextToPop = Len(written) + 2
      BY <1>q, <2>1 DEF NextToPop
    <3> QED
      BY <2>1, <3>1 DEF DaemonInv, QueueContinues
  <2>3. JoinsInOrder'
    BY <2>1 DEF DaemonInv, JoinsInOrder, Daemon!ThreadsEndFirst
  <2>4. CASE taken # Daemon!Later
    <3>1. /\ taken = Len(written) + 1 /\ taken \in 1..Followed
          /\ written' = Append(written, taken)
      BY <1>3, <1>q, <2>2, <2>4 DEF Daemon!JournalWrite, Daemon!NumberOf, Daemon!Later
    <3>2. /\ written' \in Seq(1..Followed)
          /\ Len(written') = Len(written) + 1
          /\ \A i \in 1..Len(written) : written'[i] = written[i]
          /\ written'[Len(written) + 1] = taken
      BY <1>q, <3>1
    <3>3. Daemon!TypeOK'
      BY <1>t, <2>1, <3>2 DEF Daemon!TypeOK, Daemon!MainStates, Daemon!Later
    <3>4. WrittenCounts'
      <4>1. \A i \in 1..Len(written) : written[i] = i
        BY DEF DaemonInv, WrittenCounts
      <4>2. ASSUME NEW i \in 1..Len(written') PROVE written'[i] = i
        <5>1. i \in 1..Len(written) \/ i = Len(written) + 1
          BY <1>q, <3>2
        <5> QED
          BY <3>1, <3>2, <4>1, <5>1
      <4> QED
        BY <4>2 DEF WrittenCounts
    <3>5. QueueContinues'
      <4>1. NextToPop' = Len(written) + 2
        BY <1>q, <2>1, <3>2 DEF NextToPop
      <4> QED
        BY <2>1, <2>2, <4>1 DEF QueueContinues
    <3> QED
      BY <2>3, <3>3, <3>4, <3>5 DEF DaemonInv
  <2>5. CASE taken = Daemon!Later
    <3>1. written' = written
      BY <1>3, <2>5 DEF Daemon!JournalWrite
    <3>2. Len(written) + 1 > Followed
      BY <1>q, <2>2, <2>5 DEF Daemon!NumberOf, Daemon!Later
    <3>3. Daemon!TypeOK'
      BY <1>t, <1>q, <2>1, <3>1 DEF Daemon!TypeOK, Daemon!MainStates, Daemon!Later
    <3>4. WrittenCounts'
      BY <3>1 DEF DaemonInv, WrittenCounts
    <3>5. QueueContinues'
      <4>1. NextToPop' = Len(written) + 1
        BY <1>q, <2>1, <3>1 DEF NextToPop
      <4>2. Daemon!NumberOf(NextToPop' + Len(queue')) = Daemon!NumberOf(served' + 1)
        <5>1. /\ Len(written) + 1 + Len(queue) > Followed
              /\ Len(written) + 2 + Len(queue) > Followed
          BY <1>q, <3>2
        <5> QED
          BY <2>1, <2>2, <4>1, <5>1 DEF Daemon!NumberOf
      <4>3. ASSUME NEW i \in 1..Len(queue')
            PROVE  queue'[i] = Daemon!NumberOf(NextToPop' + i - 1)
        <5>1. i \in 1..Len(queue)
          BY <2>1
        <5>2. Len(written) + 2 + i - 1 > Followed /\ Len(written) + 1 + i - 1 > Followed
          BY <1>q, <3>2, <5>1
        <5>3. queue'[i] = queue[i]
          BY <2>1
        <5> QED
          BY <2>2, <4>1, <5>1, <5>2, <5>3 DEF Daemon!NumberOf
      <4> QED
        BY <2>1, <4>2, <4>3 DEF QueueContinues
    <3> QED
      BY <2>3, <3>3, <3>4, <3>5 DEF DaemonInv
  <2> QED
    BY <2>4, <2>5
<1>4. CASE Daemon!JournalFails
  <2>1. /\ UNCHANGED <<sent, stopJ, stopR, count, react, efd, served, queue, written>>
        /\ journ = "write" /\ journ' = "ended" /\ taken' = 0 /\ Daemon!Raise("TERM")
    BY <1>4 DEF Daemon!JournalFails, Daemon!dataVars
  <2>2. /\ main' \in Daemon!MainStates /\ ended' \in {"no", "killed"}
        /\ main' \notin {"start", "started"}
    BY <2>1, Raising
  <2>3. Daemon!TypeOK'
    BY <1>t, <1>q, <2>1, <2>2 DEF Daemon!TypeOK
  <2>4. WrittenCounts' /\ QueueContinues' /\ JoinsInOrder'
    BY <2>1, <2>2
    DEF DaemonInv, WrittenCounts, QueueContinues, JoinsInOrder, Daemon!ThreadsEndFirst
  <2> QED
    BY <2>3, <2>4 DEF DaemonInv
<1> QED
  BY <1>1, <1>2, <1>3, <1>4 DEF Daemon!JournalNext

\* A request is numbered and posted behind those before; the reactor thread does
\* nothing else to the messages.
LEMMA ReactorKeepsOrder ==
    ASSUME DaemonInv, ended = "no", Daemon!ReactorNext
    PROVE  DaemonInv'
<1> USE ProgressAssumption DEF Daemon!DaemonAssumption
<1>t. Daemon!TypeOK
  BY DEF DaemonInv
<1>q. /\ queue \in Seq(1..Daemon!Later) /\ written \in Seq(1..Followed)
      /\ Len(queue) \in Nat /\ Len(written) \in Nat /\ served \in Nat
      /\ Followed \in Nat /\ Daemon!Later \in Nat
  BY <1>t DEF Daemon!TypeOK, Daemon!Later
<1>1. CASE Daemon!ReactorCheck
  <2>1. /\ UNCHANGED <<main, sent, stopJ, stopR, journ, taken, count, efd, served, queue, written, ended>>
        /\ react = "check" /\ react' \in {"ended", "wait"}
    BY <1>1 DEF Daemon!ReactorCheck, Daemon!mainVars, Daemon!journVars, Daemon!dataVars
  <2>2. Daemon!TypeOK'
    BY <1>t, <2>1 DEF Daemon!TypeOK, Daemon!MainStates
  <2>3. WrittenCounts' /\ QueueContinues' /\ JoinsInOrder'
    BY <2>1
    DEF DaemonInv, WrittenCounts, QueueContinues, NextToPop, JoinsInOrder, Daemon!ThreadsEndFirst
  <2> QED
    BY <2>2, <2>3 DEF DaemonInv
<1>2. CASE Daemon!ReactorPoll
  <2>1. /\ UNCHANGED <<main, sent, stopJ, stopR, journ, taken, count, written, ended>>
        /\ react = "wait" /\ react' = "check" /\ efd' = FALSE
    BY <1>2 DEF Daemon!ReactorPoll, Daemon!mainVars, Daemon!journVars
  <2>2. /\ WrittenCounts' /\ JoinsInOrder'
    BY <2>1 DEF DaemonInv, WrittenCounts, JoinsInOrder, Daemon!ThreadsEndFirst
  <2>3. CASE served' = served /\ queue' = queue
    <3>1. Daemon!TypeOK'
      BY <1>t, <2>1, <2>3 DEF Daemon!TypeOK, Daemon!MainStates
    <3>2. QueueContinues'
      BY <2>1, <2>3 DEF DaemonInv, QueueContinues, NextToPop
    <3> QED
      BY <2>2, <3>1, <3>2 DEF DaemonInv
  <2>4. CASE /\ Len(queue) < MaxQueue /\ served' = Daemon!NumberOf(served + 1)
             /\ queue' = Append(queue, served')
    <3>0. served' \in 1..Daemon!Later /\ served' \in 0..Daemon!Later
      BY <1>q, <2>4 DEF Daemon!NumberOf, Daemon!Later
    <3>1. /\ queue' \in Seq(1..Daemon!Later)
          /\ Len(queue') = Len(queue) + 1
          /\ \A i \in 1..Len(queue) : queue'[i] = queue[i]
          /\ queue'[Len(queue) + 1] = served'
      BY <1>q, <2>4, <3>0
    <3>2. Daemon!TypeOK'
      <4>1. Len(queue') =< MaxQueue
        BY <1>q, <2>4, <3>1
      <4> QED
        BY <1>t, <2>1, <3>0, <3>1, <4>1 DEF Daemon!TypeOK, Daemon!MainStates
    <3>3. QueueContinues'
      <4> SUFFICES ASSUME journ # "ended" PROVE QueueContinues'
        BY <2>1 DEF QueueContinues
      <4>1. PICK k \in Nat : k = NextToPop
        BY <1>q DEF NextToPop
      <4>2. NextToPop' = k
        BY <2>1, <4>1 DEF NextToPop
      <4>3. /\ taken = IF journ = "write" THEN Daemon!NumberOf(Len(written) + 1) ELSE 0
            /\ Daemon!NumberOf(k + Len(queue)) = Daemon!NumberOf(served + 1)
            /\ \A i \in 1..Len(queue) : queue[i] = Daemon!NumberOf(k + i - 1)
        BY <4>1 DEF DaemonInv, QueueContinues
      <4>4. Daemon!NumberOf(k + Len(queue')) = Daemon!NumberOf(served' + 1)
        BY <1>q, <2>4, <3>1, <4>1, <4>3 DEF Daemon!NumberOf, Daemon!Later
      <4>5. ASSUME NEW i \in 1..Len(queue') PROVE queue'[i] = Daemon!NumberOf(k + i - 1)
        <5>1. i \in 1..Len(queue) \/ i = Len(queue) + 1
          BY <1>q, <3>1
        <5>2. CASE i \in 1..Len(queue)
          BY <3>1, <4>3, <5>2
        <5>3. CASE i = Len(queue) + 1
          <6>1. k + i - 1 = k + Len(queue)
            BY <1>q, <4>1, <5>3
          <6> QED
            BY <2>4, <3>1, <4>3, <5>3, <6>1
        <5> QED
          BY <5>1, <5>2, <5>3
      <4> QED
        BY <2>1, <4>2, <4>3, <4>4, <4>5 DEF QueueContinues
    <3> QED
      BY <2>2, <3>2, <3>3 DEF DaemonInv
  <2>5. \/ served' = served /\ queue' = queue
        \/ /\ Len(queue) < MaxQueue /\ served' = Daemon!NumberOf(served + 1)
           /\ queue' = Append(queue, served')
    BY <1>2 DEF Daemon!ReactorPoll
  <2> QED
    BY <2>3, <2>4, <2>5
<1>3. CASE Daemon!ReactorFails
  <2>1. /\ UNCHANGED <<sent, stopJ, stopR, journ, taken, count, efd, served, queue, written>>
        /\ react = "wait" /\ react' = "ended" /\ Daemon!Raise("TERM")
    BY <1>3 DEF Daemon!ReactorFails, Daemon!journVars, Daemon!dataVars
  <2>2. /\ main' \in Daemon!MainStates /\ ended' \in {"no", "killed"}
        /\ main' \in {"stopReactor", "interrupt", "joinReactor"} => journ = "ended"
        /\ main' \in {"start", "started"} => journ = "none"
    BY <2>1, Raising
  <2>3. Daemon!TypeOK'
    BY <1>t, <2>1, <2>2 DEF Daemon!TypeOK
  <2>4. WrittenCounts' /\ QueueContinues' /\ JoinsInOrder'
    BY <2>1, <2>2
    DEF DaemonInv, WrittenCounts, QueueContinues, NextToPop, JoinsInOrder, Daemon!ThreadsEndFirst
  <2> QED
    BY <2>3, <2>4 DEF DaemonInv
<1> QED
  BY <1>1, <1>2, <1>3 DEF Daemon!ReactorNext

\* Every step of a thread or of a signal keeps the invariant.
LEMMA DaemonKeepsOrder ==
    DaemonInv /\ [Daemon!Next]_(Daemon!vars) => DaemonInv'
<1>1. ASSUME DaemonInv, Daemon!Next PROVE DaemonInv'
  BY <1>1, MainKeepsOrder, JournalKeepsOrder, ReactorKeepsOrder DEF Daemon!Next
<1>2. ASSUME DaemonInv, UNCHANGED Daemon!vars PROVE DaemonInv'
  <2>1. UNCHANGED <<main, sent, stopJ, stopR, journ, taken, count, react, efd,
                    served, queue, written, ended>>
    BY <1>2 DEF Daemon!vars, Daemon!mainVars, Daemon!journVars, Daemon!dataVars
  <2>2. Daemon!TypeOK' /\ WrittenCounts' /\ JoinsInOrder'
    BY <1>2, <2>1
    DEF DaemonInv, Daemon!TypeOK, Daemon!MainStates, WrittenCounts, JoinsInOrder,
        Daemon!ThreadsEndFirst
  <2>3. QueueContinues'
    BY <1>2, <2>1 DEF DaemonInv, QueueContinues, NextToPop
  <2> QED
    BY <2>2, <2>3 DEF DaemonInv
<1> QED
  BY <1>1, <1>2

\* A database that holds message i as its i-th has no gaps.
LEMMA CountingHasNoGaps ==
    DaemonInv => Daemon!NoGaps
<1> SUFFICES ASSUME DaemonInv PROVE written = [i \in 1..Len(written) |-> i]
  BY DEF Daemon!NoGaps, Daemon!Journalled
<1>1. written \in Seq(1..Followed) /\ \A i \in 1..Len(written) : written[i] = i
  BY DEF DaemonInv, Daemon!TypeOK, WrittenCounts
<1> QED
  BY <1>1

\* However the threads are scheduled, stopped, fail or are signalled, the invariant
\* holds.
THEOREM DaemonInvAlways ==
    Daemon!Spec => []DaemonInv
  BY DaemonStarts, DaemonKeepsOrder, PTL DEF Daemon!Spec

\* The variables of the daemon keep their types.
THEOREM DaemonTypesHold ==
    Daemon!Spec => []Daemon!TypeOK
<1>1. DaemonInv => Daemon!TypeOK
  BY DEF DaemonInv
<1> QED
  BY <1>1, DaemonInvAlways, PTL

\* The database never misses a message before one that it has (the agent of
\* Main.cpp, and AgentThread::run, which ends with the first exception).
THEOREM JournalHasNoGaps ==
    Daemon!Spec => []Daemon!NoGaps
  BY CountingHasNoGaps, DaemonInvAlways, PTL

\* main returns only when both threads have ended (~AgentThread, ~ReactorThread).
THEOREM MainOutlivesThreads ==
    Daemon!Spec => []Daemon!ThreadsEndFirst
<1>1. DaemonInv => Daemon!ThreadsEndFirst
  BY DEF DaemonInv, JoinsInOrder
<1> QED
  BY <1>1, DaemonInvAlways, PTL

\* What the run of ProgressMC checks of the daemon.
THEOREM DaemonAlwaysEndsInOrder ==
    ProgressSpec => []DaemonEndsInOrder
<1>1. ProgressInit => DaemonInv
  BY DaemonStarts DEF ProgressInit
<1>2. DaemonInv /\ [ProgressNext]_allVars => DaemonInv'
  <2>1. [ProgressNext]_allVars => [Daemon!Next]_(Daemon!vars)
    BY DEF ProgressNext, allVars, DaemonNext, QueueNext, TimersNext, PollNext, SessNext,
       ClientNext, daemonVars, Daemon!vars, Daemon!mainVars, Daemon!journVars,
       Daemon!dataVars
  <2> QED
    BY <2>1, DaemonKeepsOrder
<1>3. DaemonInv => DaemonEndsInOrder
  BY CountingHasNoGaps DEF DaemonEndsInOrder, DaemonInv, JoinsInOrder
<1> QED
  BY <1>1, <1>2, <1>3, PTL DEF ProgressSpec
=============================================================================
