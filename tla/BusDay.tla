-------------------------------- MODULE BusDay --------------------------------
(***************************************************************************)
(* The cache of BusinessDay (src/src/swirly/fin/Date.cpp): the days of the *)
(* last odd and the last even second that were asked for.  The time of a   *)
(* request is the clock's, or what its header says (RestServ.cpp:67): it   *)
(* need not grow.                                                          *)
(***************************************************************************)
EXTENDS Integers

CONSTANTS
    FirstTime, LastTime,    \* bounds on the seconds asked for
    SecondsInDay, Offset    \* of the time zone: midnight is Offset seconds early

BusDayAssumption ==
    /\ {FirstTime, LastTime, Offset} \subseteq Nat /\ FirstTime =< LastTime
    /\ SecondsInDay \in Nat \ {0}

VARIABLES
    cache,      \* cache_: for even and odd seconds, a second and its day
    asked, ret  \* the last call and what it returned
vars == <<cache, asked, ret>>

\* What the time zone says.
DayOf(t) == 1 + ((t + Offset) \div SecondsInDay)

Init == cache = [i \in {0, 1} |-> [first |-> 0, second |-> 0]] /\ asked = -1 /\ ret = -1

Cached(t) == cache[t % 2].first = t

BusinessDay(t) ==
    /\ asked' = t
    /\ \/ Cached(t) /\ ret' = cache[t % 2].second /\ UNCHANGED cache
       \/ /\ ~Cached(t) /\ ret' = DayOf(t)
          /\ cache' = [cache EXCEPT ![t % 2] = [first |-> t, second |-> DayOf(t)]]

Next == \E t \in FirstTime..LastTime : BusinessDay(t)
Spec == Init /\ [][Next]_vars

-----------------------------------------------------------------------------

\* Whatever was asked for before, the day is that of the time.
DayIsOfTime == asked # -1 => ret = DayOf(asked)
===============================================================================
