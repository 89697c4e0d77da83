--------------------------------- MODULE Dates ---------------------------------
(***************************************************************************)
(* The conversions of src/src/swirly/util/Date.hpp between calendar dates, *)
(* numbers of the form yyyymmdd, and Julian days, and the ids of markets    *)
(* that are made of them (fin/MarketId.hpp), checked on every day of the    *)
(* calendar.                                                               *)
(***************************************************************************)
EXTENDS Integers

CONSTANTS FirstYear, LastYear, Instrs    \* bounds; ids of instruments

DatesAssumption ==
    FirstYear \in Nat /\ LastYear \in Nat /\ FirstYear =< LastYear /\ Instrs \subseteq Nat

VARIABLES year, mon, mday
vars == <<year, mon, mday>>

\* Division of C++, which rounds towards zero.
a / b == IF a >= 0 THEN a \div b ELSE -((-a) \div b)

ymd_to_iso(y, m, d) == y * 10000 + m * 100 + d

ymd_to_jd(y, m, d) ==
    d - 32075 + (1461 * (y + 4800 + (m - 14) / 12)) / 4
    + (367 * (m - 2 - ((m - 14) / 12) * 12)) / 12
    - (3 * ((y + 4900 + (m - 14) / 12) / 100)) / 4

iso_to_jd(iso) == ymd_to_jd(iso / 10000, (iso / 100) % 100, iso % 100)

jd_to_iso(jd) ==
    LET l1 == jd + 68569
        n == (4 * l1) / 146097
        l2 == l1 - (146097 * n + 3) / 4
        i == (4000 * (l2 + 1)) / 1461001
        l3 == l2 - (1461 * i) / 4 + 31
        j == (80 * l3) / 2447
        k == l3 - (2447 * j) / 80
        l4 == j / 11
    IN (100 * (n - 49) + i + l4) * 10000 + (j + 2 - 12 * l4) * 100 + k

maybe_jd_to_iso(jd) == IF jd # 0 THEN jd_to_iso(jd) ELSE 0
maybe_iso_to_jd(iso) == IF iso # 0 THEN iso_to_jd(iso) ELSE 0

jd_to_tjd(jd) == jd - 2440000

is_week_day(jd) == jd % 7 < 5

to_market_id(instr, jd) == instr * 65536 + (jd_to_tjd(jd) % 65536)

-----------------------------------------------------------------------------
(* The calendar *)

Leap == year % 4 = 0 /\ (year % 100 # 0 \/ year % 400 = 0)
DaysInMonth == CASE mon = 2 -> IF Leap THEN 29 ELSE 28
                 [] mon \in {4, 6, 9, 11} -> 30
                 [] OTHER -> 31

Jd == ymd_to_jd(year, mon, mday)

Init == year \in FirstYear..LastYear /\ mon = 1 /\ mday = 1

NextDay ==
    \/ mday < DaysInMonth /\ mday' = mday + 1 /\ UNCHANGED <<year, mon>>
    \/ mday = DaysInMonth /\ mday' = 1 /\ mon < 12 /\ mon' = mon + 1 /\ UNCHANGED year
    \/ mday = DaysInMonth /\ mday' = 1 /\ mon = 12 /\ mon' = 1 /\ year < LastYear /\ year' = year + 1

Spec == Init /\ [][NextDay]_vars

-----------------------------------------------------------------------------

\* Julian days count the days of the calendar, over leap years and centuries.
DaysAreCounted == [][Jd' = Jd + 1]_vars

\* A date survives the way of settl_date: from the request to the market, to the
\* database, and back to the client.
DatesSurvive ==
    LET iso == ymd_to_iso(year, mon, mday)
    IN maybe_iso_to_jd(iso) = Jd /\ maybe_jd_to_iso(Jd) = iso

\* The Julian day that jd_to_time takes for the first of January 1970, a Thursday,
\* is that, and from there two days of every seven are a week-end.
WeeksAreRight ==
    /\ year = 1970 /\ mon = 1 /\ mday = 1 => Jd = 2440588
    /\ is_week_day(Jd) = ((Jd - 2440589) % 7 \notin {1, 2})

\* The id of a market tells its instrument and its day from all others, and from
\* the market of the instrument that has no day.
MarketIdsTell ==
    \A i \in Instrs :
        LET id == to_market_id(i, Jd)
        IN /\ id \div 65536 = i
           /\ 2440588 + ((id - jd_to_tjd(2440588)) % 65536) = Jd
           /\ id # to_market_id(i, 0)
===============================================================================
