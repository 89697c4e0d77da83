----------------------------- MODULE EngineProofs -----------------------------
(***************************************************************************)
(* What Engine says of the matching engine, proved for any number of       *)
(* accounts and markets, any bounds and any lists of ids.                  *)
(*                                                                         *)
(* The inductive invariant says of each market that its live orders are    *)
(* right, that its sides hold them in order with levels that are theirs,   *)
(* and that no bid meets an offer; and of the sessions that they hold the  *)
(* same orders and find them by reference.                                 *)
(*                                                                         *)
(* Before that, what the matching of an incoming order does, for all       *)
(* orders and all sides: the matches take a prefix of the opposite side,   *)
(* every maker but the last one gives all it has, and matching stops only  *)
(* where the taker is done, the side is, or prices no longer cross.  The   *)
(* side and the orders are right again once the makers have been taken.    *)
(***************************************************************************)
EXTENDS Engine, OrderBookProofs

-----------------------------------------------------------------------------
(* How far a taker gets. *)

Reach(taker, list, ords) ==
    {i \in DOMAIN list : \A j \in 1..i : Crosses(taker, ords[list[j]])}

\* What the taker gets from the i-th order when it has s already.
Gain(taker, list, ords, i, s) ==
    IF i \in Reach(taker, list, ords)
    THEN MinOf(taker.resd - s, ords[list[i]].resd) ELSE 0

\* The recursive function behind MatchedLots.
IsMatched(f, n, taker, list, ords) ==
    f = [i \in 0..n |-> IF i = 0 THEN 0
                        ELSE f[i - 1] + Gain(taker, list, ords, i, f[i - 1])]

\* It is the function that MatchedLots chooses.
LEMMA MatchedLotsDef ==
    ASSUME NEW taker, NEW list, NEW ords
    PROVE  MatchedLots(taker, list, ords)
                = CHOOSE f : IsMatched(f, Len(list), taker, list, ords)
BY DEF MatchedLots, IsMatched, Gain, Reach

\* The loop gets to the end of the list.
LEMMA MatchedLotsExists ==
    ASSUME NEW taker, NEW list, NEW ords, NEW n \in Nat
    PROVE  \E f : IsMatched(f, n, taker, list, ords)
<1> DEFINE Good == {k \in Nat : \E f : IsMatched(f, k, taker, list, ords)}
           g(i, s) == Gain(taker, list, ords, i, s)
<1> HIDE DEF g
<1>1. 0 \in Good
  <2>1. IsMatched([i \in 0..0 |-> 0], 0, taker, list, ords)
    BY DEF IsMatched
  <2> QED
    BY <2>1
<1>2. ASSUME NEW k \in Nat, k \in Good
      PROVE  k + 1 \in Good
  <2>1. PICK f : f = [i \in 0..k |-> IF i = 0 THEN 0 ELSE f[i - 1] + g(i, f[i - 1])]
    BY <1>2 DEF IsMatched, g
  <2> DEFINE h == [i \in 0..(k + 1) |-> IF i = k + 1 THEN f[k] + g(k + 1, f[k]) ELSE f[i]]
  <2>2. \A i \in 0..k : h[i] = f[i]
    OBVIOUS
  <2>3. h[k + 1] = h[k] + g(k + 1, h[k])
    OBVIOUS
  <2>4. \A i \in 1..k : h[i] = h[i - 1] + g(i, h[i - 1])
    BY <2>1, <2>2
  <2>5. h[0] = 0
    BY <2>1
  <2>6. \A i \in 0..(k + 1) : h[i] = IF i = 0 THEN 0 ELSE h[i - 1] + g(i, h[i - 1])
    <3>1. \A i \in 0..(k + 1) : i = 0 \/ i \in 1..k \/ (i = k + 1 /\ i - 1 = k /\ i # 0)
      OBVIOUS
    <3> HIDE DEF h
    <3> QED
      BY <2>3, <2>4, <2>5, <3>1
  <2>7. IsMatched(h, k + 1, taker, list, ords)
    <3>1. h = [i \in 0..(k + 1) |-> h[i]]
      OBVIOUS
    <3> HIDE DEF h
    <3> QED
      BY <2>6, <3>1 DEF IsMatched, g
  <2> QED
    BY <2>7
<1> HIDE DEF Good
<1>3. \A i \in 0..n : i \in Good
  BY <1>1, <1>2, NumberInduction
<1> QED
  BY <1>3 DEF Good

\* What the taker has after each order: the loop adds up what it gets.
LEMMA MatchedLotsSteps ==
    ASSUME NEW taker, NEW list \in Seq(Nat), NEW ords
    PROVE  LET sum == MatchedLots(taker, list, ords)
           IN  /\ DOMAIN sum = 0..Len(list)
               /\ sum[0] = 0
               /\ \A i \in 1..Len(list) :
                    sum[i] = sum[i - 1] + Gain(taker, list, ords, i, sum[i - 1])
<1>1. PICK sum : sum = MatchedLots(taker, list, ords)
  OBVIOUS
<1>2. IsMatched(sum, Len(list), taker, list, ords)
  <2>1. Len(list) \in Nat
    OBVIOUS
  <2>2. \E f : IsMatched(f, Len(list), taker, list, ords)
    BY <2>1, MatchedLotsExists
  <2>3. sum = CHOOSE f : IsMatched(f, Len(list), taker, list, ords)
    BY <1>1, MatchedLotsDef
  <2> QED
    BY <2>2, <2>3
<1>3. \A i \in 0..Len(list) :
        sum[i] = IF i = 0 THEN 0 ELSE sum[i - 1] + Gain(taker, list, ords, i, sum[i - 1])
  BY <1>2 DEF IsMatched
<1>4. DOMAIN sum = 0..Len(list)
  BY <1>2 DEF IsMatched
<1>5. 0 \in 0..Len(list) /\ \A i \in 1..Len(list) : i \in 0..Len(list) /\ i # 0
  OBVIOUS
<1> QED
  BY <1>1, <1>3, <1>4, <1>5

\* A side that a taker may meet: something is left of each order.
Offered(list, ords) ==
    /\ list \in Seq(Nat)
    /\ \A x \in ToSet(list) : ords[x].resd \in Nat \ {0} /\ ords[x].ticks \in Nat

\* What a taker has never exceeds what it wants, and never gets less.
LEMMA MatchedLotsBounds ==
    ASSUME NEW taker, taker.resd \in Nat, NEW list, NEW ords, Offered(list, ords),
           NEW sum, sum = MatchedLots(taker, list, ords)
    PROVE  \A i \in 0..Len(list) : /\ sum[i] \in 0..taker.resd
                                   /\ \A j \in 0..i : sum[j] =< sum[i]
<1> DEFINE Good == {i \in 0..Len(list) : /\ sum[i] \in 0..taker.resd
                                         /\ \A j \in 0..i : /\ sum[j] =< sum[i]
                                                            /\ sum[j] \in Int}
<1>1. Len(list) \in Nat /\ \A i \in 1..Len(list) : ords[list[i]].resd \in Nat \ {0}
  BY OnList DEF Offered
<1>2. /\ sum[0] = 0
      /\ \A i \in 1..Len(list) :
            sum[i] = sum[i - 1] + Gain(taker, list, ords, i, sum[i - 1])
  <2>1. list \in Seq(Nat)
    BY DEF Offered
  <2> QED
    BY <2>1, MatchedLotsSteps
<1>3. 0 \in Good
  BY <1>1, <1>2
<1>4. ASSUME NEW i \in Nat, i < Len(list), i \in Good
      PROVE  i + 1 \in Good
  <2>1. i + 1 \in 1..Len(list) /\ (i + 1) - 1 = i
    BY <1>1, <1>4
  <2>2. PICK g : g = Gain(taker, list, ords, i + 1, sum[i]) /\ sum[i + 1] = sum[i] + g
    BY <1>2, <2>1
  <2>3. sum[i] \in 0..taker.resd /\ \A j \in 0..i : sum[j] =< sum[i] /\ sum[j] \in Int
    BY <1>4
  <2>4. g \in 0..(taker.resd - sum[i])
    BY <1>1, <2>1, <2>2, <2>3 DEF Gain, MinOf
  <2>5. sum[i + 1] \in 0..taker.resd /\ sum[i] =< sum[i + 1]
    BY <2>2, <2>3, <2>4
  <2>6. \A j \in 0..(i + 1) : j = i + 1 \/ j \in 0..i
    OBVIOUS
  <2>7. \A j \in 0..(i + 1) : sum[j] =< sum[i + 1] /\ sum[j] \in Int
    BY <2>3, <2>5, <2>6
  <2> QED
    BY <2>1, <2>5, <2>7
<1> HIDE DEF Good
<1>5. \A i \in 0..Len(list) : i \in Good
  BY <1>1, <1>3, <1>4, NumberInduction
<1> QED
  BY <1>5 DEF Good

\* The matches of a taker are the first orders of the other side, and all of
\* them but the last give what they have.  The loop stops where the taker is
\* done or where the next order does not cross.
LEMMA MatchCountIs ==
    ASSUME NEW taker, taker.resd \in Nat, NEW list, NEW ords, Offered(list, ords),
           NEW sum, sum = MatchedLots(taker, list, ords)
    PROVE  LET n == MatchCount(sum)
           IN  /\ n \in 0..Len(list)
               /\ \A i \in 1..n :
                    /\ Crosses(taker, ords[list[i]])
                    /\ sum[i] - sum[i - 1] \in 1..ords[list[i]].resd
                    /\ sum[i] < taker.resd => sum[i] - sum[i - 1] = ords[list[i]].resd
                    /\ i < n => sum[i] < taker.resd
               /\ n < Len(list) /\ sum[n] < taker.resd
                    => ~Crosses(taker, ords[list[n + 1]])
<1>0. PICK R \in Nat : R = taker.resd
  OBVIOUS
<1> DEFINE g(i) == Gain(taker, list, ords, i, sum[i - 1])
           S == {i \in DOMAIN sum \ {0} : sum[i] > sum[i - 1]}
           reach(i) == \A j \in 1..i : Crosses(taker, ords[list[j]])
<1>1. /\ Len(list) \in Nat /\ DOMAIN list = 1..Len(list)
      /\ \A i \in 1..Len(list) : ords[list[i]].resd \in Nat \ {0}
  BY OnList DEF Offered
<1>2. /\ DOMAIN sum = 0..Len(list) /\ sum[0] = 0
      /\ \A i \in 1..Len(list) : sum[i] = sum[i - 1] + g(i)
  <2>1. list \in Seq(Nat)
    BY DEF Offered
  <2> QED
    BY <2>1, MatchedLotsSteps
<1>3. \A i \in 0..Len(list) : /\ sum[i] \in 0..R
                              /\ \A j \in 0..i : sum[j] =< sum[i]
  BY <1>0, MatchedLotsBounds
<1>4. \A i \in 1..Len(list) :
        g(i) = IF reach(i) THEN MinOf(R - sum[i - 1], ords[list[i]].resd) ELSE 0
  BY <1>0, <1>1 DEF Gain, Reach
<1>5. \A i \in 1..Len(list) : i - 1 \in 0..Len(list) /\ sum[i - 1] \in 0..R /\ sum[i] \in 0..R
  BY <1>1, <1>3
<1> HIDE DEF g
<1>6. \A i \in 1..Len(list) : i \in S <=> reach(i) /\ sum[i - 1] < R
  <2> SUFFICES ASSUME NEW i \in 1..Len(list)
               PROVE  sum[i] > sum[i - 1] <=> reach(i) /\ sum[i - 1] < R
    BY <1>2
  <2>1. PICK a \in 0..R, r \in Nat \ {0} : a = sum[i - 1] /\ r = ords[list[i]].resd
    BY <1>1, <1>5
  <2>2. sum[i] = a + (IF reach(i) THEN MinOf(R - a, r) ELSE 0)
    BY <1>2, <1>4, <2>1
  <2>3. MinOf(R - a, r) \in Nat /\ (MinOf(R - a, r) > 0 <=> a < R)
    BY <2>1 DEF MinOf
  <2> HIDE DEF reach
  <2> QED
    BY <2>1, <2>2, <2>3
<1>7. ASSUME NEW i \in S, NEW j \in 1..i
      PROVE  j \in S
  <2>1. i \in 1..Len(list) /\ j \in 1..Len(list)
    BY <1>1, <1>2
  <2>2. sum[j - 1] =< sum[i - 1] /\ sum[j - 1] \in Int /\ sum[i - 1] \in Int
    <3>1. i - 1 \in 0..Len(list) /\ j - 1 \in 0..(i - 1)
      BY <1>1, <2>1
    <3> QED
      BY <1>3, <1>5, <2>1, <3>1
  <2>3. reach(i) /\ sum[i - 1] < R
    BY <1>6, <2>1
  <2>4. reach(j)
    BY <2>1, <2>3
  <2>5. sum[j - 1] < R
    BY <2>2, <2>3
  <2> QED
    BY <1>6, <2>1, <2>4, <2>5
<1> HIDE DEF S
<1>8. PICK n \in 0..Len(list) : S = 1..n
  <2> DEFINE Out == {i \in 1..(Len(list) + 1) : i \notin S}
  <2>1. S \subseteq 1..Len(list)
    BY <1>2 DEF S
  <2>2. Out # {} /\ Out \subseteq Nat
    BY <1>1, <2>1
  <2> HIDE DEF Out
  <2>3. PICK k \in Out : \A i \in Out : k =< i
    BY <2>2, LeastNumber
  <2>4. k \in 1..(Len(list) + 1) /\ k \notin S /\ k - 1 \in 0..Len(list)
    BY <1>1, <2>3 DEF Out
  <2>5. \A i \in 1..(k - 1) : i \in S
    BY <1>1, <2>3, <2>4 DEF Out
  <2>6. \A i \in S : i \in 1..(k - 1)
    BY <1>1, <1>7, <2>1, <2>4
  <2> QED
    BY <2>4, <2>5, <2>6
<1>9. MatchCount(sum) = n
  <2>1. MatchCount(sum) = Cardinality(1..n)
    BY <1>8 DEF MatchCount, S
  <2>2. 0 \in Int /\ n \in Int
    BY <1>1
  <2> QED
    BY <1>1, <2>1, <2>2, FS_Interval
<1>10. ASSUME NEW i \in 1..n
       PROVE  /\ i \in 1..Len(list) /\ reach(i) /\ sum[i - 1] < R
              /\ sum[i] - sum[i - 1] = MinOf(R - sum[i - 1], ords[list[i]].resd)
  <2>1. i \in S /\ i \in 1..Len(list)
    BY <1>1, <1>8
  <2> HIDE DEF reach
  <2>2. reach(i) /\ sum[i - 1] < R
    BY <1>6, <2>1
  <2>3. PICK a, b : a = sum[i - 1] /\ b = sum[i] /\ a \in 0..R /\ b \in 0..R
    BY <1>5, <2>1
  <2>4. g(i) = MinOf(R - a, ords[list[i]].resd) /\ b = a + g(i)
    BY <1>2, <1>4, <2>1, <2>2, <2>3
  <2>5. MinOf(R - a, ords[list[i]].resd) \in Int
    BY <1>1, <2>1, <2>3 DEF MinOf
  <2> QED
    BY <2>1, <2>2, <2>3, <2>4, <2>5
<1>11. ASSUME NEW i \in 1..n
       PROVE  /\ Crosses(taker, ords[list[i]])
              /\ sum[i] - sum[i - 1] \in 1..ords[list[i]].resd
              /\ sum[i] < R => sum[i] - sum[i - 1] = ords[list[i]].resd
              /\ i < n => sum[i] < R
  <2>1. PICK a \in 0..R, b \in 0..R, r \in Nat \ {0} :
            a = sum[i - 1] /\ b = sum[i] /\ r = ords[list[i]].resd
    BY <1>1, <1>5, <1>10
  <2>2. a < R /\ b - a = MinOf(R - a, r)
    BY <1>10, <2>1
  <2>3. b - a \in 1..r /\ (b < R => b - a = r)
    <3>1. a \in Int /\ b \in Int /\ r \in Int /\ R \in Int /\ r >= 1
      BY <2>1
    <3>2. b - a = IF R - a < r THEN R - a ELSE r
      BY <2>2 DEF MinOf
    <3>3. CASE R - a < r
      BY <2>2, <3>1, <3>2, <3>3
    <3>4. CASE ~(R - a < r)
      BY <2>2, <3>1, <3>2, <3>4
    <3> QED
      BY <3>3, <3>4
  <2>4. Crosses(taker, ords[list[i]])
    BY <1>1, <1>10
  <2>5. i < n => sum[i] < R
    <3>1. i < n => i + 1 \in 1..n /\ (i + 1) - 1 = i
      BY <1>1
    <3> QED
      BY <1>10, <3>1
  <2> QED
    BY <2>1, <2>3, <2>4, <2>5
<1>12. ASSUME n < Len(list), sum[n] < R
       PROVE  ~Crosses(taker, ords[list[n + 1]])
  <2>1. n + 1 \in 1..Len(list) /\ (n + 1) - 1 = n /\ n + 1 \notin 1..n
    BY <1>1, <1>12
  <2>2. ~reach(n + 1)
    BY <1>6, <1>8, <1>12, <2>1
  <2>3. \A j \in 1..n : Crosses(taker, ords[list[j]])
    BY <1>11
  <2>4. \A j \in 1..(n + 1) : j \in 1..n \/ j = n + 1
    BY <1>1
  <2> QED
    BY <2>2, <2>3, <2>4
<1> HIDE DEF reach
<1> QED
  BY <1>0, <1>9, <1>11, <1>12

-----------------------------------------------------------------------------
(* The matches. *)

Total(ms) == IF Len(ms) = 0 THEN 0 ELSE ms[Len(ms)].sumLots

\* What match_orders promises of the i-th match of a taker.
MatchFits(taker, list, ords, ms, i) ==
    /\ ms[i].id = list[i]
    /\ ms[i].maker = ords[list[i]]
    /\ ms[i].ticks = ords[list[i]].ticks
    /\ Crosses(taker, ords[list[i]])
    /\ ms[i].lots \in 1..ords[list[i]].resd
    /\ ms[i].sumLots \in 1..taker.resd
    /\ ms[i].sumLots < taker.resd => ms[i].lots = ords[list[i]].resd
    /\ i < Len(ms) => ms[i].sumLots < taker.resd
    /\ ms[i].sumLots = ms[i].lots + (IF i = 1 THEN 0 ELSE ms[i - 1].sumLots)
    /\ ms[i].sumCost = ms[i].lots * ms[i].ticks
                            + (IF i = 1 THEN 0 ELSE ms[i - 1].sumCost)

MatchesFit(taker, list, ords, ms) ==
    /\ ms = [i \in 1..Len(ms) |-> ms[i]] /\ Len(ms) \in 0..Len(list)
    /\ \A i \in 1..Len(ms) : MatchFits(taker, list, ords, ms, i)
    /\ Len(ms) < Len(list) /\ Total(ms) < taker.resd
        => ~Crosses(taker, ords[list[Len(ms) + 1]])

\* One more summand, x.
OneMore(D, x, E, f, g) ==
    /\ IsFiniteSet(D) /\ x \notin D /\ E = D \union {x}
    /\ f \in [E -> Int] /\ g \in [D -> Int]
    /\ \A y \in D : f[y] = g[y]

\* What it adds to a sum.
LEMMA SumOneMore ==
    ASSUME NEW D, NEW x, NEW E, NEW f, NEW g, OneMore(D, x, E, f, g)
    PROVE  SumFunction(f) = f[x] + SumFunction(g)
BY SumAdd DEF OneMore

\* The cost of the matches so far grows by that of each match.
LEMMA SumGrows ==
    ASSUME NEW n \in Nat, NEW f \in [1..n -> Int], NEW i \in 1..n
    PROVE  SumFunction([j \in 1..i |-> f[j]])
                = f[i] + (IF i = 1 THEN 0 ELSE SumFunction([j \in 1..(i - 1) |-> f[j]]))
<1>1. PICK D : D = 1..(i - 1)
  OBVIOUS
<1>2. IsFiniteSet(D)
  <2>1. 1 \in Int /\ i - 1 \in Int
    OBVIOUS
  <2> QED
    BY ONLY <1>1, <2>1, FS_Interval
<1>3. PICK E : E = 1..i
  OBVIOUS
<1>0. PICK x : x = i
  OBVIOUS
<1>4. x \notin D /\ E = D \union {x}
  BY <1>0, <1>1, <1>3
<1>5. PICK h : h = [j \in E |-> f[j]]
  OBVIOUS
<1>6. PICK g : g = [j \in D |-> f[j]]
  OBVIOUS
<1>7. h \in [E -> Int] /\ g \in [D -> Int] /\ \A y \in D : h[y] = g[y]
  BY <1>1, <1>3, <1>5, <1>6
<1>8. SumFunction(h) = h[x] + SumFunction(g)
  <2>1. OneMore(D, x, E, h, g)
    BY <1>2, <1>4, <1>7 DEF OneMore
  <2> QED
    BY ONLY <2>1, SumOneMore
<1>9. i = 1 => SumFunction(g) = 0
  <2>1. i = 1 => DOMAIN g = {}
    BY <1>1, <1>6
  <2> QED
    BY <2>1, SumEmpty
<1>10. h[x] = f[i]
  BY <1>0, <1>3, <1>5
<1> QED
  BY <1>1, <1>3, <1>5, <1>6, <1>8, <1>9, <1>10

\* The matches are as promised.
LEMMA MatchesAre ==
    ASSUME NEW taker, taker.resd \in Nat, NEW list, NEW ords, Offered(list, ords)
    PROVE  MatchesFit(taker, list, ords, Matches(taker, list, ords))
<1>1. PICK sum : sum = MatchedLots(taker, list, ords)
  OBVIOUS
<1>2. PICK n : n = MatchCount(sum)
  OBVIOUS
<1>3. PICK ms : ms = Matches(taker, list, ords)
  OBVIOUS
<1>4. Len(list) \in Nat /\ n \in 0..Len(list)
  BY <1>1, <1>2, OnList, MatchCountIs DEF Offered
<1>5. \A i \in 1..n :
        /\ Crosses(taker, ords[list[i]])
        /\ sum[i] - sum[i - 1] \in 1..ords[list[i]].resd
        /\ sum[i] < taker.resd => sum[i] - sum[i - 1] = ords[list[i]].resd
        /\ i < n => sum[i] < taker.resd
  BY <1>1, <1>2, MatchCountIs
<1>6. n < Len(list) /\ sum[n] < taker.resd => ~Crosses(taker, ords[list[n + 1]])
  BY <1>1, <1>2, MatchCountIs
<1>7. sum[0] = 0 /\ \A i \in 0..Len(list) : sum[i] \in 0..taker.resd
  BY <1>1, MatchedLotsBounds, MatchedLotsSteps DEF Offered
<1> DEFINE f == [i \in 1..n |-> (sum[i] - sum[i - 1]) * ords[list[i]].ticks]
<1>8. f \in [1..n -> Int]
  <2>1. \A i \in 1..n : i \in DOMAIN list /\ i \in 0..Len(list) /\ i - 1 \in 0..Len(list)
    BY <1>4, OnList DEF Offered
  <2>2. \A i \in DOMAIN list : ords[list[i]].ticks \in Int
    BY OnList DEF Offered
  <2>3. \A i \in 1..n : ords[list[i]].ticks \in Int /\ sum[i] - sum[i - 1] \in Int
    BY <1>7, <2>1, <2>2
  <2> QED
    BY <2>3
<1>9. ms = [i \in 1..n |->
            [id |-> list[i], maker |-> ords[list[i]],
             lots |-> sum[i] - sum[i - 1], ticks |-> ords[list[i]].ticks,
             sumLots |-> sum[i],
             sumCost |-> SumFunction([j \in 1..i |->
                            (sum[j] - sum[j - 1]) * ords[list[j]].ticks])]]
  BY <1>1, <1>2, <1>3 DEF Matches
<1>10. Len(ms) = n /\ DOMAIN ms = 1..n
  BY <1>4, <1>9
<1>11. ASSUME NEW i \in 1..n
       PROVE  /\ ms[i].id = list[i]
              /\ ms[i].maker = ords[list[i]]
              /\ ms[i].ticks = ords[list[i]].ticks
              /\ ms[i].lots = sum[i] - sum[i - 1]
              /\ ms[i].sumLots = sum[i]
              /\ ms[i].sumCost = SumFunction([j \in 1..i |-> f[j]])
  <2>1. [j \in 1..i |-> f[j]]
            = [j \in 1..i |-> (sum[j] - sum[j - 1]) * ords[list[j]].ticks]
    BY <1>4
  <2> HIDE DEF f
  <2> QED
    BY <1>9, <2>1
<1>12. ASSUME NEW i \in 1..n
       PROVE  /\ ms[i].sumLots = ms[i].lots + (IF i = 1 THEN 0 ELSE ms[i - 1].sumLots)
              /\ ms[i].sumCost = ms[i].lots * ms[i].ticks
                                    + (IF i = 1 THEN 0 ELSE ms[i - 1].sumCost)
  <2>1. f[i] = ms[i].lots * ms[i].ticks
    BY <1>11
  <2> HIDE DEF f
  <2>2. i # 1 => i - 1 \in 1..n
    BY <1>4
  <2>3. ms[i].sumCost = f[i] + (IF i = 1 THEN 0 ELSE SumFunction([j \in 1..(i - 1) |-> f[j]]))
    <3>1. n \in Nat
      BY <1>4
    <3>2. SumFunction([j \in 1..i |-> f[j]])
            = f[i] + (IF i = 1 THEN 0 ELSE SumFunction([j \in 1..(i - 1) |-> f[j]]))
      BY ONLY <1>8, <3>1, i \in 1..n, SumGrows
    <3> QED
      BY <1>11, <3>2
  <2>4. sum[i] \in Int /\ sum[i - 1] \in Int /\ (i = 1 => sum[i - 1] = 0)
    BY <1>4, <1>7
  <2>5. i # 1 => /\ ms[i - 1].sumLots = sum[i - 1]
                 /\ ms[i - 1].sumCost = SumFunction([j \in 1..(i - 1) |-> f[j]])
    BY <1>11, <2>2
  <2>6. PICK a, b : a = sum[i] /\ b = sum[i - 1] /\ a \in Int /\ b \in Int
    BY <2>4
  <2>7. ms[i].sumLots = a /\ ms[i].lots = a - b
    BY <1>11, <2>6
  <2>8. ms[i].sumLots = ms[i].lots + b
    BY ONLY <2>6, <2>7
  <2> QED
    BY <2>1, <2>3, <2>4, <2>5, <2>6, <2>8
<1> HIDE DEF f
<1>13. \A i \in 1..n : sum[i] \in 1..taker.resd
  <2> SUFFICES ASSUME NEW i \in 1..n
               PROVE  sum[i] \in 1..taker.resd
    OBVIOUS
  <2>1. i \in 0..Len(list) /\ i - 1 \in 0..Len(list)
    BY <1>4
  <2>2. sum[i] \in 0..taker.resd /\ sum[i - 1] \in 0..taker.resd
    BY <1>7, <2>1
  <2>3. sum[i] - sum[i - 1] >= 1
    BY <1>5
  <2> QED
    BY <2>2, <2>3
<1>14. Total(ms) = sum[n]
  <2>1. CASE n = 0
    BY <1>7, <1>10, <2>1 DEF Total
  <2>2. CASE n # 0
    <3>1. n \in 1..n
      BY <1>4, <2>2
    <3> QED
      BY <1>10, <1>11, <2>2, <3>1 DEF Total
  <2> QED
    BY <2>1, <2>2
<1>15. ASSUME NEW i \in 1..n
       PROVE  MatchFits(taker, list, ords, ms, i)
  <2>1. ms[i].lots \in 1..ords[list[i]].resd /\ ms[i].sumLots \in 1..taker.resd
    BY <1>5, <1>11, <1>13
  <2>2. /\ Crosses(taker, ords[list[i]])
        /\ ms[i].sumLots < taker.resd => ms[i].lots = ords[list[i]].resd
        /\ i < Len(ms) => ms[i].sumLots < taker.resd
    BY <1>5, <1>10, <1>11
  <2> QED
    BY <1>11, <1>12, <2>1, <2>2 DEF MatchFits
<1> QED
  <2>1. ms = [i \in 1..n |-> ms[i]]
    BY <1>9
  <2> QED
    BY <1>3, <1>4, <1>6, <1>10, <1>14, <1>15, <2>1 DEF MatchesFit

-----------------------------------------------------------------------------
(* The side after the makers were taken. *)

\* The recursive function behind TakeMakers.
IsTook(f, n, s, ms) ==
    f = [i \in 0..n |->
            IF i = 0 THEN s
            ELSE ReduceLevel(f[i - 1], ms[i].id, ms[i].maker, ms[i].lots)]

\* The loop of commit_matches gets to the end of the matches.
LEMMA TookExists ==
    ASSUME NEW s, NEW ms, NEW n \in Nat
    PROVE  \E f : IsTook(f, n, s, ms)
<1> DEFINE Good == {k \in Nat : \E f : IsTook(f, k, s, ms)}
           g(i, t) == ReduceLevel(t, ms[i].id, ms[i].maker, ms[i].lots)
<1> HIDE DEF g
<1>1. 0 \in Good
  <2>1. IsTook([i \in 0..0 |-> s], 0, s, ms)
    BY DEF IsTook
  <2> QED
    BY <2>1
<1>2. ASSUME NEW k \in Nat, k \in Good
      PROVE  k + 1 \in Good
  <2>1. PICK f : f = [i \in 0..k |-> IF i = 0 THEN s ELSE g(i, f[i - 1])]
    BY <1>2 DEF IsTook, g
  <2> DEFINE h == [i \in 0..(k + 1) |-> IF i = k + 1 THEN g(k + 1, f[k]) ELSE f[i]]
  <2>2. \A i \in 0..k : h[i] = f[i]
    OBVIOUS
  <2>3. h[k + 1] = g(k + 1, h[k])
    OBVIOUS
  <2>4. \A i \in 1..k : h[i] = g(i, h[i - 1])
    BY <2>1, <2>2
  <2>5. h[0] = s
    BY <2>1
  <2>6. \A i \in 0..(k + 1) : h[i] = IF i = 0 THEN s ELSE g(i, h[i - 1])
    <3>1. \A i \in 0..(k + 1) : i = 0 \/ i \in 1..k \/ (i = k + 1 /\ i - 1 = k /\ i # 0)
      OBVIOUS
    <3> HIDE DEF h
    <3> QED
      BY <2>3, <2>4, <2>5, <3>1
  <2>7. IsTook(h, k + 1, s, ms)
    <3>1. h = [i \in 0..(k + 1) |-> h[i]]
      OBVIOUS
    <3> HIDE DEF h
    <3> QED
      BY <2>6, <3>1 DEF IsTook, g
  <2> QED
    BY <2>7
<1> HIDE DEF Good
<1>3. \A i \in 0..n : i \in Good
  BY <1>1, <1>2, NumberInduction
<1> QED
  BY <1>3 DEF Good

\* The side after each match.
LEMMA TookSteps ==
    ASSUME NEW s, NEW ms, Len(ms) \in Nat
    PROVE  \E f : /\ f[0] = s
                  /\ \A i \in 1..Len(ms) :
                        f[i] = ReduceLevel(f[i - 1], ms[i].id, ms[i].maker, ms[i].lots)
                  /\ TakeMakers(s, ms) = f[Len(ms)]
<1>1. PICK f : f = CHOOSE g : IsTook(g, Len(ms), s, ms)
  OBVIOUS
<1>2. IsTook(f, Len(ms), s, ms)
  <2>1. \E g : IsTook(g, Len(ms), s, ms)
    BY TookExists
  <2> QED
    BY <1>1, <2>1
<1>3. TakeMakers(s, ms) = f[Len(ms)]
  BY <1>1 DEF TakeMakers, IsTook
<1>4. \A i \in 0..Len(ms) :
        f[i] = IF i = 0 THEN s ELSE ReduceLevel(f[i - 1], ms[i].id, ms[i].maker, ms[i].lots)
  BY <1>2 DEF IsTook
<1>5. 0 \in 0..Len(ms) /\ \A i \in 1..Len(ms) : i \in 0..Len(ms) /\ i # 0
  OBVIOUS
<1> QED
  BY <1>3, <1>4, <1>5

\* What the first i matches take from the order x, and what a side sees of the
\* orders then.
TakenOf(ms, i, x) ==
    IF \E j \in 1..i : ms[j].id = x
    THEN ms[CHOOSE j \in 1..i : ms[j].id = x].lots ELSE 0

LeftBy(ords, ms, i) ==
    [x \in DOMAIN ords |->
        [side |-> ords[x].side, ticks |-> ords[x].ticks,
         resd |-> ords[x].resd - TakenOf(ms, i, x)]]

\* The orders that the first i matches finish.
GoneBy(ms, i) == {ms[j].id : j \in {k \in 1..i : ms[k].lots = ms[k].maker.resd}}

\* The i-th match takes from the order x and from no other.
TakesFrom(ms, i, x) ==
    /\ TakenOf(ms, i, x) = ms[i].lots
    /\ TakenOf(ms, i - 1, x) = 0
    /\ \A y : y # x => TakenOf(ms, i, y) = TakenOf(ms, i - 1, y)

\* That order is the i-th on the list.
LEMMA TakenStep ==
    ASSUME NEW list \in Seq(Nat), IsInjective(list), NEW ms,
           NEW n \in 0..Len(list), \A i \in 1..n : ms[i].id = list[i],
           NEW i \in 1..n
    PROVE  TakesFrom(ms, i, list[i])
<1>1. /\ \A j \in 1..i : j \in DOMAIN list /\ ms[j].id = list[j]
      /\ \A j \in 1..(i - 1) : j \in 1..i /\ j # i
      /\ i \in 1..i
      /\ \A j \in 1..i : j = i \/ j \in 1..(i - 1)
  BY OnList
<1>2. \A j \in 1..i : ms[j].id = list[i] => j = i
  BY <1>1 DEF IsInjective
<1>3. TakenOf(ms, i, list[i]) = ms[i].lots
  <2>1. (CHOOSE j \in 1..i : ms[j].id = list[i]) = i
    BY <1>1, <1>2
  <2> QED
    BY <1>1, <2>1 DEF TakenOf
<1>4. TakenOf(ms, i - 1, list[i]) = 0
  BY <1>1, <1>2 DEF TakenOf
<1>5. ASSUME NEW x, x # list[i]
      PROVE  TakenOf(ms, i, x) = TakenOf(ms, i - 1, x)
  <2>1. \A j : (j \in 1..i /\ ms[j].id = x) <=> (j \in 1..(i - 1) /\ ms[j].id = x)
    BY <1>1, <1>5
  <2>2. (CHOOSE j \in 1..i : ms[j].id = x) = (CHOOSE j \in 1..(i - 1) : ms[j].id = x)
    BY <2>1
  <2> QED
    BY <2>1, <2>2 DEF TakenOf
<1> QED
  BY <1>3, <1>4, <1>5 DEF TakesFrom

\* A taker meets the side s with the matches ms.
Meets(taker, s, ords, ms) ==
    /\ BookSide(s, ords)
    /\ Offered(s.list, ords)
    /\ ToSet(s.list) \subseteq DOMAIN ords
    /\ MatchesFit(taker, s.list, ords, ms)

\* What the side t is after the first i matches.
TakenSide(s, ords, ms, i, t) ==
    /\ BookSide(t, LeftBy(ords, ms, i))
    /\ ToSet(t.list) = ToSet(s.list) \ GoneBy(ms, i)

\* What the matches of a taker look like on the list.
LEMMA MatchIs ==
    ASSUME NEW taker, NEW s, NEW ords, NEW ms, Meets(taker, s, ords, ms),
           NEW i \in 1..Len(ms)
    PROVE  LET x == s.list[i]
           IN  /\ x \in ToSet(s.list) /\ x \in DOMAIN ords
               /\ ms[i].id = x /\ ms[i].maker = ords[x] /\ ms[i].ticks = ords[x].ticks
               /\ ms[i].lots \in Nat /\ ms[i].lots \in 1..ords[x].resd
               /\ ords[x].resd \in Nat \ {0}
               /\ LevelKey(ords[x]) \in Int
<1>1. PICK list \in Seq(Nat) : list = s.list
  BY DEF Meets, BookSide
<1>2. i \in DOMAIN list /\ MatchFits(taker, list, ords, ms, i)
  BY <1>1, OnList DEF Meets, MatchesFit
<1>3. list[i] \in ToSet(list) /\ list[i] \in DOMAIN ords
  BY <1>1, <1>2, OnList DEF Meets
<1>4. ords[list[i]].resd \in Nat \ {0} /\ LevelKey(ords[list[i]]) \in Int
  BY <1>1, <1>3 DEF Meets, Offered, BookSide, Priced
<1>5. ms[i].lots \in 1..ords[list[i]].resd
  BY <1>2 DEF MatchFits
<1>6. ms[i].lots \in Nat
  BY <1>4, <1>5
<1> QED
  BY <1>1, <1>2, <1>3, <1>4, <1>5, <1>6 DEF MatchFits

\* take_order for the next match.
LEMMA TookStep ==
    ASSUME NEW taker, NEW s, NEW ords, NEW ms, Meets(taker, s, ords, ms),
           NEW i \in 1..Len(ms), NEW t, TakenSide(s, ords, ms, i - 1, t)
    PROVE  TakenSide(s, ords, ms, i,
                     ReduceLevel(t, ms[i].id, ms[i].maker, ms[i].lots))
<1>1. PICK list \in Seq(Nat) : list = s.list
  BY DEF Meets, BookSide
<1>2. PICK x : x = list[i]
  OBVIOUS
<1>3. /\ x \in ToSet(list) /\ x \in DOMAIN ords
      /\ ms[i].id = x /\ ms[i].maker = ords[x]
      /\ ms[i].lots \in Nat /\ ms[i].lots \in 1..ords[x].resd
      /\ ords[x].resd \in Nat \ {0}
      /\ LevelKey(ords[x]) \in Int
  BY <1>1, <1>2, MatchIs
<1>4. /\ Len(ms) \in 0..Len(list) /\ i \in Nat /\ IsInjective(list)
      /\ \A j \in 1..Len(ms) : ms[j].id = list[j]
  <2>1. IsInjective(list)
    BY <1>1, InOrderInjective DEF Meets, BookSide
  <2> QED
    BY <1>1, <2>1 DEF Meets, MatchesFit, MatchFits
<1>5. /\ TakenOf(ms, i, x) = ms[i].lots /\ TakenOf(ms, i - 1, x) = 0
      /\ \A y : y # x => TakenOf(ms, i, y) = TakenOf(ms, i - 1, y)
  <2>1. PICK n \in 0..Len(list) : n = Len(ms)
    BY <1>4
  <2>2. i \in 1..n /\ \A j \in 1..n : ms[j].id = list[j]
    BY <1>4, <2>1
  <2>3. TakesFrom(ms, i, list[i])
    BY <1>4, <2>1, <2>2, TakenStep
  <2> QED
    BY <1>2, <2>3 DEF TakesFrom
<1>6. PICK os : os = LeftBy(ords, ms, i - 1)
  OBVIOUS
<1>7. PICK ns : ns = LeftBy(ords, ms, i)
  OBVIOUS
<1>16. PICK order : order = ords[x]
  OBVIOUS
<1>8. PICK lots \in Nat : lots = ms[i].lots /\ order = ords[x]
  BY <1>3, <1>16
<1>9. /\ LevelKey(os[x]) = LevelKey(order) /\ LevelKey(ns[x]) = LevelKey(order)
      /\ os[x].resd = order.resd /\ ns[x].resd = order.resd - lots
      /\ os[x].resd \in Nat /\ ns[x].resd \in Nat
  <2>1. os[x].resd = order.resd - 0 /\ ns[x].resd = order.resd - lots
    BY <1>3, <1>5, <1>6, <1>7, <1>8 DEF LeftBy
  <2>2. LevelKey(os[x]) = LevelKey(order) /\ LevelKey(ns[x]) = LevelKey(order)
    BY <1>3, <1>6, <1>7, <1>8 DEF LeftBy, LevelKey
  <2> QED
    BY <1>3, <1>8, <2>1, <2>2
<1>10. \A y \in DOMAIN ords : y # x => ns[y] = os[y]
  BY <1>5, <1>6, <1>7 DEF LeftBy
<1>11. BookSide(t, os) /\ ToSet(t.list) = ToSet(list) \ GoneBy(ms, i - 1)
  BY <1>1, <1>6 DEF TakenSide
<1>12. x \in ToSet(t.list) /\ ToSet(t.list) \subseteq DOMAIN ords
  <2>1. x \notin GoneBy(ms, i - 1)
    <3>1. \A j \in 1..(i - 1) : j \in DOMAIN list /\ i \in DOMAIN list /\ j # i /\ j \in 1..Len(ms)
      BY <1>4, OnList
    <3> QED
      BY <1>2, <1>4, <3>1 DEF GoneBy, IsInjective
  <2> QED
    BY <1>1, <1>3, <1>11, <2>1 DEF Meets
<1>13. GoneBy(ms, i) = IF lots = order.resd THEN GoneBy(ms, i - 1) \union {x}
                       ELSE GoneBy(ms, i - 1)
  <2>1. \A j : j \in 1..i <=> (j \in 1..(i - 1) \/ j = i)
    BY <1>4
  <2> QED
    BY <1>3, <1>8, <2>1 DEF GoneBy
<1>14. CASE lots < order.resd
  <2>1. OneChanged(ToSet(t.list), os, x, ns)
    BY <1>9, <1>10, <1>12 DEF OneChanged, Agree
  <2>2. /\ BookSide(ReduceLevel(t, x, order, lots), ns)
        /\ ReduceLevel(t, x, order, lots).list = t.list
    <3>1. /\ BookSide(t, os) /\ LevelKey(order) = LevelKey(os[x]) /\ lots \in Nat
          /\ lots < order.resd /\ ns[x].resd = os[x].resd - lots
      BY <1>9, <1>11, <1>14
    <3> QED
      BY ONLY <2>1, <3>1, ReduceLevelKeeps
  <2>3. GoneBy(ms, i) = GoneBy(ms, i - 1)
    BY <1>3, <1>8, <1>13, <1>14
  <2> QED
    BY <1>1, <1>3, <1>7, <1>8, <1>11, <2>2, <2>3 DEF TakenSide
<1>15. CASE lots = order.resd
  <2>1. Leaves(ToSet(t.list), os, x, ns, order)
    BY <1>9, <1>10, <1>12 DEF Leaves, Agree
  <2>2. /\ BookSide(RemoveOrder(t, x, order), ns)
        /\ ToSet(RemoveOrder(t, x, order).list) = ToSet(t.list) \ {x}
    <3>1. BookSide(t, os)
      BY <1>11
    <3> QED
      BY ONLY <2>1, <3>1, RemoveOrderKeeps, ZenonT(60)
  <2>3. ReduceLevel(t, x, order, lots) = RemoveOrder(t, x, order)
    BY <1>15 DEF ReduceLevel
  <2> QED
    BY <1>1, <1>3, <1>7, <1>8, <1>11, <1>13, <1>15, <2>2, <2>3 DEF TakenSide
<1> QED
  BY <1>3, <1>8, <1>14, <1>15

\* The makers leave the side right, and those that are done are no longer on it
\* (App.cpp, commit_matches, take_order for each match).
LEMMA MakersTaken ==
    ASSUME NEW taker, NEW s, NEW ords, NEW ms, Meets(taker, s, ords, ms)
    PROVE  TakenSide(s, ords, ms, Len(ms), TakeMakers(s, ms))
<1>1. Len(ms) \in Nat
  <2>1. Len(s.list) \in Nat
    BY DEF Meets, BookSide
  <2> QED
    BY <2>1 DEF Meets, MatchesFit
<1>2. PICK f : /\ f[0] = s
               /\ \A i \in 1..Len(ms) :
                    f[i] = ReduceLevel(f[i - 1], ms[i].id, ms[i].maker, ms[i].lots)
               /\ TakeMakers(s, ms) = f[Len(ms)]
  BY <1>1, TookSteps
<1> DEFINE Good == {i \in 0..Len(ms) : TakenSide(s, ords, ms, i, f[i])}
<1>3. 0 \in Good
  <2>1. GoneBy(ms, 0) = {} /\ \A x : TakenOf(ms, 0, x) = 0
    BY DEF GoneBy, TakenOf
  <2>2. PICK os : os = LeftBy(ords, ms, 0)
    OBVIOUS
  <2>3. ASSUME NEW x \in ToSet(s.list)
        PROVE  LevelKey(os[x]) = LevelKey(ords[x]) /\ os[x].resd = ords[x].resd
    <3>1. x \in DOMAIN ords /\ ords[x].resd \in Nat
      BY DEF Meets, Offered
    <3>2. os[x].resd = ords[x].resd - 0
      BY <2>1, <2>2, <3>1 DEF LeftBy
    <3>3. LevelKey(os[x]) = LevelKey(ords[x])
      BY <2>2, <3>1 DEF LeftBy, LevelKey
    <3> QED
      BY <3>1, <3>2, <3>3
  <2>4. Agree(ToSet(s.list), ords, os)
    BY <2>3 DEF Agree
  <2>5. BookSide(s, ords)
    BY DEF Meets
  <2>6. BookSide(s, os)
    BY ONLY <2>4, <2>5, AgreeKeeps
  <2> QED
    BY <1>1, <1>2, <2>1, <2>2, <2>6 DEF TakenSide
<1>4. ASSUME NEW i \in Nat, i < Len(ms), i \in Good
      PROVE  i + 1 \in Good
  <2>1. i + 1 \in 1..Len(ms) /\ (i + 1) - 1 = i
    BY <1>1, <1>4
  <2>2. TakenSide(s, ords, ms, (i + 1) - 1, f[i])
    BY <1>4, <2>1
  <2>3. f[i + 1] = ReduceLevel(f[i], ms[i + 1].id, ms[i + 1].maker, ms[i + 1].lots)
    BY <1>2, <2>1
  <2>4. PICK k, t : k \in 1..Len(ms) /\ k = i + 1 /\ t = f[i]
    BY <2>1
  <2>5. TakenSide(s, ords, ms, k, ReduceLevel(t, ms[k].id, ms[k].maker, ms[k].lots))
    BY <2>2, <2>4, TookStep
  <2> QED
    BY <1>1, <2>1, <2>3, <2>4, <2>5
<1> HIDE DEF Good
<1>5. \A i \in 0..Len(ms) : i \in Good
  BY <1>1, <1>3, <1>4, NumberInduction
<1> QED
  BY <1>1, <1>2, <1>5 DEF Good

\* The orders ns are what the matches leave of the orders of the side s.
LeftOf(s, ords, ms, ns) ==
    \A x \in ToSet(s.list) \ DoneMakers(ms) :
        /\ LevelKey(ns[x]) = LevelKey(ords[x])
        /\ ns[x].resd = ords[x].resd - TakenOf(ms, Len(ms), x)

\* The side and the orders after a match agree.
LEMMA TakeMakersKeeps ==
    ASSUME NEW taker, NEW s, NEW ords, NEW ms, Meets(taker, s, ords, ms),
           NEW ns, LeftOf(s, ords, ms, ns)
    PROVE  /\ BookSide(TakeMakers(s, ms), ns)
           /\ ToSet(TakeMakers(s, ms).list) = ToSet(s.list) \ DoneMakers(ms)
<1>1. PICK t : t = TakeMakers(s, ms)
  OBVIOUS
<1>2. PICK os : os = LeftBy(ords, ms, Len(ms))
  OBVIOUS
<1>3. BookSide(t, os) /\ ToSet(t.list) = ToSet(s.list) \ GoneBy(ms, Len(ms))
  BY <1>1, <1>2, MakersTaken DEF TakenSide
<1>4. GoneBy(ms, Len(ms)) = DoneMakers(ms)
  BY DEF GoneBy, DoneMakers, Meets, MatchesFit
<1>5. ASSUME NEW x \in ToSet(t.list)
      PROVE  LevelKey(ns[x]) = LevelKey(os[x]) /\ ns[x].resd = os[x].resd
  <2>1. x \in DOMAIN ords /\ x \in ToSet(s.list) \ DoneMakers(ms)
    BY <1>3, <1>4 DEF Meets
  <2>2. os[x].resd = ords[x].resd - TakenOf(ms, Len(ms), x)
    BY <1>2, <2>1 DEF LeftBy
  <2>3. LevelKey(os[x]) = LevelKey(ords[x])
    BY <1>2, <2>1 DEF LeftBy, LevelKey
  <2> QED
    BY <2>1, <2>2, <2>3 DEF LeftOf
<1>6. Agree(ToSet(t.list), os, ns)
  BY <1>5 DEF Agree
<1>7. BookSide(t, ns)
  BY ONLY <1>3, <1>6, AgreeKeeps
<1> QED
  BY <1>1, <1>3, <1>4, <1>7

-----------------------------------------------------------------------------
(* The inductive invariant. *)

\* A live order: its lots add up, and it paid no more than the highest price.
GoodOrder(order) ==
    /\ order \in Order
    /\ order.resd + order.exec = order.lots
    /\ order.lots >= order.minLots
    /\ order.cost =< order.exec * MaxTicks

OnSide(os, s) == {id \in DOMAIN os : os[id].side = s}

\* The live orders of a market whose last id is "last".
GoodOrders(os, last) ==
    /\ DOMAIN os \subseteq 1..last
    /\ \A id \in DOMAIN os : GoodOrder(os[id])

Uncrossed(os) ==
    \A b \in OnSide(os, "Buy"), o \in OnSide(os, "Sell") :
        os[b].ticks < os[o].ticks

\* The sides of a market hold its orders.
GoodBook(b, os) ==
    /\ b = [s \in Sides |-> b[s]]
    /\ \A s \in Sides : BookSide(b[s], os) /\ ToSet(b[s].list) = OnSide(os, s)

Market == [state : MarketStates, maxId : 0..MaxId,
           lastLots : 0..MaxLots, lastTicks : 0..MaxTicks]

GoodMarket(market, b, os) ==
    /\ market \in Market
    /\ GoodOrders(os, market.maxId)
    /\ Uncrossed(os)
    /\ GoodBook(b, os)

Keys == Markets \X (1..MaxId)

\* The keys of an account's live orders.
KeysOf(os, a) ==
    {k \in Keys : k[1] \in DOMAIN os /\ k[2] \in DOMAIN os[k[1]]
                  /\ os[k[1]][k[2]].accnt = a}

\* The references that find an account's orders.
GoodRefs(os, keys, refs) ==
    /\ DOMAIN refs \subseteq Refs
    /\ \A k \in keys :
        LET ref == os[k[1]][k[2]].ref
        IN  ref = NoRef \/ (ref \in DOMAIN refs /\ refs[ref] = k)
    /\ \A r \in DOMAIN refs :
        refs[r] \in keys /\ os[refs[r][1]][refs[r][2]].ref = r

GoodSessions(os, held, refs) ==
    \A a \in Accnts : held[a] = KeysOf(os, a) /\ GoodRefs(os, held[a], refs[a])

\* The histories of the sessions.
Histories == [Accnts -> {s \in Seq(Keys) : Len(s) =< MaxExecs}]

\* The positions of accounts.
PosnType == [buyLots : Int, buyCost : Int, sellLots : Int, sellCost : Int, netCost : Int]

GoodPosns(ps) ==
    /\ ps = [a \in Accnts |-> ps[a]]
    /\ \A a \in Accnts : DOMAIN ps[a] \subseteq Markets
                         /\ ps[a] \in [DOMAIN ps[a] -> PosnType]

GoodMarkets(ms, bs, os) ==
    /\ DOMAIN ms \subseteq Markets /\ bs = [m \in DOMAIN bs |-> bs[m]]
    /\ DOMAIN bs = DOMAIN ms /\ DOMAIN os = DOMAIN ms
    /\ \A m \in DOMAIN ms : GoodMarket(ms[m], bs[m], os[m])

EngineInv ==
    /\ day \in 1..MaxDay
    /\ GoodMarkets(markets, books, orders)
    /\ GoodSessions(orders, sessOrders, refIdx)
    /\ trades \in [Accnts -> SUBSET Keys]
    /\ execs \in Histories
    /\ GoodPosns(posns)
    /\ res \in {"ok", "error", "abort"}

-----------------------------------------------------------------------------
(* Orders. *)

\* The fields of a live order.
LEMMA OrderFields ==
    ASSUME NEW order, order \in Order
    PROVE  /\ order.accnt \in Accnts /\ order.ref \in Refs \union {NoRef}
           /\ order.side \in Sides /\ order.ticks \in 1..MaxTicks
           /\ order.lots \in 1..MaxLots /\ order.resd \in 1..MaxLots
           /\ order.exec \in 0..MaxLots /\ order.cost \in 0..(MaxLots * MaxTicks)
           /\ order.minLots \in MinLots
           /\ order.ticks \in Nat /\ order.lots \in Nat /\ order.resd \in Nat \ {0}
           /\ order.exec \in Nat /\ order.cost \in Nat /\ order.minLots \in Nat
           /\ LevelKey(order) \in Int
<1>1. /\ order.accnt \in Accnts /\ order.ref \in Refs \union {NoRef}
      /\ order.side \in Sides /\ order.ticks \in 1..MaxTicks
      /\ order.lots \in 1..MaxLots /\ order.resd \in 1..MaxLots
      /\ order.exec \in 0..MaxLots /\ order.cost \in 0..(MaxLots * MaxTicks)
      /\ order.minLots \in MinLots
  BY DEF Order
<1>2. MaxTicks \in Nat /\ MaxLots \in Nat /\ MinLots \subseteq Nat
  BY EngineAssumption
<1>3. MaxLots * MaxTicks \in Nat
  BY <1>2
<1>4. /\ order.ticks \in Nat /\ order.lots \in Nat /\ order.resd \in Nat \ {0}
      /\ order.exec \in Nat /\ order.cost \in Nat /\ order.minLots \in Nat
  <2>1. \A a, b \in Nat : \A x \in a..b : x \in Nat
    OBVIOUS
  <2>2. \A x \in 1..MaxLots : x \in Nat \ {0}
    BY <1>2
  <2> QED
    BY <1>1, <1>2, <1>3, <2>1, <2>2
<1>5. LevelKey(order) \in Int
  BY <1>4 DEF LevelKey
<1> QED
  BY <1>1, <1>4, <1>5

\* More lots cost more: the cost of an order stays within bounds.
LEMMA CostBound ==
    ASSUME NEW exec \in Nat, NEW lots \in Nat, NEW cost \in Nat, NEW paid \in Nat,
           cost =< exec * MaxTicks, paid =< lots * MaxTicks
    PROVE  /\ cost + paid =< (exec + lots) * MaxTicks
           /\ exec + lots =< MaxLots => cost + paid \in 0..(MaxLots * MaxTicks)
<1>1. MaxTicks \in Nat /\ MaxLots \in Nat
  BY EngineAssumption
<1>2. (exec + lots) * MaxTicks = exec * MaxTicks + lots * MaxTicks
  BY <1>1
<1>3. exec * MaxTicks \in Nat /\ lots * MaxTicks \in Nat /\ MaxLots * MaxTicks \in Nat
  BY <1>1
<1>4. cost + paid =< (exec + lots) * MaxTicks
  <2>1. PICK a \in Nat, b \in Nat : a = exec * MaxTicks /\ b = lots * MaxTicks
    BY <1>3
  <2>2. cost =< a /\ paid =< b
    BY <2>1
  <2>3. cost + paid =< a + b
    BY ONLY <2>2, a \in Nat, b \in Nat, cost \in Nat, paid \in Nat
  <2> QED
    BY <1>2, <2>1, <2>3
<1>5. ASSUME exec + lots =< MaxLots
      PROVE  (exec + lots) * MaxTicks =< MaxLots * MaxTicks
  <2>1. PICK d \in Nat : MaxLots = (exec + lots) + d
    <3>1. MaxLots - (exec + lots) \in Nat
      BY <1>1, <1>5
    <3> QED
      BY <1>1, <3>1
  <2>2. PICK e \in Nat : e = exec + lots
    OBVIOUS
  <2>3. MaxLots * MaxTicks = e * MaxTicks + d * MaxTicks
    BY <1>1, <2>1, <2>2
  <2>4. d * MaxTicks \in Nat /\ e * MaxTicks \in Nat
    BY <1>1
  <2> QED
    BY <2>2, <2>3, <2>4
<1>6. cost + paid \in Nat
  OBVIOUS
<1>7. exec + lots =< MaxLots => cost + paid =< MaxLots * MaxTicks
  <2>1. (exec + lots) * MaxTicks \in Int
    BY <1>1
  <2> QED
    BY <1>3, <1>4, <1>5, <1>6, <2>1
<1> QED
  BY <1>3, <1>4, <1>6, <1>7

\* What one trade costs.
LEMMA PaidBound ==
    ASSUME NEW lots \in Nat, NEW ticks \in 1..MaxTicks
    PROVE  lots * ticks \in Nat /\ lots * ticks =< lots * MaxTicks
<1>1. MaxTicks \in Nat /\ ticks \in Nat
  BY EngineAssumption
<1>2. PICK d \in Nat : MaxTicks = ticks + d
  <2>1. MaxTicks - ticks \in Nat
    BY <1>1
  <2> QED
    BY <1>1, <2>1
<1>3. lots * MaxTicks = lots * ticks + lots * d
  BY <1>1, <1>2
<1>4. lots * ticks \in Nat /\ lots * d \in Nat
  BY <1>1
<1> QED
  BY <1>3, <1>4

\* The order "new" is "old" with different lots: whose it is, its reference and
\* its place do not change.
SameOrder(old, new) ==
    /\ new.accnt = old.accnt /\ new.ref = old.ref
    /\ new.side = old.side /\ new.ticks = old.ticks
    /\ new.minLots = old.minLots
    /\ LevelKey(new) = LevelKey(old)

\* What Order::trade does.
LEMMA TradedOrder ==
    ASSUME NEW order, GoodOrder(order), NEW lots \in Nat, lots =< order.resd,
           NEW cost \in Nat, cost =< lots * MaxTicks
    PROVE  /\ TradeLots(order, lots, cost).resd = order.resd - lots
           /\ SameOrder(order, TradeLots(order, lots, cost))
           /\ lots < order.resd => GoodOrder(TradeLots(order, lots, cost))
<1> DEFINE r == order.resd - lots
           e == order.exec + lots
           c == order.cost + cost
           new == [order EXCEPT !.resd = r, !.exec = e, !.cost = c]
<1>1. TradeLots(order, lots, cost) = new
  BY DEF TradeLots
<1>2. /\ order \in Order /\ order.resd + order.exec = order.lots
      /\ order.lots >= order.minLots /\ order.cost =< order.exec * MaxTicks
  BY DEF GoodOrder
<1>3. new.resd = r /\ new.exec = e /\ new.cost = c /\ new.lots = order.lots
      /\ new.accnt = order.accnt /\ new.ref = order.ref
      /\ new.side = order.side /\ new.ticks = order.ticks /\ new.minLots = order.minLots
  BY <1>2 DEF Order
<1>4. /\ order.resd \in Nat \ {0} /\ order.exec \in Nat /\ order.cost \in Nat
      /\ order.lots \in 1..MaxLots /\ order.lots \in Nat /\ order.resd \in 1..MaxLots
      /\ order.minLots \in Nat
  BY <1>2, OrderFields
<1>5. MaxLots \in Nat
  BY EngineAssumption
<1>6. e =< MaxLots /\ e \in 0..MaxLots /\ r + e = order.lots
  BY <1>2, <1>4, <1>5
<1>7. c =< e * MaxTicks /\ c \in 0..(MaxLots * MaxTicks)
  BY <1>2, <1>4, <1>6, CostBound
<1>8. ASSUME lots < order.resd
      PROVE  GoodOrder(new)
  <2>1. r \in 1..MaxLots
    BY <1>4, <1>5, <1>8
  <2> HIDE DEF r, e, c
  <2>2. new \in Order
    BY <1>2, <1>6, <1>7, <2>1 DEF Order
  <2> HIDE DEF new
  <2> QED
    BY <1>2, <1>3, <1>6, <1>7, <2>2 DEF GoodOrder
<1> HIDE DEF new
<1>9. LevelKey(new) = LevelKey(order)
  BY <1>3 DEF LevelKey
<1> QED
  BY <1>1, <1>3, <1>8, <1>9 DEF SameOrder

\* What Order::revise does with lots that revise_order has let through.
LEMMA RevisedOrder ==
    ASSUME NEW order, GoodOrder(order), NEW lots \in Nat, lots =< order.lots,
           lots >= order.exec, lots >= order.minLots
    PROVE  /\ ReviseLots(order, lots).resd = lots - order.exec
           /\ SameOrder(order, ReviseLots(order, lots))
           /\ lots > order.exec => GoodOrder(ReviseLots(order, lots))
<1> DEFINE r == order.resd - (order.lots - lots)
           new == [order EXCEPT !.lots = lots, !.resd = r]
<1>1. ReviseLots(order, lots) = new
  BY DEF ReviseLots
<1>2. /\ order \in Order /\ order.resd + order.exec = order.lots
      /\ order.lots >= order.minLots /\ order.cost =< order.exec * MaxTicks
  BY DEF GoodOrder
<1>3. new.resd = r /\ new.exec = order.exec /\ new.cost = order.cost /\ new.lots = lots
      /\ new.accnt = order.accnt /\ new.ref = order.ref
      /\ new.side = order.side /\ new.ticks = order.ticks /\ new.minLots = order.minLots
  BY <1>2 DEF Order
<1>4. /\ order.resd \in Nat \ {0} /\ order.exec \in Nat
      /\ order.lots \in 1..MaxLots /\ order.lots \in Nat /\ order.resd \in 1..MaxLots
  BY <1>2, OrderFields
<1>5. MaxLots \in Nat
  BY EngineAssumption
<1>6. r = lots - order.exec /\ r + order.exec = lots
  BY <1>2, <1>4
<1>7. ASSUME lots > order.exec
      PROVE  GoodOrder(new)
  <2>1. r \in 1..MaxLots /\ lots \in 1..MaxLots
    BY <1>4, <1>5, <1>6, <1>7
  <2> HIDE DEF r
  <2>2. new \in Order
    BY <1>2, <2>1 DEF Order
  <2> HIDE DEF new
  <2> QED
    BY <1>2, <1>3, <1>6, <2>2 DEF GoodOrder
<1> HIDE DEF new, r
<1>8. LevelKey(new) = LevelKey(order)
  BY <1>3 DEF LevelKey
<1> QED
  BY <1>1, <1>3, <1>6, <1>7, <1>8 DEF SameOrder

\* A new order of which nothing was executed yet.
LEMMA FreshOrder ==
    ASSUME NEW a \in Accnts, NEW ref \in Refs \union {NoRef}, NEW side \in Sides,
           NEW lots \in 1..MaxLots, NEW ticks \in 1..MaxTicks, NEW minLots \in MinLots,
           lots >= minLots
    PROVE  GoodOrder([accnt |-> a, ref |-> ref, side |-> side, ticks |-> ticks,
                      lots |-> lots, resd |-> lots, exec |-> 0, cost |-> 0,
                      minLots |-> minLots])
<1>1. MaxLots \in Nat /\ MaxTicks \in Nat /\ lots \in Nat /\ MaxLots * MaxTicks \in Nat
  BY EngineAssumption
<1>2. 0 \in 0..MaxLots /\ 0 \in 0..(MaxLots * MaxTicks) /\ lots + 0 = lots
      /\ 0 =< 0 * MaxTicks
  BY <1>1
<1> QED
  BY <1>2 DEF GoodOrder, Order

-----------------------------------------------------------------------------
(* What a new order does to its market. *)

\* A new order "order" with the next id meets the market with the matches ms.
Arrival(b, os, id, order, ms) ==
    /\ id \in Nat \ {0}
    /\ GoodOrders(os, id - 1) /\ Uncrossed(os) /\ GoodBook(b, os)
    /\ GoodOrder(order)
    /\ ms = Matches(order, b[Opposite(order.side)].list, os)

\* The two sides.
LEMMA SidesAre ==
    ASSUME NEW s \in Sides
    PROVE  /\ Opposite(s) \in Sides /\ Opposite(s) # s
           /\ Opposite(Opposite(s)) = s
           /\ \A t \in Sides : t = s \/ t = Opposite(s)
           /\ s = "Buy" \/ s = "Sell"
BY DEF Sides, Opposite

\* It meets the orders of the opposite side.
LEMMA ArrivalMeets ==
    ASSUME NEW b, NEW os, NEW id, NEW order, NEW ms, Arrival(b, os, id, order, ms)
    PROVE  LET s == b[Opposite(order.side)]
           IN  /\ order.side \in Sides /\ order.resd \in Nat \ {0}
               /\ ToSet(s.list) = OnSide(os, Opposite(order.side))
               /\ Meets(order, s, os, ms)
<1>1. PICK s : s = b[Opposite(order.side)]
  OBVIOUS
<1>2. order.side \in Sides /\ order.resd \in Nat \ {0} /\ Opposite(order.side) \in Sides
  BY OrderFields, SidesAre DEF Arrival, GoodOrder
<1>3. BookSide(s, os) /\ ToSet(s.list) = OnSide(os, Opposite(order.side))
  BY <1>1, <1>2 DEF Arrival, GoodBook
<1>4. ToSet(s.list) \subseteq DOMAIN os
  BY <1>3 DEF OnSide
<1>5. \A x \in DOMAIN os : os[x].resd \in Nat \ {0} /\ os[x].ticks \in Nat
  BY OrderFields DEF Arrival, GoodOrders, GoodOrder
<1>6. Offered(s.list, os)
  BY <1>3, <1>4, <1>5 DEF Offered, BookSide
<1>7. MatchesFit(order, s.list, os, ms)
  BY <1>1, <1>2, <1>6, MatchesAre DEF Arrival
<1> QED
  BY <1>1, <1>2, <1>3, <1>4, <1>6, <1>7 DEF Meets

\* What it takes from a maker.
LEMMA MakerIs ==
    ASSUME NEW b, NEW os, NEW id, NEW order, NEW ms, Arrival(b, os, id, order, ms),
           NEW i \in 1..Len(ms)
    PROVE  LET x == ms[i].id
           IN  /\ x \in OnSide(os, Opposite(order.side)) /\ x \in DOMAIN os
               /\ ms[i].maker = os[x] /\ GoodOrder(os[x])
               /\ ms[i].lots \in Nat \ {0} /\ ms[i].lots =< os[x].resd
               /\ ms[i].ticks = os[x].ticks /\ ms[i].ticks \in 1..MaxTicks
               /\ ms[i].lots * ms[i].ticks \in Nat
               /\ ms[i].lots * ms[i].ticks =< ms[i].lots * MaxTicks
<1>1. PICK s : s = b[Opposite(order.side)]
  OBVIOUS
<1>2. ToSet(s.list) = OnSide(os, Opposite(order.side)) /\ Meets(order, s, os, ms)
  BY <1>1, ArrivalMeets
<1>3. PICK x : x = s.list[i]
  OBVIOUS
<1>4. /\ x \in ToSet(s.list) /\ x \in DOMAIN os
      /\ ms[i].id = x /\ ms[i].maker = os[x] /\ ms[i].ticks = os[x].ticks
      /\ ms[i].lots \in Nat /\ ms[i].lots \in 1..os[x].resd
      /\ os[x].resd \in Nat \ {0}
  BY <1>2, <1>3, MatchIs
<1>5. GoodOrder(os[x])
  BY <1>4 DEF Arrival, GoodOrders
<1>6. ms[i].ticks \in 1..MaxTicks
  BY <1>4, <1>5, OrderFields DEF GoodOrder
<1>7. ms[i].lots * ms[i].ticks \in Nat /\ ms[i].lots * ms[i].ticks =< ms[i].lots * MaxTicks
  BY <1>4, <1>6, PaidBound
<1> QED
  BY <1>2, <1>4, <1>5, <1>6, <1>7

\* What it pays for all of them.
LEMMA SumCostBound ==
    ASSUME NEW b, NEW os, NEW id, NEW order, NEW ms, Arrival(b, os, id, order, ms)
    PROVE  \A i \in 1..Len(ms) : /\ ms[i].sumLots \in Nat \ {0}
                                 /\ ms[i].sumLots =< order.resd
                                 /\ ms[i].sumCost \in Nat
                                 /\ ms[i].sumCost =< ms[i].sumLots * MaxTicks
<1>1. PICK s : s = b[Opposite(order.side)]
  OBVIOUS
<1>2. Len(ms) \in Nat /\ order.resd \in Nat
      /\ \A i \in 1..Len(ms) : MatchFits(order, s.list, os, ms, i)
  <2>1. Meets(order, s, os, ms) /\ order.resd \in Nat
    BY <1>1, ArrivalMeets
  <2>2. Len(s.list) \in Nat
    BY <2>1 DEF Meets, BookSide
  <2> QED
    BY <2>1, <2>2 DEF Meets, MatchesFit
<1> DEFINE Right(i) == ms[i].sumCost \in Nat /\ ms[i].sumCost =< ms[i].sumLots * MaxTicks
           Good == {i \in 0..Len(ms) : i = 0 \/ Right(i)}
<1>3. \A i \in 1..Len(ms) : ms[i].sumLots \in Nat \ {0} /\ ms[i].sumLots =< order.resd
  <2>1. \A i \in 1..Len(ms) : ms[i].sumLots \in 1..order.resd
    BY <1>2 DEF MatchFits
  <2> QED
    BY <1>2, <2>1
<1>4. ASSUME NEW i \in 1..Len(ms), i = 1 \/ Right(i - 1)
      PROVE  Right(i)
  <2>1. PICK lots \in Nat : lots = IF i = 1 THEN 0 ELSE ms[i - 1].sumLots
    BY <1>2, <1>3
  <2>2. PICK cost \in Nat : cost = IF i = 1 THEN 0 ELSE ms[i - 1].sumCost
    BY <1>4
  <2>3. cost =< lots * MaxTicks
    <3>1. 0 =< 0 * MaxTicks
      BY EngineAssumption
    <3> QED
      BY <1>4, <2>1, <2>2, <3>1
  <2>4. PICK new \in Nat : new = ms[i].lots
    BY MakerIs
  <2>5. PICK paid \in Nat : paid = ms[i].lots * ms[i].ticks /\ paid =< new * MaxTicks
    BY <2>4, MakerIs
  <2>6. ms[i].sumLots = new + lots /\ ms[i].sumCost = paid + cost
    BY <1>2, <2>1, <2>2, <2>4, <2>5 DEF MatchFits
  <2>7. cost + paid =< (lots + new) * MaxTicks
    BY <2>3, <2>5, CostBound
  <2>8. paid + cost = cost + paid /\ new + lots = lots + new /\ paid + cost \in Nat
    OBVIOUS
  <2> QED
    BY <2>6, <2>7, <2>8
<1> HIDE DEF Right
<1>5. 0 \in Good
  BY <1>2
<1>6. ASSUME NEW i \in Nat, i < Len(ms), i \in Good
      PROVE  i + 1 \in Good
  <2>1. i + 1 \in 1..Len(ms) /\ (i + 1) - 1 = i /\ (i = 0 => i + 1 = 1)
    BY <1>2, <1>6
  <2> QED
    BY <1>2, <1>4, <1>6, <2>1
<1> HIDE DEF Good
<1>7. \A i \in 0..Len(ms) : i \in Good
  BY <1>2, <1>5, <1>6, NumberInduction
<1>8. \A i \in 1..Len(ms) : Right(i)
  BY <1>2, <1>7 DEF Good
<1> QED
  BY <1>3, <1>8 DEF Right

\* The makers after the match: those that are not done have lost what was taken,
\* and the orders of the taker's own side are as they were.
LEMMA TradedMakers ==
    ASSUME NEW b, NEW os, NEW id, NEW order, NEW ms, Arrival(b, os, id, order, ms),
           NEW new, DOMAIN new \subseteq {id},
           NEW x \in DOMAIN os \ DoneMakers(ms)
    PROVE  LET ns == TradedOrders(os, ms, new)
           IN  /\ x \notin DOMAIN new
               /\ GoodOrder(ns[x]) /\ SameOrder(os[x], ns[x])
               /\ ns[x].resd = os[x].resd - TakenOf(ms, Len(ms), x)
               /\ x \in OnSide(os, order.side) => ns[x] = os[x]
<1> DEFINE ns == TradedOrders(os, ms, new)
           Hit == \E i \in 1..Len(ms) : ms[i].id = x
           j == CHOOSE i \in 1..Len(ms) : ms[i].id = x
<1>1. DOMAIN ms = 1..Len(ms)
  <2>1. PICK s : s = b[Opposite(order.side)]
    OBVIOUS
  <2>2. Meets(order, s, os, ms)
    BY <2>1, ArrivalMeets
  <2>3. ms = [i \in 1..Len(ms) |-> ms[i]]
    BY <2>2 DEF Meets, MatchesFit
  <2> QED
    BY <2>3
<1>2. x \notin DOMAIN new
  <2>1. id \in Nat /\ DOMAIN os \subseteq 1..(id - 1)
    BY DEF Arrival, GoodOrders
  <2>2. id \notin 1..(id - 1)
    BY <2>1
  <2> QED
    BY <2>1, <2>2
<1>3. ns[x] = IF Hit THEN TradeLots(os[x], ms[j].lots, ms[j].lots * ms[j].ticks)
              ELSE os[x]
  BY <1>1, <1>2 DEF TradedOrders
<1>4. TakenOf(ms, Len(ms), x) = IF Hit THEN ms[j].lots ELSE 0
  BY DEF TakenOf
<1>5. GoodOrder(os[x])
  BY DEF Arrival, GoodOrders
<1>6. os[x].resd \in Nat
  BY <1>5, OrderFields DEF GoodOrder
<1>7. CASE Hit
  <2>1. j \in 1..Len(ms) /\ ms[j].id = x
    BY <1>7
  <2> HIDE DEF j
  <2>2. /\ x \in OnSide(os, Opposite(order.side))
        /\ ms[j].maker = os[x]
        /\ ms[j].lots \in Nat /\ ms[j].lots =< os[x].resd
        /\ ms[j].lots * ms[j].ticks \in Nat
        /\ ms[j].lots * ms[j].ticks =< ms[j].lots * MaxTicks
    BY <2>1, MakerIs
  <2>3. ms[j].lots < os[x].resd
    <3>1. ms[j].lots # ms[j].maker.resd
      BY <1>1, <2>1 DEF DoneMakers
    <3> QED
      BY <1>6, <2>2, <3>1
  <2>4. PICK lots \in Nat, paid \in Nat :
            lots = ms[j].lots /\ paid = ms[j].lots * ms[j].ticks
    BY <2>2
  <2>5. lots =< os[x].resd /\ lots < os[x].resd /\ paid =< lots * MaxTicks
    BY <2>2, <2>3, <2>4
  <2>6. /\ TradeLots(os[x], lots, paid).resd = os[x].resd - lots
        /\ SameOrder(os[x], TradeLots(os[x], lots, paid))
        /\ GoodOrder(TradeLots(os[x], lots, paid))
    BY <1>5, <2>5, TradedOrder
  <2>7. ns[x] = TradeLots(os[x], lots, paid) /\ TakenOf(ms, Len(ms), x) = lots
    BY <1>3, <1>4, <1>7, <2>4
  <2>8. x \notin OnSide(os, order.side)
    <3>1. order.side \in Sides /\ Opposite(order.side) # order.side
      BY ArrivalMeets, SidesAre
    <3> QED
      BY <2>2, <3>1 DEF OnSide
  <2> QED
    BY <1>2, <2>6, <2>7, <2>8
<1>8. CASE ~Hit
  <2>1. ns[x] = os[x] /\ TakenOf(ms, Len(ms), x) = 0
    BY <1>3, <1>4, <1>8
  <2>2. SameOrder(os[x], os[x])
    BY DEF SameOrder
  <2> QED
    BY <1>2, <1>5, <1>6, <2>1, <2>2
<1> QED
  BY <1>7, <1>8

\* What is left of the taker.
LEMMA RestIs ==
    ASSUME NEW b, NEW os, NEW id, NEW order, NEW ms, Arrival(b, os, id, order, ms)
    PROVE  LET rest == AfterMatches(order, ms)
           IN  /\ Total(ms) \in Nat /\ Total(ms) =< order.resd
               /\ rest.resd = order.resd - Total(ms)
               /\ SameOrder(order, rest)
               /\ Done(rest) <=> Total(ms) = order.resd
               /\ ~Done(rest) => GoodOrder(rest)
<1>1. PICK rest : rest = AfterMatches(order, ms)
  OBVIOUS
<1>2. GoodOrder(order) /\ order.resd \in Nat
  <2>1. GoodOrder(order)
    BY DEF Arrival
  <2> QED
    BY <2>1, OrderFields DEF GoodOrder
<1>3. PICK n \in Nat : n = Len(ms)
  <2>1. PICK s : s = b[Opposite(order.side)]
    OBVIOUS
  <2>2. MatchesFit(order, s.list, os, ms) /\ Offered(s.list, os)
    BY <2>1, ArrivalMeets DEF Meets
  <2> QED
    BY <2>2 DEF MatchesFit, Offered
<1>4. CASE n = 0
  <2>1. ms = <<>>
    <3>1. PICK s : s = b[Opposite(order.side)]
      OBVIOUS
    <3>2. ms = [i \in 1..Len(ms) |-> ms[i]]
      BY <3>1, ArrivalMeets DEF Meets, MatchesFit
    <3>3. ms = [i \in 1..0 |-> ms[i]]
      BY <1>3, <1>4, <3>2
    <3> QED
      BY <3>3
  <2>2. rest = order /\ Total(ms) = 0
    BY <1>1, <1>3, <1>4, <2>1 DEF AfterMatches, Total
  <2>3. SameOrder(order, order)
    BY DEF SameOrder
  <2> QED
    BY <1>1, <1>2, <2>2, <2>3 DEF Done
<1>5. CASE n # 0
  <2>1. n \in 1..Len(ms)
    BY <1>3, <1>5
  <2>2. PICK lots \in Nat, paid \in Nat :
            /\ lots = ms[n].sumLots /\ paid = ms[n].sumCost
            /\ lots =< order.resd /\ paid =< lots * MaxTicks
    BY <2>1, SumCostBound
  <2>3. ms # <<>> /\ Last(ms) = ms[n] /\ Total(ms) = lots
    BY <1>3, <1>5, <2>2 DEF Last, Total
  <2>4. rest = TradeLots(order, lots, paid)
    BY <1>1, <2>2, <2>3 DEF AfterMatches
  <2>5. /\ rest.resd = order.resd - lots
        /\ SameOrder(order, rest)
        /\ lots < order.resd => GoodOrder(rest)
    BY <1>2, <2>2, <2>4, TradedOrder
  <2> QED
    BY <1>1, <1>2, <2>2, <2>3, <2>5 DEF Done
<1> QED
  BY <1>4, <1>5

\* What is left of a taker crosses no order that is left on the opposite side:
\* the loop only stops at a price that does not cross, at the end of the list, or
\* when the taker is done.
LEMMA RestUncrossed ==
    ASSUME NEW b, NEW os, NEW id, NEW order, NEW ms, Arrival(b, os, id, order, ms),
           Total(ms) < order.resd,
           NEW x \in OnSide(os, Opposite(order.side)) \ DoneMakers(ms)
    PROVE  ~Crosses(order, os[x])
<1>1. PICK s : s = b[Opposite(order.side)]
  OBVIOUS
<1>2. /\ order.side \in Sides /\ order.resd \in Nat
      /\ ToSet(s.list) = OnSide(os, Opposite(order.side))
      /\ Meets(order, s, os, ms)
  BY <1>1, ArrivalMeets
<1>3. PICK list \in Seq(Nat) : list = s.list
  BY <1>2 DEF Meets, Offered
<1>4. /\ DOMAIN list = 1..Len(list) /\ Len(list) \in Nat
      /\ \A i \in DOMAIN list : list[i] \in ToSet(list)
      /\ \A y \in ToSet(list) : \E i \in DOMAIN list : y = list[i]
  BY OnList
<1>5. MatchesFit(order, list, os, ms) /\ InOrder(list, os)
      /\ ToSet(list) = OnSide(os, Opposite(order.side))
  BY <1>2, <1>3 DEF Meets, BookSide
<1>6. PICK n \in Nat : n = Len(ms) /\ n =< Len(list)
  BY <1>4, <1>5 DEF MatchesFit
<1>7. PICK j \in 1..Len(list) : x = list[j]
  BY <1>4, <1>5
<1>8. ~(j =< n)
  <2> SUFFICES ASSUME j =< n
               PROVE  FALSE
    OBVIOUS
  <2>1. j \in 1..Len(ms)
    BY <1>6
  <2>2. MatchFits(order, list, os, ms, j)
    BY <1>5, <2>1 DEF MatchesFit
  <2>3. ms[j].sumLots < order.resd
    <3>1. CASE j < Len(ms)
      BY <2>2, <3>1 DEF MatchFits
    <3>2. CASE j = Len(ms)
      <4>1. Total(ms) = ms[j].sumLots
        BY <1>6, <2>1, <3>2 DEF Total
      <4> QED
        BY <4>1
    <3> QED
      BY <1>6, <3>1, <3>2
  <2>4. ms[j].id = x /\ ms[j].lots = ms[j].maker.resd
    BY <1>7, <2>2, <2>3 DEF MatchFits
  <2>5. DOMAIN ms = 1..Len(ms)
    <3>1. ms = [i \in 1..Len(ms) |-> ms[i]]
      BY <1>5 DEF MatchesFit
    <3> QED
      BY <3>1
  <2> QED
    BY <2>1, <2>4, <2>5 DEF DoneMakers
<1>9. PICK y : y = list[n + 1]
  OBVIOUS
<1>10. n + 1 \in DOMAIN list /\ j \in DOMAIN list /\ (n + 1 = j \/ n + 1 < j)
  BY <1>4, <1>6, <1>8
<1>11. ~Crosses(order, os[y]) /\ y \in ToSet(list)
  BY <1>4, <1>5, <1>6, <1>9, <1>10 DEF MatchesFit
<1>12. LevelKey(os[y]) =< LevelKey(os[x])
  <2>1. LevelKey(os[x]) \in Int
    <3>1. x \in ToSet(list) /\ Priced(ToSet(list), os)
      BY <1>2, <1>3, <1>5 DEF Meets, BookSide
    <3> QED
      BY <3>1 DEF Priced
  <2>2. CASE n + 1 = j
    BY <1>7, <1>9, <2>1, <2>2
  <2>3. CASE n + 1 < j
    <3>1. Before(os, y, x)
      BY <1>5, <1>7, <1>9, <1>10, <2>3 DEF InOrder
    <3>2. LevelKey(os[y]) \in Int
      <4>1. Priced(ToSet(list), os)
        BY <1>2, <1>3 DEF Meets, BookSide
      <4> QED
        BY <1>11, <4>1 DEF Priced
    <3> QED
      BY <2>1, <3>1, <3>2 DEF Before
  <2> QED
    BY <1>10, <2>2, <2>3
<1>13. /\ os[x].side = Opposite(order.side) /\ os[y].side = Opposite(order.side)
       /\ x \in DOMAIN os /\ y \in DOMAIN os
  BY <1>5, <1>11 DEF OnSide
<1>14. os[x].ticks \in Nat /\ os[y].ticks \in Nat /\ order.ticks \in Nat
  <2>1. GoodOrder(os[x]) /\ GoodOrder(os[y]) /\ GoodOrder(order)
    BY <1>13 DEF Arrival, GoodOrders
  <2> QED
    BY <2>1, OrderFields DEF GoodOrder
<1>15. CASE order.side = "Buy"
  BY <1>11, <1>12, <1>13, <1>14, <1>15 DEF Crosses, LevelKey, Opposite
<1>16. CASE order.side = "Sell"
  BY <1>11, <1>12, <1>13, <1>14, <1>16 DEF Crosses, LevelKey, Opposite
<1> QED
  BY <1>2, <1>15, <1>16 DEF Sides

\* What stays of a new order, by its id.
Rest(id, order, ms) ==
    IF Done(AfterMatches(order, ms)) THEN <<>>
    ELSE Put(<<>>, id, AfterMatches(order, ms))

\* The market's orders after the new order, "ns", and its sides, "nb".
Arrived(b, os, id, order, ms, nb, ns) ==
    /\ Arrival(b, os, id, order, ms)
    /\ ns = TradedOrders(os, ms, Rest(id, order, ms))
    /\ nb = [b EXCEPT
        ![order.side] = IF Done(AfterMatches(order, ms)) THEN @
                        ELSE InsertOrder(@, id, AfterMatches(order, ms)),
        ![Opposite(order.side)] = TakeMakers(@, ms)]

\* The rest of an order is that order or nothing.
LEMMA RestDomain ==
    ASSUME NEW id, NEW order, NEW ms
    PROVE  /\ DOMAIN Rest(id, order, ms)
                = IF Done(AfterMatches(order, ms)) THEN {} ELSE {id}
           /\ \A x \in DOMAIN Rest(id, order, ms) :
                Rest(id, order, ms)[x] = AfterMatches(order, ms)
BY DEF Rest, Put

\* Which orders the market has then, and what they are: ns come from os, and new
\* is what stays of the new order.
ArrivedFrom(os, id, order, ms, new, ns) ==
    /\ DOMAIN ns = (DOMAIN os \ DoneMakers(ms)) \union DOMAIN new
    /\ DoneMakers(ms) \subseteq OnSide(os, Opposite(order.side))
    /\ id \notin DOMAIN os
    /\ DOMAIN new = IF Done(AfterMatches(order, ms)) THEN {} ELSE {id}
    /\ \A x \in DOMAIN os \ DoneMakers(ms) :
        /\ x # id /\ GoodOrder(ns[x]) /\ SameOrder(os[x], ns[x])
        /\ ns[x].resd = os[x].resd - TakenOf(ms, Len(ms), x)
        /\ x \in OnSide(os, order.side) => ns[x] = os[x]
    /\ \A x \in DOMAIN new :
        /\ x = id /\ ns[x] = AfterMatches(order, ms) /\ new[x] = ns[x]
        /\ ~Done(AfterMatches(order, ms))
        /\ GoodOrder(ns[x]) /\ SameOrder(order, ns[x])
        /\ Total(ms) < order.resd

\* Committing an order leaves the market with the orders that remain of it and of
\* its makers (commit_order, commit_matches).
LEMMA ArrivedOrders ==
    ASSUME NEW b, NEW os, NEW id, NEW order, NEW ms, NEW nb, NEW ns,
           Arrived(b, os, id, order, ms, nb, ns)
    PROVE  ArrivedFrom(os, id, order, ms, Rest(id, order, ms), ns)
<1>1. PICK new : new = Rest(id, order, ms)
  OBVIOUS
<1>2. Arrival(b, os, id, order, ms) /\ ns = TradedOrders(os, ms, new)
  BY <1>1 DEF Arrived
<1>3. DOMAIN new \subseteq {id}
  BY <1>1, RestDomain
<1>4. DOMAIN ns = (DOMAIN os \ DoneMakers(ms)) \union DOMAIN new
  BY <1>2 DEF TradedOrders
<1>5. id \notin DOMAIN os
  <2>1. id \in Nat /\ DOMAIN os \subseteq 1..(id - 1)
    BY <1>2 DEF Arrival, GoodOrders
  <2>2. id \notin 1..(id - 1)
    BY <2>1
  <2> QED
    BY <2>1, <2>2
<1>6. DoneMakers(ms) \subseteq OnSide(os, Opposite(order.side))
  <2>1. DOMAIN ms = 1..Len(ms)
    <3>1. PICK s : s = b[Opposite(order.side)]
      OBVIOUS
    <3>2. Meets(order, s, os, ms)
      BY <1>2, <3>1, ArrivalMeets
    <3>3. ms = [i \in 1..Len(ms) |-> ms[i]]
      BY <3>2 DEF Meets, MatchesFit
    <3> QED
      BY <3>3
  <2>2. \A i \in 1..Len(ms) : ms[i].id \in OnSide(os, Opposite(order.side))
    BY <1>2, MakerIs
  <2> QED
    BY <2>1, <2>2 DEF DoneMakers
<1>7. ASSUME NEW x \in DOMAIN os \ DoneMakers(ms)
      PROVE  /\ GoodOrder(ns[x]) /\ SameOrder(os[x], ns[x])
             /\ ns[x].resd = os[x].resd - TakenOf(ms, Len(ms), x)
             /\ x \in OnSide(os, order.side) => ns[x] = os[x]
  BY <1>2, <1>3, TradedMakers
<1>8. ASSUME NEW x \in DOMAIN new
      PROVE  /\ x = id /\ ns[x] = AfterMatches(order, ms)
             /\ new[x] = ns[x]
             /\ ~Done(AfterMatches(order, ms))
             /\ GoodOrder(ns[x]) /\ SameOrder(order, ns[x])
             /\ Total(ms) < order.resd
  <2>1. PICK rest : rest = AfterMatches(order, ms)
    OBVIOUS
  <2>2. x = id /\ ~Done(rest) /\ new[x] = rest
    BY <1>1, <1>8, <2>1 DEF Rest, Put
  <2>3. ns[x] = rest
    BY <1>2, <2>2 DEF TradedOrders
  <2>4. /\ Total(ms) \in Nat /\ Total(ms) =< order.resd
        /\ SameOrder(order, rest)
        /\ Done(rest) <=> Total(ms) = order.resd
        /\ ~Done(rest) => GoodOrder(rest)
    BY <1>2, <2>1, RestIs
  <2>5. order.resd \in Nat
    BY <1>2, ArrivalMeets
  <2> QED
    BY <2>1, <2>2, <2>3, <2>4, <2>5
<1>9. DOMAIN new = IF Done(AfterMatches(order, ms)) THEN {} ELSE {id}
  BY <1>1, RestDomain
<1>10. ArrivedFrom(os, id, order, ms, new, ns)
  <2>1. \A x \in DOMAIN os \ DoneMakers(ms) : x # id
    BY <1>5
  <2> QED
    BY <1>4, <1>5, <1>6, <1>7, <1>8, <1>9, <2>1 DEF ArrivedFrom
<1> QED
  BY <1>1, <1>10

\* The orders of the market are right.
LEMMA ArrivedGood ==
    ASSUME NEW b, NEW os, NEW id, NEW order, NEW ms, NEW nb, NEW ns,
           Arrived(b, os, id, order, ms, nb, ns),
           NEW last \in Nat, id =< last
    PROVE  GoodOrders(ns, last)
<1>1. id \in Nat \ {0} /\ DOMAIN os \subseteq 1..(id - 1)
  BY DEF Arrived, Arrival, GoodOrders
<1>2. 1..(id - 1) \subseteq 1..last /\ id \in 1..last
  BY <1>1
<1>3. PICK new : new = Rest(id, order, ms) /\ ArrivedFrom(os, id, order, ms, new, ns)
  BY ArrivedOrders
<1>4. \A x \in DOMAIN ns : x \in 1..last /\ GoodOrder(ns[x])
  BY <1>1, <1>2, <1>3 DEF ArrivedFrom
<1> QED
  BY <1>4 DEF GoodOrders

\* No bid meets an offer.
LEMMA ArrivedUncrossed ==
    ASSUME NEW b, NEW os, NEW id, NEW order, NEW ms, NEW nb, NEW ns,
           Arrived(b, os, id, order, ms, nb, ns)
    PROVE  Uncrossed(ns)
<1>1. PICK side : side = order.side
  OBVIOUS
<1>2. /\ side \in Sides /\ Opposite(side) \in Sides /\ Opposite(side) # side
      /\ Arrival(b, os, id, order, ms) /\ GoodOrder(order)
  BY <1>1, ArrivalMeets, SidesAre DEF Arrived, Arrival
<1>3. PICK new : new = Rest(id, order, ms) /\ ArrivedFrom(os, id, order, ms, new, ns)
  BY ArrivedOrders
<1>4. ASSUME NEW x \in DOMAIN os \ DoneMakers(ms)
      PROVE  /\ ns[x].ticks = os[x].ticks /\ ns[x].side = os[x].side
             /\ os[x].ticks \in Nat
  <2>1. SameOrder(os[x], ns[x])
    BY <1>3 DEF ArrivedFrom
  <2>2. GoodOrder(os[x])
    BY <1>2 DEF Arrival, GoodOrders
  <2> QED
    BY <2>1, <2>2, OrderFields DEF SameOrder, GoodOrder
<1>5. ASSUME NEW x \in DOMAIN new
      PROVE  /\ ns[x].ticks = order.ticks /\ ns[x].side = side
             /\ order.ticks \in Nat /\ Total(ms) < order.resd
  <2>1. SameOrder(order, ns[x]) /\ Total(ms) < order.resd
    BY <1>3 DEF ArrivedFrom
  <2> QED
    BY <1>1, <1>2, <2>1, OrderFields DEF SameOrder, GoodOrder
<1>6. DOMAIN ns = (DOMAIN os \ DoneMakers(ms)) \union DOMAIN new
  BY <1>3 DEF ArrivedFrom
<1>7. ASSUME NEW x \in DOMAIN os \ DoneMakers(ms), NEW y \in DOMAIN new,
             ns[x].side = Opposite(side)
      PROVE  ~Crosses(order, os[x])
  <2>1. x \in OnSide(os, Opposite(side)) \ DoneMakers(ms)
    BY <1>4, <1>7 DEF OnSide
  <2>2. Total(ms) < order.resd
    BY <1>5
  <2> QED
    BY <1>1, <1>2, <2>1, <2>2, RestUncrossed
<1>8. ASSUME NEW x \in OnSide(ns, "Buy"), NEW y \in OnSide(ns, "Sell")
      PROVE  ns[x].ticks < ns[y].ticks
  <2>1. x \in DOMAIN ns /\ y \in DOMAIN ns /\ ns[x].side = "Buy" /\ ns[y].side = "Sell"
    BY DEF OnSide
  <2>2. CASE x \in DOMAIN os \ DoneMakers(ms) /\ y \in DOMAIN os \ DoneMakers(ms)
    <3>1. x \in OnSide(os, "Buy") /\ y \in OnSide(os, "Sell")
      BY <1>4, <2>1, <2>2 DEF OnSide
    <3>2. os[x].ticks < os[y].ticks
      BY <1>2, <3>1 DEF Arrival, Uncrossed
    <3> QED
      BY <1>4, <2>2, <3>2
  <2>3. CASE x \in DOMAIN new /\ y \in DOMAIN os \ DoneMakers(ms)
    <3>1. side = "Buy" /\ ns[x].ticks = order.ticks
      BY <1>5, <2>1, <2>3
    <3>2. ~Crosses(order, os[y])
      BY <1>7, <2>1, <2>3, <3>1 DEF Opposite
    <3> QED
      BY <1>1, <1>4, <1>5, <2>3, <3>1, <3>2 DEF Crosses
  <2>4. CASE y \in DOMAIN new /\ x \in DOMAIN os \ DoneMakers(ms)
    <3>1. side = "Sell" /\ ns[y].ticks = order.ticks
      BY <1>5, <2>1, <2>4
    <3>2. ~Crosses(order, os[x])
      BY <1>7, <2>1, <2>4, <3>1 DEF Opposite
    <3> QED
      BY <1>1, <1>4, <1>5, <2>4, <3>1, <3>2 DEF Crosses
  <2>5. ~(x \in DOMAIN new /\ y \in DOMAIN new)
    <3>1. ASSUME x \in DOMAIN new /\ y \in DOMAIN new
          PROVE  FALSE
      BY <1>5, <2>1, <3>1
    <3> QED
      BY <3>1
  <2> QED
    BY <1>6, <2>1, <2>2, <2>3, <2>4, <2>5
<1> QED
  BY <1>8 DEF Uncrossed

\* The side of the new order has it, and is otherwise as it was.
LEMMA ArrivedOwnSide ==
    ASSUME NEW b, NEW os, NEW id, NEW order, NEW ms, NEW nb, NEW ns,
           Arrived(b, os, id, order, ms, nb, ns)
    PROVE  /\ BookSide(nb[order.side], ns)
           /\ ToSet(nb[order.side].list) = OnSide(ns, order.side)
<1>1. PICK side, rest : side = order.side /\ rest = AfterMatches(order, ms)
  OBVIOUS
<1>2. PICK s : s = b[side]
  OBVIOUS
<1>3. /\ side \in Sides /\ Opposite(side) # side /\ Opposite(side) \in Sides
      /\ Arrival(b, os, id, order, ms) /\ GoodOrder(order)
  BY <1>1, ArrivalMeets, SidesAre DEF Arrived, Arrival
<1>4. b = [t \in Sides |-> b[t]] /\ BookSide(s, os) /\ ToSet(s.list) = OnSide(os, side)
  BY <1>2, <1>3 DEF Arrival, GoodBook
<1>5. nb[side] = IF Done(rest) THEN s ELSE InsertOrder(s, id, rest)
  <2>1. DOMAIN b = Sides
    BY <1>4
  <2> QED
    BY <1>1, <1>2, <1>3, <2>1 DEF Arrived
<1>6. PICK new : new = Rest(id, order, ms) /\ ArrivedFrom(os, id, order, ms, new, ns)
  BY ArrivedOrders
<1>7. OnSide(os, side) \cap DoneMakers(ms) = {}
  BY <1>1, <1>3, <1>6 DEF ArrivedFrom, OnSide
<1>8. ASSUME NEW x \in OnSide(os, side)
      PROVE  x \in DOMAIN ns /\ ns[x] = os[x] /\ x # id /\ x < id /\ x \in Nat
  <2>1. x \in DOMAIN os \ DoneMakers(ms)
    BY <1>7 DEF OnSide
  <2>2. x \in DOMAIN ns /\ ns[x] = os[x] /\ x # id
    BY <1>1, <1>6, <2>1 DEF ArrivedFrom
  <2>3. x \in 1..(id - 1) /\ id \in Nat
    BY <1>3, <2>1 DEF Arrival, GoodOrders
  <2> QED
    BY <2>2, <2>3
<1>9. Agree(OnSide(os, side), os, ns)
  BY <1>8 DEF Agree
<1>10. OnSide(ns, side) = OnSide(os, side) \union DOMAIN new
  <2>1. ASSUME NEW x \in OnSide(ns, side), x \notin DOMAIN new
        PROVE  x \in OnSide(os, side)
    <3>1. x \in DOMAIN os \ DoneMakers(ms) /\ ns[x].side = side
      BY <1>6, <2>1 DEF ArrivedFrom, OnSide
    <3>2. ns[x].side = os[x].side
      BY <1>6, <3>1 DEF ArrivedFrom, SameOrder
    <3> QED
      BY <3>1, <3>2 DEF OnSide
  <2>2. ASSUME NEW x \in DOMAIN new
        PROVE  x \in OnSide(ns, side)
    <3>1. x \in DOMAIN ns /\ ns[x].side = order.side
      BY <1>6 DEF ArrivedFrom, SameOrder
    <3> QED
      BY <1>1, <3>1 DEF OnSide
  <2>3. \A x \in OnSide(os, side) : x \in OnSide(ns, side)
    BY <1>8 DEF OnSide
  <2> QED
    BY <2>1, <2>2, <2>3
<1>11. CASE Done(rest)
  <2>1. DOMAIN new = {}
    BY <1>1, <1>6, <1>11 DEF ArrivedFrom
  <2>2. BookSide(s, os) /\ Agree(ToSet(s.list), os, ns)
    BY <1>4, <1>9
  <2>3. BookSide(s, ns)
    BY ONLY <2>2, AgreeKeeps
  <2> QED
    BY <1>1, <1>4, <1>5, <1>10, <1>11, <2>1, <2>3
<1>12. CASE ~Done(rest)
  <2>1. DOMAIN new = {id}
    BY <1>1, <1>6, <1>12 DEF ArrivedFrom
  <2>2. ns[id] = rest /\ GoodOrder(ns[id])
    BY <1>1, <1>6, <2>1 DEF ArrivedFrom
  <2>3. id \in Nat /\ LevelKey(ns[id]) \in Int /\ ns[id].resd \in Nat
    BY <1>3, <2>2, OrderFields DEF Arrival, GoodOrder
  <2>4. Arrives(ToSet(s.list), os, id, ns, rest)
    <3>1. Priced({id}, ns)
      BY <2>3 DEF Priced
    <3> QED
      BY <1>4, <1>8, <1>9, <2>2, <2>3, <3>1 DEF Arrives
  <2>5. BookSide(s, os)
    BY <1>4
  <2>6. PICK u : u = InsertOrder(s, id, rest)
    OBVIOUS
  <2>7. BookSide(u, ns) /\ ToSet(u.list) = ToSet(s.list) \union {id}
    BY ONLY <2>4, <2>5, <2>6, InsertOrderKeeps
  <2> QED
    BY <1>1, <1>4, <1>5, <1>10, <1>12, <2>1, <2>6, <2>7
<1> QED
  BY <1>11, <1>12

\* The opposite side has lost what the new order took.
LEMMA ArrivedOtherSide ==
    ASSUME NEW b, NEW os, NEW id, NEW order, NEW ms, NEW nb, NEW ns,
           Arrived(b, os, id, order, ms, nb, ns)
    PROVE  /\ BookSide(nb[Opposite(order.side)], ns)
           /\ ToSet(nb[Opposite(order.side)].list) = OnSide(ns, Opposite(order.side))
<1>1. PICK side : side = Opposite(order.side)
  OBVIOUS
<1>2. PICK s : s = b[side]
  OBVIOUS
<1>3. /\ side \in Sides /\ order.side # side /\ order.side \in Sides
      /\ Arrival(b, os, id, order, ms)
  BY <1>1, ArrivalMeets, SidesAre DEF Arrived
<1>4. b = [t \in Sides |-> b[t]] /\ ToSet(s.list) = OnSide(os, side)
      /\ Meets(order, s, os, ms)
  BY <1>1, <1>2, <1>3, ArrivalMeets DEF Arrival, GoodBook
<1>5. nb[side] = TakeMakers(s, ms)
  <2>1. DOMAIN b = Sides
    BY <1>4
  <2> QED
    BY <1>1, <1>2, <1>3, <2>1 DEF Arrived
<1>6. PICK new : new = Rest(id, order, ms) /\ ArrivedFrom(os, id, order, ms, new, ns)
  BY ArrivedOrders
<1>7. LeftOf(s, os, ms, ns)
  <2>1. ASSUME NEW x \in ToSet(s.list) \ DoneMakers(ms)
        PROVE  LevelKey(ns[x]) = LevelKey(os[x])
               /\ ns[x].resd = os[x].resd - TakenOf(ms, Len(ms), x)
    <3>1. x \in DOMAIN os \ DoneMakers(ms)
      BY <1>4 DEF OnSide
    <3> QED
      BY <1>6, <3>1 DEF ArrivedFrom, SameOrder
  <2> QED
    BY <2>1 DEF LeftOf
<1>8. /\ BookSide(TakeMakers(s, ms), ns)
      /\ ToSet(TakeMakers(s, ms).list) = ToSet(s.list) \ DoneMakers(ms)
  <2>1. Meets(order, s, os, ms)
    BY <1>4
  <2> QED
    BY ONLY <1>7, <2>1, TakeMakersKeeps
<1>9. OnSide(ns, side) = OnSide(os, side) \ DoneMakers(ms)
  <2>1. ASSUME NEW x \in OnSide(ns, side)
        PROVE  x \in OnSide(os, side) \ DoneMakers(ms)
    <3>1. x \in DOMAIN ns /\ ns[x].side = side
      BY DEF OnSide
    <3>2. x \notin DOMAIN new
      BY <1>3, <1>6, <3>1 DEF ArrivedFrom, SameOrder
    <3>3. x \in DOMAIN os \ DoneMakers(ms)
      BY <1>6, <3>1, <3>2 DEF ArrivedFrom
    <3>4. ns[x].side = os[x].side
      BY <1>6, <3>3 DEF ArrivedFrom, SameOrder
    <3> QED
      BY <3>1, <3>3, <3>4 DEF OnSide
  <2>2. ASSUME NEW x \in OnSide(os, side) \ DoneMakers(ms)
        PROVE  x \in OnSide(ns, side)
    <3>1. x \in DOMAIN os \ DoneMakers(ms) /\ os[x].side = side
      BY DEF OnSide
    <3>2. x \in DOMAIN ns /\ ns[x].side = os[x].side
      BY <1>6, <3>1 DEF ArrivedFrom, SameOrder
    <3> QED
      BY <3>1, <3>2 DEF OnSide
  <2> QED
    BY <2>1, <2>2
<1> QED
  BY <1>1, <1>4, <1>5, <1>8, <1>9

\* What commit_matches and the insertion of the new order keep true of a market.
LEMMA ArrivedMarket ==
    ASSUME NEW b, NEW os, NEW id, NEW order, NEW ms, NEW nb, NEW ns,
           Arrived(b, os, id, order, ms, nb, ns),
           NEW market \in Market, id =< market.maxId
    PROVE  GoodMarket(market, nb, ns)
<1>1. id \in Nat /\ market.maxId \in Nat
  <2>1. \A n \in Nat : 0..n \subseteq Nat
    OBVIOUS
  <2> QED
    BY <2>1, EngineAssumption DEF Market, Arrived, Arrival
<1>2. GoodOrders(ns, market.maxId)
  BY <1>1, ArrivedGood
<1>3. Uncrossed(ns)
  BY ArrivedUncrossed
<1>4. order.side \in Sides
  BY ArrivalMeets DEF Arrived
<1>5. \A s \in Sides : BookSide(nb[s], ns) /\ ToSet(nb[s].list) = OnSide(ns, s)
  <2>1. \A s \in Sides : s = order.side \/ s = Opposite(order.side)
    BY <1>4, SidesAre
  <2> QED
    BY <2>1, ArrivedOwnSide, ArrivedOtherSide
<1>6. nb = [s \in Sides |-> nb[s]]
  <2>1. b = [s \in Sides |-> b[s]]
    BY DEF Arrived, Arrival, GoodBook
  <2>2. DOMAIN b = Sides
    BY <2>1
  <2> QED
    BY <2>2 DEF Arrived
<1>7. GoodBook(nb, ns)
  BY <1>5, <1>6 DEF GoodBook
<1> QED
  BY <1>2, <1>3, <1>7 DEF GoodMarket

-----------------------------------------------------------------------------
(* What a change to a list of orders does to their market. *)

\* reduce_level takes delta off an order of the side s, which is t then; the order
\* is os[id] before and ns[id] then.
Reduces(s, os, id, order, delta, t, ns) ==
    /\ t = ReduceLevel(s, id, order, delta)
    /\ BookSide(s, os)
    /\ id \in ToSet(s.list)
    /\ Agree(ToSet(s.list) \ {id}, os, ns)
    /\ LevelKey(order) = LevelKey(os[id])
    /\ delta \in Nat /\ order.resd \in Nat
    /\ delta >= order.resd => order.resd = os[id].resd
    /\ delta < order.resd => /\ LevelKey(ns[id]) = LevelKey(os[id])
                             /\ ns[id].resd \in Nat
                             /\ ns[id].resd = os[id].resd - delta

\* Either it is reduced, or it goes.
ReducedTo(s, id, order, delta, t, ns) ==
    /\ BookSide(t, ns)
    /\ ToSet(t.list) = IF delta < order.resd THEN ToSet(s.list)
                       ELSE ToSet(s.list) \ {id}

\* reduce_level on one entry keeps the side right.
LEMMA ReducedSide ==
    ASSUME NEW s, NEW os, NEW id, NEW order, NEW delta, NEW t, NEW ns,
           Reduces(s, os, id, order, delta, t, ns)
    PROVE  ReducedTo(s, id, order, delta, t, ns)
<1>1. t = ReduceLevel(s, id, order, delta)
  BY DEF Reduces
<1>2. /\ BookSide(s, os) /\ id \in ToSet(s.list) /\ Agree(ToSet(s.list) \ {id}, os, ns)
      /\ LevelKey(order) = LevelKey(os[id]) /\ delta \in Nat /\ order.resd \in Nat
  BY DEF Reduces
<1>3. CASE delta < order.resd
  <2>1. OneChanged(ToSet(s.list), os, id, ns)
    BY <1>2, <1>3 DEF Reduces, OneChanged
  <2>2. ns[id].resd = os[id].resd - delta
    BY <1>3 DEF Reduces
  <2>3. BookSide(t, ns) /\ t.list = s.list
    BY ONLY <1>1, <1>2, <1>3, <2>1, <2>2, ReduceLevelKeeps
  <2> QED
    BY <1>1, <1>3, <2>3 DEF ReducedTo
<1>4. CASE ~(delta < order.resd)
  <2>1. t = RemoveOrder(s, id, order)
    BY <1>1, <1>4 DEF ReduceLevel
  <2>2. order.resd = os[id].resd
    BY <1>2, <1>4 DEF Reduces
  <2>3. Leaves(ToSet(s.list), os, id, ns, order)
    BY <1>2, <2>2 DEF Leaves
  <2>4. BookSide(s, os)
    BY <1>2
  <2>5. BookSide(t, ns) /\ ToSet(t.list) = ToSet(s.list) \ {id}
    BY ONLY <2>1, <2>3, <2>4, RemoveOrderKeeps
  <2> QED
    BY <1>1, <1>4, <2>5 DEF ReducedTo
<1> QED
  BY <1>3, <1>4

\* What the k-th entry takes.
TakenBy(os, ids, after, k) ==
    IF FirstEntry(ids, k) THEN os[ids[k]].resd - after[ids[k]].resd ELSE 0

ReduceOne(b, os, ids, after, k) ==
    [b EXCEPT ![os[ids[k]].side] =
        ReduceLevel(@, ids[k], os[ids[k]], TakenBy(os, ids, after, k))]

\* The recursive function behind ReduceOrders.
IsReduced(f, n, b, os, ids, after) ==
    f = [k \in 0..n |-> IF k = 0 THEN b
                        ELSE ReduceOne(f[k - 1], os, ids, after, k)]

\* The commit phase gets to the end of the list.
LEMMA ReducedExists ==
    ASSUME NEW b, NEW os, NEW ids, NEW after, NEW n \in Nat
    PROVE  \E f : IsReduced(f, n, b, os, ids, after)
<1> DEFINE Good == {i \in Nat : \E f : IsReduced(f, i, b, os, ids, after)}
           g(i, t) == ReduceOne(t, os, ids, after, i)
<1> HIDE DEF g
<1>1. \A f, i : IsReduced(f, i, b, os, ids, after)
                    <=> f = [k \in 0..i |-> IF k = 0 THEN b ELSE g(k, f[k - 1])]
  BY DEF IsReduced, g
<1>2. 0 \in Good
  <2>1. PICK f : f = [k \in 0..0 |-> b]
    OBVIOUS
  <2>2. f = [k \in 0..0 |-> IF k = 0 THEN b ELSE g(k, f[k - 1])]
    BY <2>1
  <2> QED
    BY <1>1, <2>2
<1>3. ASSUME NEW i \in Nat, i \in Good
      PROVE  i + 1 \in Good
  <2>1. PICK f : f = [k \in 0..i |-> IF k = 0 THEN b ELSE g(k, f[k - 1])]
    BY <1>1, <1>3
  <2>2. PICK h : h = [k \in 0..(i + 1) |-> IF k = i + 1 THEN g(i + 1, f[i]) ELSE f[k]]
    OBVIOUS
  <2>3. DOMAIN h = 0..(i + 1) /\ h[i + 1] = g(i + 1, f[i])
        /\ \A k \in 0..i : h[k] = f[k]
    BY <2>2
  <2>4. ASSUME NEW k \in 0..(i + 1)
        PROVE  h[k] = IF k = 0 THEN b ELSE g(k, h[k - 1])
    <3>1. CASE k = i + 1
      <4>1. k - 1 = i /\ k # 0 /\ h[i] = f[i]
        BY <2>3, <3>1
      <4> QED
        BY <2>3, <3>1, <4>1
    <3>2. CASE k # i + 1
      <4>1. k \in 0..i
        BY <3>2
      <4>2. k # 0 => k - 1 \in 0..i
        BY <4>1
      <4>3. f[k] = IF k = 0 THEN b ELSE g(k, f[k - 1])
        BY <2>1, <4>1
      <4> QED
        BY <2>3, <4>1, <4>2, <4>3
    <3> QED
      BY <3>1, <3>2
  <2>5. h = [k \in 0..(i + 1) |-> h[k]]
    BY <2>2
  <2>6. h = [k \in 0..(i + 1) |-> IF k = 0 THEN b ELSE g(k, h[k - 1])]
    BY <2>4, <2>5
  <2>7. IsReduced(h, i + 1, b, os, ids, after)
    BY <2>6 DEF IsReduced, g
  <2> HIDE DEF IsReduced
  <2> QED
    BY <2>7
<1> HIDE DEF Good
<1>4. n \in Good
  BY <1>2, <1>3, NumberInduction
<1> QED
  BY <1>4 DEF Good

\* The commit phase entry by entry.
LEMMA ReduceSteps ==
    ASSUME NEW b, NEW os, NEW ids, NEW after, Len(ids) \in Nat
    PROVE  \E f : /\ f[0] = b
                  /\ \A k \in 1..Len(ids) : f[k] = ReduceOne(f[k - 1], os, ids, after, k)
                  /\ ReduceOrders(b, os, ids, after) = f[Len(ids)]
<1>1. PICK n \in Nat : n = Len(ids)
  OBVIOUS
<1>2. PICK f : f = CHOOSE g : IsReduced(g, n, b, os, ids, after)
  OBVIOUS
<1>3. IsReduced(f, n, b, os, ids, after)
  BY <1>2, ReducedExists
<1>4. ReduceOrders(b, os, ids, after) = f[n]
  BY <1>1, <1>2 DEF ReduceOrders, IsReduced, ReduceOne, TakenBy
<1>5. f[0] = b /\ \A k \in 1..n : f[k] = ReduceOne(f[k - 1], os, ids, after, k)
  <2> DEFINE g(i, t) == ReduceOne(t, os, ids, after, i)
  <2> HIDE DEF g
  <2>1. f = [k \in 0..n |-> IF k = 0 THEN b ELSE g(k, f[k - 1])]
    BY <1>3 DEF IsReduced, g
  <2>2. 0 \in 0..n /\ \A k \in 1..n : k \in 0..n /\ k # 0
    OBVIOUS
  <2>3. f[0] = b /\ \A k \in 1..n : f[k] = g(k, f[k - 1])
    BY <2>1, <2>2
  <2> QED
    BY <2>3 DEF g
<1> QED
  BY <1>1, <1>4, <1>5

\* What becomes of an order that is changed: it does not grow.
ChangesTo(old, new) ==
    /\ new.resd \in Nat /\ new.resd =< old.resd
    /\ SameOrder(old, new)
    /\ ~Done(new) => GoodOrder(new)

\* A change to each order of a list in a market with the orders os: no order is
\* changed again once it is done.
Change(b, os, last, ids, after) ==
    /\ GoodOrders(os, last) /\ Uncrossed(os) /\ GoodBook(b, os)
    /\ Len(ids) \in Nat /\ DOMAIN ids = 1..Len(ids)
    /\ \A k \in DOMAIN ids :
        /\ ids[k] \in DOMAIN os
        /\ ChangesTo(os[ids[k]], after[ids[k]])
        /\ Done(after[ids[k]]) => FirstEntry(ids, k)

\* The orders of the first k entries, those of them that are done, and what the
\* sides see of the market's orders when these entries are committed.
SeenBy(ids, k) == {ids[j] : j \in 1..k}

DoneBy(ids, after, k) == {x \in SeenBy(ids, k) : Done(after[x])}

ChangedBy(os, ids, after, k) ==
    [x \in DOMAIN os |->
        [side |-> os[x].side, ticks |-> os[x].ticks,
         resd |-> IF x \in SeenBy(ids, k) THEN after[x].resd ELSE os[x].resd]]

ReducedBook(os, ids, after, k, b) ==
    /\ b = [s \in Sides |-> b[s]]
    /\ \A s \in Sides :
        /\ BookSide(b[s], ChangedBy(os, ids, after, k))
        /\ ToSet(b[s].list) = OnSide(os, s) \ DoneBy(ids, after, k)

\* What the k-th entry adds to those before it.
EntryIs(os, ids, after, k, id, o1, o2, delta) ==
    /\ id = ids[k] /\ id \in DOMAIN os /\ GoodOrder(os[id])
    /\ os[id].side \in Sides /\ os[id].resd \in Nat \ {0}
    /\ o1 = ChangedBy(os, ids, after, k - 1) /\ o2 = ChangedBy(os, ids, after, k)
    /\ id \notin DoneBy(ids, after, k - 1)
    /\ DoneBy(ids, after, k) = DoneBy(ids, after, k - 1)
                                \union (IF Done(after[id]) THEN {id} ELSE {})
    /\ \A x \in DOMAIN os \ {id} :
        /\ LevelKey(o2[x]) = LevelKey(o1[x])
        /\ o2[x].resd = o1[x].resd
    /\ LevelKey(o1[id]) = LevelKey(os[id])
    /\ LevelKey(o2[id]) = LevelKey(os[id])
    /\ delta = TakenBy(os, ids, after, k)
    /\ delta \in Nat
    /\ delta < os[id].resd <=> ~Done(after[id])
    /\ delta >= os[id].resd => os[id].resd = o1[id].resd
    /\ o2[id].resd \in Nat /\ o2[id].resd = o1[id].resd - delta

\* Each id of a list that is revised or cancelled is that of a live order, which
\* its entry in the commit phase takes lots from.
LEMMA EntryExists ==
    ASSUME NEW b, NEW os, NEW last, NEW ids, NEW after, Change(b, os, last, ids, after),
           NEW k \in 1..Len(ids)
    PROVE  EntryIs(os, ids, after, k, ids[k], ChangedBy(os, ids, after, k - 1),
                   ChangedBy(os, ids, after, k), TakenBy(os, ids, after, k))
<1>1. PICK id : id = ids[k]
  OBVIOUS
<1>2. PICK o1 : o1 = ChangedBy(os, ids, after, k - 1)
  OBVIOUS
<1>3. PICK o2 : o2 = ChangedBy(os, ids, after, k)
  OBVIOUS
<1>4. PICK delta : delta = TakenBy(os, ids, after, k)
  OBVIOUS
<1>5. PICK left : left = after[id].resd
  OBVIOUS
<1>6. k \in DOMAIN ids /\ id \in DOMAIN os /\ ChangesTo(os[id], after[id])
      /\ (Done(after[id]) => FirstEntry(ids, k))
  BY <1>1 DEF Change
<1>7. GoodOrder(os[id])
  BY <1>6 DEF Change, GoodOrders
<1>8. os[id].side \in Sides /\ os[id].resd \in Nat \ {0}
  BY <1>7, OrderFields DEF GoodOrder
<1>9. left \in Nat /\ left =< os[id].resd /\ (Done(after[id]) <=> left = 0)
  BY <1>5, <1>6 DEF ChangesTo, Done
<1>10. SeenBy(ids, k) = SeenBy(ids, k - 1) \union {id}
  <2>1. 1..k = (1..(k - 1)) \union {k}
    OBVIOUS
  <2> QED
    BY <1>1, <2>1 DEF SeenBy
<1>11. FirstEntry(ids, k) <=> id \notin SeenBy(ids, k - 1)
  BY <1>1 DEF FirstEntry, SeenBy
<1>12. id \notin DoneBy(ids, after, k - 1)
  BY <1>6, <1>11 DEF DoneBy
<1>13. DoneBy(ids, after, k) = DoneBy(ids, after, k - 1)
                                \union (IF Done(after[id]) THEN {id} ELSE {})
  BY <1>10 DEF DoneBy
<1>14. ASSUME NEW x \in DOMAIN os \ {id}
       PROVE  LevelKey(o2[x]) = LevelKey(o1[x]) /\ o2[x].resd = o1[x].resd
  <2>1. x \in SeenBy(ids, k) <=> x \in SeenBy(ids, k - 1)
    BY <1>10
  <2>2. o2[x] = o1[x]
    BY <1>2, <1>3, <2>1 DEF ChangedBy
  <2> QED
    BY <2>2
<1>15. o2[id].resd = left
  BY <1>3, <1>5, <1>6, <1>10 DEF ChangedBy
<1>16. o1[id].resd = IF FirstEntry(ids, k) THEN os[id].resd ELSE left
  BY <1>2, <1>5, <1>6, <1>11 DEF ChangedBy
<1>17. delta = IF FirstEntry(ids, k) THEN os[id].resd - left ELSE 0
  BY <1>1, <1>4, <1>5 DEF TakenBy
<1>18. LevelKey(o1[id]) = LevelKey(os[id]) /\ LevelKey(o2[id]) = LevelKey(os[id])
  BY <1>2, <1>3, <1>6 DEF ChangedBy, LevelKey
<1>19. PICK have \in Nat \ {0} : have = os[id].resd
  BY <1>8
<1>20. /\ delta \in Nat
       /\ delta < have <=> left # 0
       /\ delta >= have => have = o1[id].resd
       /\ o2[id].resd = o1[id].resd - delta
  <2>1. CASE FirstEntry(ids, k)
    <3>1. delta = have - left /\ o1[id].resd = have /\ o2[id].resd = left /\ left =< have
      BY <1>9, <1>15, <1>16, <1>17, <1>19, <2>1
    <3> QED
      BY <1>9, <3>1
  <2>2. CASE ~FirstEntry(ids, k)
    <3>1. delta = 0 /\ o1[id].resd = left /\ o2[id].resd = left /\ left # 0
      BY <1>6, <1>9, <1>15, <1>16, <1>17, <2>2
    <3> QED
      BY <1>9, <3>1
  <2> QED
    BY <2>1, <2>2
<1>21. EntryIs(os, ids, after, k, id, o1, o2, delta)
  BY <1>1, <1>2, <1>3, <1>4, <1>6, <1>7, <1>8, <1>9, <1>12, <1>13, <1>14, <1>15,
     <1>18, <1>19, <1>20 DEF EntryIs
<1> QED
  BY <1>1, <1>2, <1>3, <1>4, <1>21

\* One entry of the commit phase.
LEMMA ReduceOneKeeps ==
    ASSUME NEW b, NEW os, NEW last, NEW ids, NEW after, Change(b, os, last, ids, after),
           NEW k \in 1..Len(ids), NEW t, ReducedBook(os, ids, after, k - 1, t)
    PROVE  ReducedBook(os, ids, after, k, ReduceOne(t, os, ids, after, k))
<1>1. PICK id : id = ids[k]
  OBVIOUS
<1>2. PICK o1 : o1 = ChangedBy(os, ids, after, k - 1)
  OBVIOUS
<1>3. PICK o2 : o2 = ChangedBy(os, ids, after, k)
  OBVIOUS
<1>4. PICK delta : delta = TakenBy(os, ids, after, k)
  OBVIOUS
<1>5. EntryIs(os, ids, after, k, id, o1, o2, delta)
  BY <1>1, <1>2, <1>3, <1>4, EntryExists
<1>6. PICK side : side = os[id].side
  OBVIOUS
<1>7. PICK new : new = ReduceOne(t, os, ids, after, k)
  OBVIOUS
<1>8. /\ side \in Sides /\ id \in OnSide(os, side)
      /\ t = [s \in Sides |-> t[s]]
      /\ \A s \in Sides : BookSide(t[s], o1)
      /\ \A s \in Sides : ToSet(t[s].list) = OnSide(os, s) \ DoneBy(ids, after, k - 1)
  BY <1>2, <1>5, <1>6 DEF EntryIs, ReducedBook, OnSide
<1>9. new = [t EXCEPT ![side] = ReduceLevel(t[side], id, os[id], delta)]
  BY <1>1, <1>4, <1>6, <1>7 DEF ReduceOne
<1>10. DOMAIN t = Sides
  BY <1>8
<1>11. new = [s \in Sides |-> new[s]]
  BY <1>9, <1>10
<1>12. ASSUME NEW s \in Sides
       PROVE  BookSide(new[s], o2) /\ ToSet(new[s].list) = OnSide(os, s) \ DoneBy(ids, after, k)
  <2>1. CASE s # side
    <3>1. new[s] = t[s]
      BY <1>9, <1>10, <2>1
    <3>2. id \notin OnSide(os, s)
      BY <1>6, <2>1 DEF OnSide
    <3>3. Agree(ToSet(t[s].list), o1, o2)
      <4>1. ToSet(t[s].list) \subseteq DOMAIN os \ {id}
        BY <1>8, <3>2 DEF OnSide
      <4> QED
        BY <1>5, <4>1 DEF EntryIs, Agree
    <3>4. BookSide(t[s], o1)
      BY <1>8
    <3>5. BookSide(t[s], o2)
      BY ONLY <3>3, <3>4, AgreeKeeps
    <3>6. OnSide(os, s) \ DoneBy(ids, after, k) = OnSide(os, s) \ DoneBy(ids, after, k - 1)
      BY <1>5, <3>2 DEF EntryIs
    <3> QED
      BY <1>8, <3>1, <3>5, <3>6
  <2>2. CASE s = side
    <3>1. new[s] = ReduceLevel(t[s], id, os[id], delta)
      BY <1>8, <1>9, <1>10, <2>2
    <3>2. id \in ToSet(t[s].list)
      BY <1>5, <1>8, <2>2 DEF EntryIs
    <3>3. Agree(ToSet(t[s].list) \ {id}, o1, o2)
      <4>1. ToSet(t[s].list) \ {id} \subseteq DOMAIN os \ {id}
        BY <1>8 DEF OnSide
      <4> QED
        BY <1>5, <4>1 DEF EntryIs, Agree
    <3>4. PICK r, order : r = t[s] /\ order = os[id]
      OBVIOUS
    <3>5. PICK u : u = ReduceLevel(r, id, order, delta)
      OBVIOUS
    <3>6. Reduces(r, o1, id, order, delta, u, o2)
      BY <1>5, <1>8, <3>2, <3>3, <3>4, <3>5 DEF EntryIs, Reduces
    <3>7. ReducedTo(r, id, order, delta, u, o2)
      BY ONLY <3>6, ReducedSide
    <3>8. OnSide(os, s) \ DoneBy(ids, after, k)
            = IF delta < os[id].resd THEN ToSet(t[s].list) ELSE ToSet(t[s].list) \ {id}
      BY <1>5, <1>8 DEF EntryIs
    <3> QED
      BY <3>1, <3>4, <3>5, <3>7, <3>8 DEF ReducedTo
  <2> QED
    BY <2>1, <2>2
<1> QED
  BY <1>3, <1>7, <1>11, <1>12 DEF ReducedBook

\* The sides once all entries are committed.
LEMMA ReduceOrdersKeeps ==
    ASSUME NEW b, NEW os, NEW last, NEW ids, NEW after, Change(b, os, last, ids, after)
    PROVE  ReducedBook(os, ids, after, Len(ids), ReduceOrders(b, os, ids, after))
<1>1. PICK n \in Nat : n = Len(ids)
  BY DEF Change
<1>2. PICK f : /\ f[0] = b
               /\ \A k \in 1..Len(ids) : f[k] = ReduceOne(f[k - 1], os, ids, after, k)
               /\ ReduceOrders(b, os, ids, after) = f[Len(ids)]
  BY <1>1, ReduceSteps
<1> DEFINE Good == {k \in Nat : k =< n => ReducedBook(os, ids, after, k, f[k])}
<1>3. 0 \in Good
  <2>1. PICK o : o = ChangedBy(os, ids, after, 0)
    OBVIOUS
  <2>2. SeenBy(ids, 0) = {} /\ DoneBy(ids, after, 0) = {}
    BY DEF SeenBy, DoneBy
  <2>3. GoodBook(b, os)
    BY DEF Change
  <2>4. ASSUME NEW s \in Sides
        PROVE  BookSide(b[s], o) /\ ToSet(b[s].list) = OnSide(os, s) \ DoneBy(ids, after, 0)
    <3>1. PICK t : t = b[s]
      OBVIOUS
    <3>2. BookSide(t, os) /\ ToSet(t.list) = OnSide(os, s)
      BY <2>3, <3>1 DEF GoodBook
    <3>3. Agree(ToSet(t.list), os, o)
      BY <2>1, <2>2, <3>2 DEF ChangedBy, Agree, OnSide, LevelKey
    <3>4. BookSide(t, o)
      BY ONLY <3>2, <3>3, AgreeKeeps
    <3> QED
      BY <2>2, <3>1, <3>2, <3>4
  <2>5. ReducedBook(os, ids, after, 0, b)
    BY <2>1, <2>3, <2>4 DEF ReducedBook, GoodBook
  <2> QED
    BY <1>2, <2>5
<1>4. ASSUME NEW k \in Nat, k < n, k \in Good
      PROVE  k + 1 \in Good
  <2>1. PICK j \in 1..Len(ids) : j = k + 1 /\ j - 1 = k
    BY <1>1, <1>4
  <2>2. ReducedBook(os, ids, after, j - 1, f[k])
    BY <1>4, <2>1
  <2>3. ReducedBook(os, ids, after, j, ReduceOne(f[k], os, ids, after, j))
    BY <2>2, ReduceOneKeeps
  <2>4. f[j] = ReduceOne(f[k], os, ids, after, j)
    BY <1>2, <2>1
  <2> QED
    BY <2>1, <2>3, <2>4
<1> HIDE DEF Good
<1>5. n \in Good
  BY <1>3, <1>4, NumberInduction
<1> QED
  BY <1>1, <1>2, <1>5 DEF Good

\* The market's sides and orders after the change, nb and ns.
Changed(b, os, last, ids, after, nb, ns) ==
    /\ Change(b, os, last, ids, after)
    /\ nb = ReduceOrders(b, os, ids, after)
    /\ ns = [id \in DOMAIN os \ {x \in ToSet(ids) : Done(after[x])} |->
                IF id \in ToSet(ids) THEN after[id] ELSE os[id]]

\* Each order that stays is what it was or what the change makes of it.
ChangedFrom(os, ids, after, ns) ==
    /\ DOMAIN ns = DOMAIN os \ DoneBy(ids, after, Len(ids))
    /\ DoneBy(ids, after, Len(ids)) = {x \in ToSet(ids) : Done(after[x])}
    /\ \A x \in DOMAIN ns :
        /\ x \in DOMAIN os /\ GoodOrder(ns[x]) /\ SameOrder(os[x], ns[x])
        /\ LevelKey(ns[x]) = LevelKey(ChangedBy(os, ids, after, Len(ids))[x])
        /\ ns[x].resd = ChangedBy(os, ids, after, Len(ids))[x].resd

\* After the commit phase the orders that are left are good, with the lots that
\* the list of changes left them (revise_order, cancel_order).
LEMMA ChangedOrders ==
    ASSUME NEW b, NEW os, NEW last, NEW ids, NEW after, NEW nb, NEW ns,
           Changed(b, os, last, ids, after, nb, ns)
    PROVE  ChangedFrom(os, ids, after, ns)
<1>1. PICK n \in Nat : n = Len(ids) /\ DOMAIN ids = 1..n
  BY DEF Changed, Change
<1>2. ToSet(ids) = SeenBy(ids, n)
  BY <1>1 DEF ToSet, SeenBy
<1>3. DoneBy(ids, after, n) = {x \in ToSet(ids) : Done(after[x])}
  BY <1>2 DEF DoneBy
<1>4. DOMAIN ns = DOMAIN os \ DoneBy(ids, after, n)
      /\ \A x \in DOMAIN ns : ns[x] = IF x \in ToSet(ids) THEN after[x] ELSE os[x]
  BY <1>3 DEF Changed
<1>5. \A x \in ToSet(ids) : ChangesTo(os[x], after[x])
  BY <1>1 DEF ToSet, Changed, Change
<1>6. ASSUME NEW x \in DOMAIN ns
      PROVE  /\ x \in DOMAIN os /\ GoodOrder(ns[x]) /\ SameOrder(os[x], ns[x])
             /\ LevelKey(ns[x]) = LevelKey(ChangedBy(os, ids, after, n)[x])
             /\ ns[x].resd = ChangedBy(os, ids, after, n)[x].resd
  <2>1. x \in DOMAIN os /\ x \notin DoneBy(ids, after, n)
    BY <1>4
  <2>2. GoodOrder(ns[x]) /\ SameOrder(os[x], ns[x])
    <3>1. CASE x \in ToSet(ids)
      <4>1. ~Done(after[x]) /\ ns[x] = after[x]
        BY <1>2, <1>4, <2>1, <3>1 DEF DoneBy
      <4> QED
        BY <1>5, <3>1, <4>1 DEF ChangesTo
    <3>2. CASE x \notin ToSet(ids)
      <4>1. ns[x] = os[x]
        BY <1>4, <3>2
      <4>2. GoodOrder(os[x])
        BY <2>1 DEF Changed, Change, GoodOrders
      <4> QED
        BY <4>1, <4>2 DEF SameOrder
    <3> QED
      BY <3>1, <3>2
  <2>3. ChangedBy(os, ids, after, n)[x].resd = ns[x].resd
    BY <1>2, <1>4, <2>1 DEF ChangedBy
  <2>4. LevelKey(ChangedBy(os, ids, after, n)[x]) = LevelKey(os[x])
    BY <2>1 DEF ChangedBy, LevelKey
  <2> QED
    BY <2>1, <2>2, <2>3, <2>4 DEF SameOrder
<1> QED
  BY <1>1, <1>3, <1>4, <1>6 DEF ChangedFrom

\* What the commit phases of revise_order and cancel_order keep true of a market.
LEMMA ChangedMarket ==
    ASSUME NEW b, NEW os, NEW last, NEW ids, NEW after, NEW nb, NEW ns,
           Changed(b, os, last, ids, after, nb, ns),
           NEW market \in Market, last \in Nat, last =< market.maxId
    PROVE  GoodMarket(market, nb, ns)
<1>1. PICK o : o = ChangedBy(os, ids, after, Len(ids))
  OBVIOUS
<1>2. PICK done : done = DoneBy(ids, after, Len(ids))
  OBVIOUS
<1>3. /\ DOMAIN ns = DOMAIN os \ done
      /\ \A x \in DOMAIN ns : /\ x \in DOMAIN os /\ GoodOrder(ns[x])
                              /\ SameOrder(os[x], ns[x])
                              /\ LevelKey(ns[x]) = LevelKey(o[x])
                              /\ ns[x].resd = o[x].resd
  <2>1. ChangedFrom(os, ids, after, ns)
    BY ChangedOrders
  <2> QED
    BY <1>1, <1>2, <2>1 DEF ChangedFrom
<1>4. Change(b, os, last, ids, after) /\ nb = ReduceOrders(b, os, ids, after)
  BY DEF Changed
<1>5. GoodOrders(ns, market.maxId)
  <2>1. market.maxId \in Nat
    <3>1. \A n \in Nat : 0..n \subseteq Nat
      OBVIOUS
    <3> QED
      BY <3>1, EngineAssumption DEF Market
  <2>2. 1..last \subseteq 1..market.maxId
    BY <2>1
  <2>3. DOMAIN os \subseteq 1..last
    BY <1>4 DEF Change, GoodOrders
  <2> QED
    BY <1>3, <2>2, <2>3 DEF GoodOrders
<1>6. Uncrossed(ns)
  <2>1. \A x \in DOMAIN ns : ns[x].side = os[x].side /\ ns[x].ticks = os[x].ticks
    BY <1>3 DEF SameOrder
  <2>2. \A s \in Sides : \A x \in OnSide(ns, s) : x \in OnSide(os, s) /\ x \in DOMAIN ns
    BY <1>3, <2>1 DEF OnSide
  <2>3. "Buy" \in Sides /\ "Sell" \in Sides
    BY DEF Sides
  <2>4. Uncrossed(os)
    BY <1>4 DEF Change
  <2> QED
    BY <2>1, <2>2, <2>3, <2>4 DEF Uncrossed
<1>7. GoodBook(nb, ns)
  <2>1. ReducedBook(os, ids, after, Len(ids), nb)
    BY <1>4, ReduceOrdersKeeps
  <2>2. ASSUME NEW s \in Sides
        PROVE  BookSide(nb[s], ns) /\ ToSet(nb[s].list) = OnSide(ns, s)
    <3>1. PICK t : t = nb[s]
      OBVIOUS
    <3>2. BookSide(t, o) /\ ToSet(t.list) = OnSide(os, s) \ done
      BY <1>1, <1>2, <2>1, <3>1 DEF ReducedBook
    <3>3. OnSide(ns, s) = OnSide(os, s) \ done
      BY <1>3 DEF OnSide, SameOrder
    <3>4. ToSet(t.list) \subseteq DOMAIN ns
      BY <3>2, <3>3 DEF OnSide
    <3>5. Agree(ToSet(t.list), o, ns)
      BY <1>3, <3>4 DEF Agree
    <3>6. BookSide(t, ns)
      BY ONLY <3>2, <3>5, AgreeKeeps
    <3> QED
      BY <3>1, <3>2, <3>3, <3>6
  <2> QED
    BY <2>1, <2>2 DEF ReducedBook, GoodBook
<1> QED
  BY <1>5, <1>6, <1>7 DEF GoodMarket

-----------------------------------------------------------------------------
(* Sessions. *)

\* The orders os of all markets are ns after those called gone have left the
\* market m and "new", at most one order, has come to it.
OrdersMove(os, m, gone, new, ns) ==
    /\ m \in Markets /\ m \in DOMAIN os
    /\ DOMAIN ns = DOMAIN os /\ \A x \in DOMAIN os \ {m} : ns[x] = os[x]
    /\ gone \subseteq DOMAIN os[m]
    /\ DOMAIN ns[m] = (DOMAIN os[m] \ gone) \union DOMAIN new
    /\ \A x \in DOMAIN os[m] \ gone :
        /\ x \notin DOMAIN new
        /\ ns[m][x].accnt = os[m][x].accnt /\ ns[m][x].ref = os[m][x].ref
    /\ \A x \in DOMAIN new :
        /\ x \in 1..MaxId /\ x \notin DOMAIN os[m]
        /\ ns[m][x].accnt = new[x].accnt /\ ns[m][x].ref = new[x].ref
        /\ new[x].ref \in Refs \union {NoRef}
        /\ \A y \in DOMAIN new : x = y

NewOf(new, a) == {id \in DOMAIN new : new[id].accnt = a}

GoneKeys(m, gone) == {<<m, id>> : id \in gone}

\* The keys and references of the account a then.
HeldAfter(held, m, gone, new, a) ==
    (held \ GoneKeys(m, gone)) \union GoneKeys(m, NewOf(new, a))

Kept(refs, m, gone) == {r \in DOMAIN refs : refs[r] \notin GoneKeys(m, gone)}

Came(new, a) == {new[id].ref : id \in NewOf(new, a)} \ {NoRef}

RefsAfter(refs, m, gone, new, a) ==
    [r \in Kept(refs, m, gone) \union Came(new, a) |->
        IF r \in Came(new, a)
        THEN <<m, CHOOSE id \in NewOf(new, a) : new[id].ref = r>>
        ELSE refs[r]]

\* A session holds the orders that its account has in the markets then.
LEMMA HeldFollows ==
    ASSUME NEW os, NEW m, NEW gone, NEW new, NEW ns, OrdersMove(os, m, gone, new, ns),
           NEW a
    PROVE  HeldAfter(KeysOf(os, a), m, gone, new, a) = KeysOf(ns, a)
<1>1. PICK old, now : old = KeysOf(os, a) /\ now = HeldAfter(old, m, gone, new, a)
  OBVIOUS
<1>2. \A k \in Keys : k[1] \in Markets /\ k[2] \in 1..MaxId /\ k = <<k[1], k[2]>>
  BY DEF Keys
<1>3. \A x \in 1..MaxId : <<m, x>> \in Keys /\ <<m, x>>[1] = m /\ <<m, x>>[2] = x
  BY DEF Keys, OrdersMove
<1>4. now \subseteq Keys
  BY <1>1, <1>3 DEF HeldAfter, KeysOf, GoneKeys, NewOf, OrdersMove
<1>5. ASSUME NEW k \in Keys
      PROVE  k \in now <=> k \in KeysOf(ns, a)
  <2>1. PICK x : k[2] = x
    OBVIOUS
  <2>2. CASE k[1] # m
    <3>1. \A S : k \notin GoneKeys(m, S)
      BY <2>2 DEF GoneKeys
    <3>2. k \in now <=> k \in old
      BY <1>1, <3>1 DEF HeldAfter
    <3>3. k[1] \in DOMAIN os <=> k[1] \in DOMAIN ns
      BY DEF OrdersMove
    <3>4. k[1] \in DOMAIN os => ns[k[1]] = os[k[1]]
      BY <2>2 DEF OrdersMove
    <3> QED
      BY <1>1, <3>2, <3>3, <3>4 DEF KeysOf
  <2>3. CASE k[1] = m
    <3>1. k = <<m, x>>
      BY <1>2, <2>1, <2>3
    <3>2. \A S : k \in GoneKeys(m, S) <=> x \in S
      BY <3>1 DEF GoneKeys
    <3>3. k \in now <=> \/ k \in old /\ x \notin gone
                        \/ x \in DOMAIN new /\ new[x].accnt = a
      BY <1>1, <3>2 DEF HeldAfter, NewOf
    <3>4. k \in old <=> x \in DOMAIN os[m] /\ os[m][x].accnt = a
      BY <1>1, <2>1, <2>3 DEF KeysOf, OrdersMove
    <3>5. k \in KeysOf(ns, a) <=> x \in DOMAIN ns[m] /\ ns[m][x].accnt = a
      BY <2>1, <2>3 DEF KeysOf, OrdersMove
    <3> QED
      BY <3>3, <3>4, <3>5 DEF OrdersMove
  <2> QED
    BY <2>2, <2>3
<1>6. KeysOf(ns, a) \subseteq Keys
  BY DEF KeysOf
<1> QED
  BY <1>1, <1>4, <1>5, <1>6

\* Its references find them.
LEMMA RefsFollow ==
    ASSUME NEW os, NEW m, NEW gone, NEW new, NEW ns, OrdersMove(os, m, gone, new, ns),
           NEW a, NEW refs, GoodRefs(os, KeysOf(os, a), refs),
           \A x \in NewOf(new, a) : new[x].ref \notin DOMAIN refs
    PROVE  GoodRefs(ns, KeysOf(ns, a), RefsAfter(refs, m, gone, new, a))
<1>1. PICK old : old = KeysOf(os, a)
  OBVIOUS
<1>2. PICK now : now = KeysOf(ns, a) /\ now = HeldAfter(old, m, gone, new, a)
  BY <1>1, HeldFollows
<1>3. PICK nrefs : nrefs = RefsAfter(refs, m, gone, new, a)
  OBVIOUS
<1>4. PICK kept, came : kept = Kept(refs, m, gone) /\ came = Came(new, a)
  OBVIOUS
<1>5. DOMAIN nrefs = kept \union came
  BY <1>3, <1>4 DEF RefsAfter
<1>6. \A k \in Keys : k = <<k[1], k[2]>>
  BY DEF Keys
<1>7. old \subseteq Keys
  BY <1>1 DEF KeysOf
<1>8. came \cap DOMAIN refs = {}
  BY <1>4 DEF Came
<1>9. ASSUME NEW r \in kept
      PROVE  r \notin came /\ r \in DOMAIN refs /\ nrefs[r] = refs[r]
             /\ refs[r] \notin GoneKeys(m, gone)
  <2>1. r \in DOMAIN refs /\ refs[r] \notin GoneKeys(m, gone)
    BY <1>4 DEF Kept
  <2>2. r \notin came
    BY <1>8, <2>1
  <2> QED
    BY <1>3, <1>4, <2>1, <2>2 DEF RefsAfter
<1>10. ASSUME NEW x \in NewOf(new, a), new[x].ref # NoRef
       PROVE  new[x].ref \in came /\ nrefs[new[x].ref] = <<m, x>>
  <2>1. new[x].ref \in came
    BY <1>4, <1>10 DEF Came
  <2>2. PICK y : y = CHOOSE id \in NewOf(new, a) : new[id].ref = new[x].ref
    OBVIOUS
  <2>3. y \in NewOf(new, a)
    BY <2>2
  <2>4. y = x
    BY <2>3 DEF OrdersMove, NewOf
  <2> QED
    BY <1>3, <1>4, <2>1, <2>2, <2>4 DEF RefsAfter
<1>11. \A r \in came : \E x \in NewOf(new, a) : new[x].ref = r /\ r # NoRef
  BY <1>4 DEF Came
<1>12. ASSUME NEW k \in old, k \notin GoneKeys(m, gone)
       PROVE  k \in now /\ ns[k[1]][k[2]].ref = os[k[1]][k[2]].ref
  <2>1. k \in now
    BY <1>2, <1>12 DEF HeldAfter
  <2>2. k[1] \in DOMAIN os /\ k[2] \in DOMAIN os[k[1]] /\ k = <<k[1], k[2]>>
    BY <1>1, <1>6, <1>7 DEF KeysOf
  <2>3. CASE k[1] = m
    <3>1. k[2] \notin gone
      BY <1>12, <2>2, <2>3 DEF GoneKeys
    <3> QED
      BY <2>1, <2>2, <2>3, <3>1 DEF OrdersMove
  <2>4. CASE k[1] # m
    BY <2>1, <2>2, <2>4 DEF OrdersMove
  <2> QED
    BY <2>3, <2>4
<1>13. ASSUME NEW x \in NewOf(new, a)
       PROVE  <<m, x>> \in now /\ ns[<<m, x>>[1]][<<m, x>>[2]].ref = new[x].ref
  <2>1. <<m, x>> \in now
    BY <1>2 DEF HeldAfter, GoneKeys
  <2>2. <<m, x>>[1] = m /\ <<m, x>>[2] = x /\ x \in DOMAIN new
    BY DEF NewOf
  <2> QED
    BY <2>1, <2>2 DEF OrdersMove
<1>14. \A k \in now : \/ k \in old /\ k \notin GoneKeys(m, gone)
                      \/ \E x \in NewOf(new, a) : k = <<m, x>>
  BY <1>2 DEF HeldAfter, GoneKeys
<1>15. DOMAIN nrefs \subseteq Refs
  <2>1. came \subseteq Refs
    BY <1>11 DEF NewOf, OrdersMove
  <2>2. kept \subseteq Refs
    BY <1>9 DEF GoodRefs
  <2> QED
    BY <1>5, <2>1, <2>2
<1>16. GoodRefs(os, old, refs)
  BY <1>1
<1>17. ASSUME NEW k \in old
       PROVE  LET ref == os[k[1]][k[2]].ref
              IN  ref = NoRef \/ (ref \in DOMAIN refs /\ refs[ref] = k)
  BY ONLY <1>16, <1>17 DEF GoodRefs
<1>18. ASSUME NEW r \in DOMAIN refs
       PROVE  refs[r] \in old /\ os[refs[r][1]][refs[r][2]].ref = r
  BY ONLY <1>16, <1>18 DEF GoodRefs
<1>19. ASSUME NEW k \in now
       PROVE  LET ref == ns[k[1]][k[2]].ref
              IN  ref = NoRef \/ (ref \in DOMAIN nrefs /\ nrefs[ref] = k)
  <2>1. CASE k \in old /\ k \notin GoneKeys(m, gone)
    <3>1. PICK ref : ref = os[k[1]][k[2]].ref /\ ref = ns[k[1]][k[2]].ref
      BY <1>12, <2>1
    <3>2. ref = NoRef \/ (ref \in DOMAIN refs /\ refs[ref] = k)
      BY <1>17, <2>1, <3>1, ZenonT(60)
    <3>3. ref \in DOMAIN refs /\ refs[ref] = k => ref \in kept
      BY <1>4, <2>1 DEF Kept
    <3> QED
      BY <1>5, <1>9, <3>1, <3>2, <3>3
  <2>2. ASSUME NEW x \in NewOf(new, a), k = <<m, x>>
        PROVE  LET ref == ns[k[1]][k[2]].ref
               IN  ref = NoRef \/ (ref \in DOMAIN nrefs /\ nrefs[ref] = k)
    BY <1>5, <1>10, <1>13, <2>2
  <2> QED
    BY <1>14, <2>1, <2>2
<1>20. ASSUME NEW r \in DOMAIN nrefs
       PROVE  nrefs[r] \in now /\ ns[nrefs[r][1]][nrefs[r][2]].ref = r
  <2>1. CASE r \in kept
    <3>1. PICK k : k = refs[r] /\ k = nrefs[r] /\ r \in DOMAIN refs
                   /\ k \notin GoneKeys(m, gone)
      BY <1>9, <2>1
    <3>2. k \in old /\ os[k[1]][k[2]].ref = r
      BY <1>18, <3>1
    <3> QED
      BY <1>12, <3>1, <3>2
  <2>2. CASE r \in came
    <3>1. PICK x \in NewOf(new, a) : new[x].ref = r /\ r # NoRef
      BY <1>11, <2>2
    <3>2. nrefs[r] = <<m, x>>
      BY <1>10, <3>1
    <3> QED
      BY <1>13, <3>1, <3>2
  <2> QED
    BY <1>5, <2>1, <2>2
<1> QED
  BY <1>2, <1>3, <1>15, <1>19, <1>20 DEF GoodRefs

-----------------------------------------------------------------------------
(* Histories, trades and positions. *)

\* A batch of execs of known accounts with keys of their own.
GoodBatch(batch) ==
    /\ Len(batch) \in Nat /\ DOMAIN batch = 1..Len(batch)
    /\ \A k \in DOMAIN batch : /\ batch[k].accnt \in Accnts
                               /\ <<batch[k].market, batch[k].id>> \in Keys
                               /\ batch[k].lastLots \in Nat
                               /\ batch[k].lastTicks \in Nat

\* push_exec_front for the k-th exec of a batch.
PushOne(h, batch, k) ==
    [h EXCEPT ![batch[k].accnt] =
        SubSeq(<<<<batch[k].market, batch[k].id>>>> \o @, 1, MinOf(Len(@) + 1, MaxExecs))]

\* The recursive function behind PushExecs.
IsPushed(f, n, hist, batch) ==
    f = [k \in 0..n |-> IF k = 0 THEN hist ELSE PushOne(f[k - 1], batch, k)]

\* It exists.
LEMMA PushedExists ==
    ASSUME NEW hist, NEW batch, NEW n \in Nat
    PROVE  \E f : IsPushed(f, n, hist, batch)
<1> DEFINE Good == {i \in Nat : \E f : IsPushed(f, i, hist, batch)}
           g(i, t) == PushOne(t, batch, i)
<1> HIDE DEF g
<1>1. \A f, i : IsPushed(f, i, hist, batch)
                    <=> f = [k \in 0..i |-> IF k = 0 THEN hist ELSE g(k, f[k - 1])]
  BY DEF IsPushed, g
<1>2. 0 \in Good
  <2>1. PICK f : f = [k \in 0..0 |-> hist]
    OBVIOUS
  <2>2. f = [k \in 0..0 |-> IF k = 0 THEN hist ELSE g(k, f[k - 1])]
    BY <2>1
  <2> QED
    BY <1>1, <2>2
<1>3. ASSUME NEW i \in Nat, i \in Good
      PROVE  i + 1 \in Good
  <2>1. PICK f : f = [k \in 0..i |-> IF k = 0 THEN hist ELSE g(k, f[k - 1])]
    BY <1>1, <1>3
  <2>2. PICK h : h = [k \in 0..(i + 1) |-> IF k = i + 1 THEN g(i + 1, f[i]) ELSE f[k]]
    OBVIOUS
  <2>3. DOMAIN h = 0..(i + 1) /\ h[i + 1] = g(i + 1, f[i])
        /\ \A k \in 0..i : h[k] = f[k]
    BY <2>2
  <2>4. ASSUME NEW k \in 0..(i + 1)
        PROVE  h[k] = IF k = 0 THEN hist ELSE g(k, h[k - 1])
    <3>1. CASE k = i + 1
      <4>1. k - 1 = i /\ k # 0 /\ h[i] = f[i]
        BY <2>3, <3>1
      <4> QED
        BY <2>3, <3>1, <4>1
    <3>2. CASE k # i + 1
      <4>1. k \in 0..i
        BY <3>2
      <4>2. k # 0 => k - 1 \in 0..i
        BY <4>1
      <4>3. f[k] = IF k = 0 THEN hist ELSE g(k, f[k - 1])
        BY <2>1, <4>1
      <4> QED
        BY <2>3, <4>1, <4>2, <4>3
    <3> QED
      BY <3>1, <3>2
  <2>5. h = [k \in 0..(i + 1) |-> h[k]]
    BY <2>2
  <2>6. h = [k \in 0..(i + 1) |-> IF k = 0 THEN hist ELSE g(k, h[k - 1])]
    BY <2>4, <2>5
  <2>7. IsPushed(h, i + 1, hist, batch)
    BY <2>6 DEF IsPushed, g
  <2> HIDE DEF IsPushed
  <2> QED
    BY <2>7
<1> HIDE DEF Good
<1>4. n \in Good
  BY <1>2, <1>3, NumberInduction
<1> QED
  BY <1>4 DEF Good

\* The first n elements of a list.
LEMMA FirstOnes ==
    ASSUME NEW S, NEW s \in Seq(S), NEW n \in 0..Len(s)
    PROVE  SubSeq(s, 1, n) \in Seq(S) /\ Len(SubSeq(s, 1, n)) = n
OBVIOUS

\* A history is never longer than its buffer.
LEMMA PushExecsType ==
    ASSUME NEW hist, hist \in Histories, NEW batch, GoodBatch(batch)
    PROVE  PushExecs(hist, batch) \in Histories
<1>1. PICK n \in Nat : n = Len(batch) /\ DOMAIN batch = 1..n
  BY DEF GoodBatch
<1>2. PICK f : f = CHOOSE g : IsPushed(g, n, hist, batch)
  OBVIOUS
<1>3. IsPushed(f, n, hist, batch)
  BY <1>2, PushedExists
<1>4. PushExecs(hist, batch) = f[n]
  BY <1>1, <1>2 DEF PushExecs, IsPushed, PushOne
<1>5. f[0] = hist
  <2> DEFINE g(i, t) == PushOne(t, batch, i)
  <2> HIDE DEF g
  <2>1. f = [k \in 0..n |-> IF k = 0 THEN hist ELSE g(k, f[k - 1])]
    BY <1>3 DEF IsPushed, g
  <2> QED
    BY <2>1
<1>6. \A k \in 1..n : f[k] = PushOne(f[k - 1], batch, k)
  <2> DEFINE g(i, t) == PushOne(t, batch, i)
  <2> HIDE DEF g
  <2>1. f = [k \in 0..n |-> IF k = 0 THEN hist ELSE g(k, f[k - 1])]
    BY <1>3 DEF IsPushed, g
  <2>2. \A k \in 1..n : k \in 0..n /\ k # 0
    OBVIOUS
  <2>3. \A k \in 1..n : f[k] = g(k, f[k - 1])
    BY <2>1, <2>2
  <2> QED
    BY <2>3 DEF g
<1>7. ASSUME NEW k \in 1..n, NEW h \in Histories
      PROVE  PushOne(h, batch, k) \in Histories
  <2>1. PICK a \in Accnts : a = batch[k].accnt
    BY <1>1 DEF GoodBatch
  <2>2. PICK key \in Keys : key = <<batch[k].market, batch[k].id>>
    BY <1>1 DEF GoodBatch
  <2>3. PICK s \in Seq(Keys) : s = h[a] /\ Len(s) =< MaxExecs
    BY DEF Histories
  <2>4. PICK t \in Seq(Keys) : t = <<key>> \o s /\ Len(t) = Len(s) + 1
    <3>1. <<key>> \in Seq(Keys)
      OBVIOUS
    <3>2. <<key>> \o s \in Seq(Keys) /\ Len(<<key>> \o s) = Len(s) + 1
      BY <3>1
    <3> QED
      BY <3>2
  <2>5. PICK c \in Nat : c = MinOf(Len(s) + 1, MaxExecs) /\ c =< Len(t) /\ c =< MaxExecs
    <3>1. MaxExecs \in Nat /\ Len(s) \in Nat
      BY EngineAssumption
    <3> QED
      BY <2>4, <3>1 DEF MinOf
  <2>6. PICK u : u = SubSeq(t, 1, c)
    OBVIOUS
  <2>7. u \in Seq(Keys) /\ Len(u) = c
    <3>1. c \in 0..Len(t)
      BY <2>4, <2>5
    <3> QED
      BY <2>6, <3>1, FirstOnes
  <2>8. PushOne(h, batch, k) = [h EXCEPT ![a] = u]
    BY <2>1, <2>2, <2>3, <2>4, <2>5, <2>6 DEF PushOne
  <2>9. u \in {w \in Seq(Keys) : Len(w) =< MaxExecs}
    BY <2>5, <2>7
  <2> QED
    BY <2>8, <2>9 DEF Histories
<1> DEFINE Good == {k \in Nat : k =< n => f[k] \in Histories}
<1>8. 0 \in Good
  BY <1>5
<1>9. ASSUME NEW k \in Nat, k < n, k \in Good
      PROVE  k + 1 \in Good
  <2>1. PICK j \in 1..n : j = k + 1 /\ j - 1 = k
    BY <1>1, <1>9
  <2>2. f[j] = PushOne(f[k], batch, j) /\ f[k] \in Histories
    BY <1>6, <1>9, <2>1
  <2>3. f[j] \in Histories
    BY <1>7, <2>2
  <2> QED
    BY <2>1, <2>3
<1> HIDE DEF Good
<1>10. n \in Good
  BY <1>8, <1>9, NumberInduction
<1> QED
  BY <1>1, <1>4, <1>10 DEF Good

\* The trades that a session is given are trades of their markets.
LEMMA InsertTradesType ==
    ASSUME NEW held \in [Accnts -> SUBSET Keys], NEW batch, GoodBatch(batch)
    PROVE  InsertTrades(held, batch) \in [Accnts -> SUBSET Keys]
<1>1. \A a \in Accnts :
        {<<batch[k].market, batch[k].id>> :
            k \in {j \in DOMAIN batch : batch[j].accnt = a /\ batch[j].state = "Trade"}}
                \in SUBSET Keys
  BY DEF GoodBatch
<1> QED
  BY <1>1 DEF InsertTrades

\* What a trade does to a position: its net lots move by the lots of the trade,
\* and its costs by what these cost.
LEMMA AddTradeIs ==
    ASSUME NEW posn \in PosnType, NEW side, NEW lots \in Int, NEW ticks \in Int
    PROVE  LET new == AddTrade(posn, side, lots, ticks)
               sign == IF side = "Buy" THEN 1 ELSE -1
           IN  /\ new \in PosnType
               /\ NetLots(posn) \in Int
               /\ NetLots(new) = NetLots(posn) + sign * lots
               /\ new.buyCost - new.sellCost
                    = (posn.buyCost - posn.sellCost) + sign * (lots * ticks)
<1>1. /\ posn.buyLots \in Int /\ posn.buyCost \in Int /\ posn.sellLots \in Int
      /\ posn.sellCost \in Int /\ posn.netCost \in Int
  BY DEF PosnType
<1>2. PICK paid \in Int : paid = lots * ticks
  OBVIOUS
<1>3. ASSUME NEW delta \in Int
      PROVE  NetCostAfter(posn, delta, ticks) \in Int
  <2>1. PICK net \in Int : net = NetLots(posn) + delta
    BY <1>1 DEF NetLots
  <2>2. net * ticks \in Int /\ delta * ticks \in Int
    OBVIOUS
  <2> QED
    BY <1>1, <2>1, <2>2 DEF NetCostAfter
<1>4. PICK cost1 \in Int : cost1 = NetCostAfter(posn, lots, ticks)
  BY <1>3
<1>5. PICK cost2 \in Int : cost2 = NetCostAfter(posn, -lots, ticks)
  <2>1. -lots \in Int
    OBVIOUS
  <2> QED
    BY <1>3, <2>1
<1>6. CASE side = "Buy"
  <2> DEFINE x == posn.buyLots + lots
             y == posn.buyCost + paid
             new == [posn EXCEPT !.buyLots = x, !.buyCost = y, !.netCost = cost1]
  <2>1. AddTrade(posn, side, lots, ticks) = new
    BY <1>2, <1>4, <1>6 DEF AddTrade, AddBuy
  <2>2. x \in Int /\ y \in Int
    BY <1>1
  <2> HIDE DEF x, y
  <2>3. new \in PosnType
    BY <2>2 DEF PosnType
  <2>4. /\ new.buyLots = x /\ new.buyCost = y
        /\ new.sellLots = posn.sellLots /\ new.sellCost = posn.sellCost
    BY DEF PosnType
  <2> HIDE DEF new
  <2>5. NetLots(new) = NetLots(posn) + lots /\ 1 * lots = lots
    BY <1>1, <2>4 DEF NetLots, x
  <2>6. new.buyCost - new.sellCost = (posn.buyCost - posn.sellCost) + paid
        /\ 1 * paid = paid
    BY <1>1, <2>4 DEF y
  <2>7. NetLots(posn) \in Int
    BY <1>1 DEF NetLots
  <2> QED
    BY <1>2, <1>6, <2>1, <2>3, <2>5, <2>6, <2>7
<1>7. CASE side # "Buy"
  <2> DEFINE x == posn.sellLots + lots
             y == posn.sellCost + paid
             new == [posn EXCEPT !.sellLots = x, !.sellCost = y, !.netCost = cost2]
  <2>1. AddTrade(posn, side, lots, ticks) = new
    BY <1>2, <1>5, <1>7 DEF AddTrade, AddSell
  <2>2. x \in Int /\ y \in Int
    BY <1>1
  <2> HIDE DEF x, y
  <2>3. new \in PosnType
    BY <2>2 DEF PosnType
  <2>4. /\ new.sellLots = x /\ new.sellCost = y
        /\ new.buyLots = posn.buyLots /\ new.buyCost = posn.buyCost
    BY DEF PosnType
  <2> HIDE DEF new
  <2>5. NetLots(new) = NetLots(posn) - lots /\ (-1) * lots = -lots
    BY <1>1, <2>4 DEF NetLots, x
  <2>6. new.buyCost - new.sellCost = (posn.buyCost - posn.sellCost) - paid
        /\ (-1) * paid = -paid
    BY <1>1, <2>4 DEF y
  <2>7. NetLots(posn) \in Int
    BY <1>1 DEF NetLots
  <2>8. NetLots(new) = NetLots(posn) + (-1) * lots
    BY <2>5, <2>7
  <2>9. new.buyCost - new.sellCost = (posn.buyCost - posn.sellCost) + (-1) * paid
    BY <1>1, <2>6
  <2> QED
    BY <1>2, <1>7, <2>1, <2>3, <2>7, <2>8, <2>9
<1> QED
  BY <1>6, <1>7

\* add_trade for the k-th exec of a batch.
AddOne(p, batch, k) ==
    IF batch[k].state = "Trade"
    THEN [p EXCEPT ![batch[k].accnt][batch[k].market] =
            AddTrade(@, batch[k].side, batch[k].lastLots, batch[k].lastTicks)]
    ELSE p

\* The recursive function behind AddTrades.
IsAdded(f, n, ps, batch) ==
    f = [k \in 0..n |-> IF k = 0 THEN ps ELSE AddOne(f[k - 1], batch, k)]

\* It exists.
LEMMA AddedExists ==
    ASSUME NEW ps, NEW batch, NEW n \in Nat
    PROVE  \E f : IsAdded(f, n, ps, batch)
<1> DEFINE Good == {i \in Nat : \E f : IsAdded(f, i, ps, batch)}
           g(i, t) == AddOne(t, batch, i)
<1> HIDE DEF g
<1>1. \A f, i : IsAdded(f, i, ps, batch)
                    <=> f = [k \in 0..i |-> IF k = 0 THEN ps ELSE g(k, f[k - 1])]
  BY DEF IsAdded, g
<1>2. 0 \in Good
  <2>1. PICK f : f = [k \in 0..0 |-> ps]
    OBVIOUS
  <2>2. f = [k \in 0..0 |-> IF k = 0 THEN ps ELSE g(k, f[k - 1])]
    BY <2>1
  <2> QED
    BY <1>1, <2>2
<1>3. ASSUME NEW i \in Nat, i \in Good
      PROVE  i + 1 \in Good
  <2>1. PICK f : f = [k \in 0..i |-> IF k = 0 THEN ps ELSE g(k, f[k - 1])]
    BY <1>1, <1>3
  <2>2. PICK h : h = [k \in 0..(i + 1) |-> IF k = i + 1 THEN g(i + 1, f[i]) ELSE f[k]]
    OBVIOUS
  <2>3. DOMAIN h = 0..(i + 1) /\ h[i + 1] = g(i + 1, f[i])
        /\ \A k \in 0..i : h[k] = f[k]
    BY <2>2
  <2>4. ASSUME NEW k \in 0..(i + 1)
        PROVE  h[k] = IF k = 0 THEN ps ELSE g(k, h[k - 1])
    <3>1. CASE k = i + 1
      <4>1. k - 1 = i /\ k # 0 /\ h[i] = f[i]
        BY <2>3, <3>1
      <4> QED
        BY <2>3, <3>1, <4>1
    <3>2. CASE k # i + 1
      <4>1. k \in 0..i
        BY <3>2
      <4>2. k # 0 => k - 1 \in 0..i
        BY <4>1
      <4>3. f[k] = IF k = 0 THEN ps ELSE g(k, f[k - 1])
        BY <2>1, <4>1
      <4> QED
        BY <2>3, <4>1, <4>2, <4>3
    <3> QED
      BY <3>1, <3>2
  <2>5. h = [k \in 0..(i + 1) |-> h[k]]
    BY <2>2
  <2>6. h = [k \in 0..(i + 1) |-> IF k = 0 THEN ps ELSE g(k, h[k - 1])]
    BY <2>4, <2>5
  <2>7. IsAdded(h, i + 1, ps, batch)
    BY <2>6 DEF IsAdded, g
  <2> HIDE DEF IsAdded
  <2> QED
    BY <2>7
<1> HIDE DEF Good
<1>4. n \in Good
  BY <1>2, <1>3, NumberInduction
<1> QED
  BY <1>4 DEF Good

\* The positions exec by exec: add_trade in the order of the batch.
AddedBy(f, ps, batch) ==
    /\ f[0] = ps
    /\ \A k \in 1..Len(batch) : f[k] = AddOne(f[k - 1], batch, k)
    /\ AddTrades(ps, batch) = f[Len(batch)]

\* AddTrades goes from exec to exec, as commit_matches does.
LEMMA AddSteps ==
    ASSUME NEW ps, NEW batch, Len(batch) \in Nat
    PROVE  \E f : AddedBy(f, ps, batch)
<1>1. PICK n \in Nat : n = Len(batch)
  OBVIOUS
<1>2. PICK f : f = CHOOSE g : IsAdded(g, n, ps, batch)
  OBVIOUS
<1>3. IsAdded(f, n, ps, batch)
  BY <1>2, AddedExists
<1>4. AddTrades(ps, batch) = f[n]
  BY <1>1, <1>2 DEF AddTrades, IsAdded, AddOne
<1>5. f[0] = ps /\ \A k \in 1..n : f[k] = AddOne(f[k - 1], batch, k)
  <2> DEFINE g(i, t) == AddOne(t, batch, i)
  <2> HIDE DEF g
  <2>1. f = [k \in 0..n |-> IF k = 0 THEN ps ELSE g(k, f[k - 1])]
    BY <1>3 DEF IsAdded, g
  <2>2. 0 \in 0..n /\ \A k \in 1..n : k \in 0..n /\ k # 0
    OBVIOUS
  <2>3. f[0] = ps /\ \A k \in 1..n : f[k] = g(k, f[k - 1])
    BY <2>1, <2>2
  <2> QED
    BY <2>3 DEF g
<1> QED
  BY <1>1, <1>4, <1>5 DEF AddedBy

\* The positions q are p with the exec e added.
PosnsMove(p, q, e) ==
    \A a \in Accnts :
        /\ DOMAIN q[a] = DOMAIN p[a]
        /\ \A m \in DOMAIN p[a] :
            q[a][m] = IF e.state = "Trade" /\ e.accnt = a /\ e.market = m
                      THEN AddTrade(p[a][m], e.side, e.lastLots, e.lastTicks)
                      ELSE p[a][m]

\* add_trade moves the position of one account in one market, and no other.
LEMMA AddOneIs ==
    ASSUME NEW p, GoodPosns(p), NEW batch, GoodBatch(batch), NEW k \in 1..Len(batch)
    PROVE  GoodPosns(AddOne(p, batch, k)) /\ PosnsMove(p, AddOne(p, batch, k), batch[k])
<1>1. PICK q : q = AddOne(p, batch, k)
  OBVIOUS
<1>2. PICK e : e = batch[k]
  OBVIOUS
<1>3. PICK b \in Accnts : b = e.accnt
  BY <1>2 DEF GoodBatch
<1>4. PICK n : n = e.market
  OBVIOUS
<1>5. e.lastLots \in Int /\ e.lastTicks \in Int
  <2>1. e.lastLots \in Nat /\ e.lastTicks \in Nat
    BY <1>2 DEF GoodBatch
  <2> QED
    BY <2>1
<1>6. /\ p = [a \in Accnts |-> p[a]]
      /\ \A a \in Accnts : DOMAIN p[a] \subseteq Markets
      /\ \A a \in Accnts : p[a] \in [DOMAIN p[a] -> PosnType]
  BY DEF GoodPosns
<1>7. CASE e.state # "Trade"
  <2>1. q = p
    BY <1>1, <1>2, <1>7 DEF AddOne
  <2> QED
    BY <1>1, <1>2, <1>7, <2>1 DEF PosnsMove
<1>8. CASE e.state = "Trade"
  <2>1. PICK x : x = AddTrade(p[b][n], e.side, e.lastLots, e.lastTicks)
    OBVIOUS
  <2>2. PICK pb : pb = [p[b] EXCEPT ![n] = x]
    OBVIOUS
  <2>3. q = [p EXCEPT ![b] = pb]
    BY <1>1, <1>2, <1>3, <1>4, <1>8, <2>1, <2>2 DEF AddOne
  <2>4. DOMAIN p = Accnts
    BY <1>6
  <2>5. q = [a \in Accnts |-> q[a]] /\ q[b] = pb /\ \A a \in Accnts : a # b => q[a] = p[a]
    BY <2>3, <2>4
  <2>6. p[b] \in [DOMAIN p[b] -> PosnType] /\ DOMAIN p[b] \subseteq Markets
    BY <1>6
  <2>7. DOMAIN pb = DOMAIN p[b]
    BY <2>2
  <2>8. n \in DOMAIN p[b] => x \in PosnType
    BY <1>5, <2>1, <2>6, AddTradeIs
  <2>9. \A m \in DOMAIN p[b] : pb[m] = IF m = n THEN x ELSE p[b][m]
    BY <2>2
  <2>10. pb = [m \in DOMAIN pb |-> pb[m]]
    BY <2>2
  <2>11. pb \in [DOMAIN pb -> PosnType]
    BY <2>6, <2>7, <2>8, <2>9, <2>10
  <2>12. GoodPosns(q)
    BY <1>6, <2>5, <2>6, <2>7, <2>11 DEF GoodPosns
  <2>13. PosnsMove(p, q, e)
    BY <1>3, <1>4, <1>8, <2>1, <2>5, <2>7, <2>9 DEF PosnsMove
  <2> QED
    BY <1>1, <1>2, <2>12, <2>13
<1> QED
  BY <1>7, <1>8

\* add_trade for each exec of a batch.
LEMMA AddTradesType ==
    ASSUME NEW ps, GoodPosns(ps), NEW batch, GoodBatch(batch)
    PROVE  GoodPosns(AddTrades(ps, batch))
<1>1. PICK n \in Nat : n = Len(batch)
  BY DEF GoodBatch
<1>2. PICK f : AddedBy(f, ps, batch)
  BY <1>1, AddSteps
<1> DEFINE Good == {k \in Nat : k =< n => GoodPosns(f[k])}
<1>3. 0 \in Good
  BY <1>2 DEF AddedBy
<1>4. ASSUME NEW k \in Nat, k < n, k \in Good
      PROVE  k + 1 \in Good
  <2>1. PICK j \in 1..Len(batch) : j = k + 1 /\ j - 1 = k
    BY <1>1, <1>4
  <2>2. f[j] = AddOne(f[k], batch, j) /\ GoodPosns(f[k])
    BY <1>2, <1>4, <2>1 DEF AddedBy
  <2>3. GoodPosns(f[j])
    BY <2>2, AddOneIs
  <2> QED
    BY <2>1, <2>3
<1> HIDE DEF Good
<1>5. n \in Good
  BY <1>3, <1>4, NumberInduction
<1> QED
  BY <1>1, <1>2, <1>5 DEF Good, AddedBy

\* Sess::posn only adds flat positions.
LEMMA EnsurePosnsIs ==
    ASSUME NEW ps, GoodPosns(ps), NEW accnts, NEW m \in Markets
    PROVE  LET qs == EnsurePosns(ps, accnts, m)
           IN  /\ GoodPosns(qs)
               /\ \A a \in Accnts : \A x \in DOMAIN qs[a] :
                    qs[a][x] = IF x \in DOMAIN ps[a] THEN ps[a][x] ELSE FlatPosn
               /\ \A a \in Accnts : DOMAIN qs[a] =
                    IF a \in accnts THEN DOMAIN ps[a] \union {m} ELSE DOMAIN ps[a]
<1>1. PICK qs : qs = EnsurePosns(ps, accnts, m)
  OBVIOUS
<1>2. qs = [a \in Accnts |-> qs[a]]
  BY <1>1 DEF EnsurePosns
<1>3. FlatPosn \in PosnType
  BY DEF FlatPosn, MakePosn, PosnType
<1>4. ASSUME NEW a \in Accnts
      PROVE  /\ qs[a] \in [DOMAIN qs[a] -> PosnType]
             /\ DOMAIN qs[a] \subseteq Markets
             /\ \A x \in DOMAIN qs[a] :
                    qs[a][x] = IF x \in DOMAIN ps[a] THEN ps[a][x] ELSE FlatPosn
             /\ DOMAIN qs[a] =
                    IF a \in accnts THEN DOMAIN ps[a] \union {m} ELSE DOMAIN ps[a]
  <2>1. ps[a] \in [DOMAIN ps[a] -> PosnType] /\ DOMAIN ps[a] \subseteq Markets
    BY DEF GoodPosns
  <2>2. CASE a \in accnts /\ m \notin DOMAIN ps[a]
    <3>1. qs[a] = Put(ps[a], m, FlatPosn)
      BY <1>1, <2>2 DEF EnsurePosns
    <3> QED
      BY <1>3, <2>1, <2>2, <3>1 DEF Put
  <2>3. CASE ~(a \in accnts /\ m \notin DOMAIN ps[a])
    <3>1. qs[a] = ps[a]
      BY <1>1, <2>3 DEF EnsurePosns
    <3> QED
      BY <2>1, <2>3, <3>1
  <2> QED
    BY <2>2, <2>3
<1>5. GoodPosns(qs)
  BY <1>2, <1>4 DEF GoodPosns
<1> QED
  BY <1>1, <1>4, <1>5

-----------------------------------------------------------------------------
(* The batches of execs that the operations post. *)

\* What a batch must say of the exec e: its account, its key and its last fill.
ExecIs(e, a, m, id, lots, ticks) ==
    /\ e.accnt = a /\ e.market = m /\ e.id = id
    /\ e.lastLots = lots /\ e.lastTicks = ticks

\* The execs of an order (Exec.hpp): a new one, and one that becomes a
\* revision or a cancellation.
LEMMA OrderExecIs ==
    ASSUME NEW m, NEW oid, NEW order, NEW id, NEW lots
    PROVE  /\ ExecIs(NewExec(m, oid, order, id), order.accnt, m, id, 0, 0)
           /\ ExecIs(ReviseExec(NewExec(m, oid, order, id), lots),
                     order.accnt, m, id, 0, 0)
           /\ ExecIs(CancelExec(NewExec(m, oid, order, id)), order.accnt, m, id, 0, 0)
<1>1. ExecIs(NewExec(m, oid, order, id), order.accnt, m, id, 0, 0)
  BY DEF ExecIs, NewExec
<1>2. ExecIs(ReviseExec(NewExec(m, oid, order, id), lots), order.accnt, m, id, 0, 0)
  BY DEF ExecIs, NewExec, ReviseExec
<1>3. ExecIs(CancelExec(NewExec(m, oid, order, id)), order.accnt, m, id, 0, 0)
  BY DEF ExecIs, NewExec, CancelExec
<1> QED
  BY <1>1, <1>2, <1>3

\* And one that becomes a trade (Exec::trade).
LEMMA TradeExecIs ==
    ASSUME NEW m, NEW oid, NEW order, NEW id, NEW sumLots, NEW sumCost,
           NEW lots, NEW ticks, NEW match, NEW cpty
    PROVE  ExecIs(TradeExec(NewExec(m, oid, order, id), sumLots, sumCost,
                            lots, ticks, match, cpty),
                  order.accnt, m, id, lots, ticks)
BY DEF ExecIs, NewExec, TradeExec

\* A manual trade and its opposite.
LEMMA ManualExecIs ==
    ASSUME NEW a, NEW m, NEW id, NEW ref, NEW side, NEW lots, NEW ticks, NEW cpty, NEW id2
    PROVE  /\ ExecIs(ManualExec(a, m, id, ref, side, lots, ticks, cpty),
                     a, m, id, lots, ticks)
           /\ ExecIs(OppositeExec(ManualExec(a, m, id, ref, side, lots, ticks, cpty), id2),
                     cpty, m, id2, lots, ticks)
<1>1. ExecIs(ManualExec(a, m, id, ref, side, lots, ticks, cpty), a, m, id, lots, ticks)
  BY DEF ExecIs, ManualExec
<1>2. ExecIs(OppositeExec(ManualExec(a, m, id, ref, side, lots, ticks, cpty), id2),
             cpty, m, id2, lots, ticks)
  BY DEF ExecIs, ManualExec, OppositeExec
<1> QED
  BY <1>1, <1>2

\* A batch is good if each of its execs is.
LEMMA BatchOf ==
    ASSUME NEW n \in Nat, NEW batch, batch = [k \in 1..n |-> batch[k]],
           NEW m \in Markets,
           \A k \in 1..n : \E a \in Accnts, id \in 1..MaxId, lots \in Nat, ticks \in Nat :
                ExecIs(batch[k], a, m, id, lots, ticks)
    PROVE  GoodBatch(batch) /\ Len(batch) = n
<1>1. DOMAIN batch = 1..n
  OBVIOUS
<1>2. Len(batch) = n
  BY <1>1
<1>3. ASSUME NEW k \in 1..n
      PROVE  /\ batch[k].accnt \in Accnts /\ <<batch[k].market, batch[k].id>> \in Keys
             /\ batch[k].lastLots \in Nat /\ batch[k].lastTicks \in Nat
  BY DEF ExecIs, Keys
<1> QED
  BY <1>1, <1>2, <1>3 DEF GoodBatch

\* The execs of a new order have the next ids of its market.
LEMMA OrderExecsGood ==
    ASSUME NEW b, NEW os, NEW id, NEW order, NEW ms, Arrival(b, os, id, order, ms),
           NEW m \in Markets, id + 2 * Len(ms) =< MaxId
    PROVE  /\ GoodBatch(OrderExecs(m, id, order, ms))
           /\ Len(OrderExecs(m, id, order, ms)) = 2 * Len(ms) + 1
           /\ Len(ms) \in Nat
<1>1. PICK n \in Nat : n = Len(ms)
  <2>1. PICK s : s = b[Opposite(order.side)]
    OBVIOUS
  <2>2. MatchesFit(order, s.list, os, ms) /\ Offered(s.list, os)
    BY <2>1, ArrivalMeets DEF Meets
  <2> QED
    BY <2>2 DEF MatchesFit, Offered
<1>2. PICK batch : batch = OrderExecs(m, id, order, ms)
  OBVIOUS
<1>3. MaxId \in Nat /\ id \in Nat \ {0} /\ id + 2 * n =< MaxId
  BY <1>1, EngineAssumption DEF Arrival
<1>4. order.accnt \in Accnts
  BY OrderFields DEF Arrival, GoodOrder
<1> DEFINE maker(i) ==
            TradeExec(NewExec(m, ms[i].id, ms[i].maker, id + 2*i - 1),
                      ms[i].lots, ms[i].lots * ms[i].ticks,
                      ms[i].lots, ms[i].ticks, id + 2*i, order.accnt)
           taker(i) ==
            TradeExec(NewExec(m, id, order, id + 2*i),
                      ms[i].sumLots, ms[i].sumCost,
                      ms[i].lots, ms[i].ticks, id + 2*i - 1,
                      ms[i].maker.accnt)
           first == NewExec(m, id, order, id)
           Right(e) == \E a \in Accnts, x \in 1..MaxId, lots \in Nat, ticks \in Nat :
                            ExecIs(e, a, m, x, lots, ticks)
<1>5. batch = [k \in 1..(2 * n + 1) |->
                IF k = 1 THEN first ELSE IF k % 2 = 0 THEN maker(k \div 2) ELSE taker(k \div 2)]
  BY <1>1, <1>2 DEF OrderExecs
<1>6. Right(first)
  <2>1. ExecIs(first, order.accnt, m, id, 0, 0)
    BY OrderExecIs
  <2>2. id \in 1..MaxId
    BY <1>3
  <2> HIDE DEF first
  <2> QED
    BY <1>4, <2>1, <2>2
<1>7. ASSUME NEW i \in 1..n
      PROVE  Right(maker(i)) /\ Right(taker(i))
  <2>1. /\ ms[i].maker = os[ms[i].id] /\ GoodOrder(os[ms[i].id])
        /\ ms[i].lots \in Nat /\ ms[i].ticks \in 1..MaxTicks
    BY <1>1, MakerIs
  <2>2. ms[i].maker.accnt \in Accnts
    BY <2>1, OrderFields DEF GoodOrder
  <2>3. ms[i].ticks \in Nat
    BY <2>1, EngineAssumption
  <2>4. id + 2*i - 1 \in 1..MaxId /\ id + 2*i \in 1..MaxId
    BY <1>3
  <2>5. /\ ExecIs(maker(i), ms[i].maker.accnt, m, id + 2*i - 1, ms[i].lots, ms[i].ticks)
        /\ ExecIs(taker(i), order.accnt, m, id + 2*i, ms[i].lots, ms[i].ticks)
    BY TradeExecIs
  <2> HIDE DEF maker, taker
  <2> QED
    BY <1>4, <2>1, <2>2, <2>3, <2>4, <2>5
<1> HIDE DEF maker, taker, first, Right
<1>8. ASSUME NEW k \in 1..(2 * n + 1)
      PROVE  Right(batch[k])
  <2>1. CASE k = 1
    BY <1>5, <1>6, <2>1
  <2>2. CASE k # 1
    <3>1. k \div 2 \in 1..n
      BY <2>2
    <3>2. batch[k] = maker(k \div 2) \/ batch[k] = taker(k \div 2)
      BY <1>5, <2>2
    <3> QED
      BY <1>7, <3>1, <3>2
  <2> QED
    BY <2>1, <2>2
<1>9. batch = [k \in 1..(2 * n + 1) |-> batch[k]]
  BY <1>5
<1>10. 2 * n + 1 \in Nat
  OBVIOUS
<1>11. GoodBatch(batch) /\ Len(batch) = 2 * n + 1
  BY <1>8, <1>9, <1>10, BatchOf DEF Right
<1> QED
  BY <1>1, <1>2, <1>11

\* The execs of a change: each is one of an order of the session's account.
LEMMA ChangeExecsGood ==
    ASSUME NEW n \in Nat, NEW batch, batch = [k \in 1..n |-> batch[k]],
           NEW m \in Markets, NEW a \in Accnts, NEW last \in Nat, last + n =< MaxId,
           \A k \in 1..n : ExecIs(batch[k], a, m, last + k, 0, 0)
    PROVE  GoodBatch(batch) /\ Len(batch) = n
<1>1. MaxId \in Nat
  BY EngineAssumption
<1>2. \A k \in 1..n : last + k \in 1..MaxId
  BY <1>1
<1>3. \A k \in 1..n : \E c \in Accnts, id \in 1..MaxId, lots \in Nat, ticks \in Nat :
                ExecIs(batch[k], c, m, id, lots, ticks)
  BY <1>2
<1> QED
  BY <1>3, BatchOf

-----------------------------------------------------------------------------
(* What an operation does to the sessions. *)

\* Sess::remove_order for the orders that are gone, and Sess::insert_order for
\* the new one.
LEMMA SessUpdateGood ==
    ASSUME NEW m, NEW gone, NEW new, NEW ns, OrdersMove(orders, m, gone, new, ns),
           GoodSessions(orders, sessOrders, refIdx),
           \A a \in Accnts : \A x \in NewOf(new, a) : new[x].ref \notin DOMAIN refIdx[a],
           SessUpdate(m, gone, new)
    PROVE  GoodSessions(ns, sessOrders', refIdx')
<1>1. sessOrders' = [a \in Accnts |-> HeldAfter(sessOrders[a], m, gone, new, a)]
  BY DEF SessUpdate, HeldAfter, GoneKeys, NewOf
<1>2. refIdx' = [a \in Accnts |-> RefsAfter(refIdx[a], m, gone, new, a)]
  BY DEF SessUpdate, RefsAfter, Kept, Came, GoneKeys, NewOf
<1>3. ASSUME NEW a \in Accnts
      PROVE  sessOrders'[a] = KeysOf(ns, a) /\ GoodRefs(ns, sessOrders'[a], refIdx'[a])
  <2>1. PICK held, refs : held = sessOrders[a] /\ refs = refIdx[a]
    OBVIOUS
  <2>2. held = KeysOf(orders, a) /\ GoodRefs(orders, KeysOf(orders, a), refs)
    BY <2>1 DEF GoodSessions
  <2>3. HeldAfter(held, m, gone, new, a) = KeysOf(ns, a)
    BY <2>2, HeldFollows
  <2>4. \A x \in NewOf(new, a) : new[x].ref \notin DOMAIN refs
    BY <2>1
  <2>5. GoodRefs(ns, KeysOf(ns, a), RefsAfter(refs, m, gone, new, a))
    BY <2>2, <2>4, RefsFollow
  <2>6. sessOrders'[a] = HeldAfter(held, m, gone, new, a)
        /\ refIdx'[a] = RefsAfter(refs, m, gone, new, a)
    BY <1>1, <1>2, <2>1
  <2> QED
    BY <2>3, <2>5, <2>6
<1> QED
  BY <1>3 DEF GoodSessions

\* The only order that comes is what stays of "order".
ComesFrom(order, new) ==
    \A a : \A x \in NewOf(new, a) : a = order.accnt /\ new[x].ref = order.ref

\* A new order is the only one that comes, and only makers go.
LEMMA ArrivedMoves ==
    ASSUME NEW os, NEW m \in Markets, m \in DOMAIN os,
           NEW b, NEW id, NEW order, NEW ms, NEW nb, NEW new,
           Arrived(b, os[m], id, order, ms, nb, new), id =< MaxId,
           NEW ns, ns = [os EXCEPT ![m] = new]
    PROVE  /\ OrdersMove(os, m, DoneMakers(ms), Rest(id, order, ms), ns)
           /\ ComesFrom(order, Rest(id, order, ms))
<1>1. PICK om : om = os[m]
  OBVIOUS
<1>2. PICK rest, gone : rest = Rest(id, order, ms) /\ gone = DoneMakers(ms)
  OBVIOUS
<1>3. ArrivedFrom(om, id, order, ms, rest, new)
  <2>1. Arrived(b, om, id, order, ms, nb, new)
    BY <1>1
  <2> QED
    BY <1>2, <2>1, ArrivedOrders
<1>4. ns[m] = new /\ DOMAIN ns = DOMAIN os /\ \A x \in DOMAIN os \ {m} : ns[x] = os[x]
  OBVIOUS
<1>5. id \in 1..MaxId
  BY EngineAssumption DEF Arrived, Arrival
<1>6. Arrival(b, om, id, order, ms)
  BY <1>1 DEF Arrived
<1>7. ASSUME NEW x \in DOMAIN rest
      PROVE  /\ x = id /\ new[x] = rest[x]
             /\ new[x].accnt = order.accnt /\ new[x].ref = order.ref
  <2>1. x = id /\ rest[x] = new[x] /\ new[x] = AfterMatches(order, ms)
    BY <1>2, <1>3 DEF ArrivedFrom
  <2>2. SameOrder(order, AfterMatches(order, ms))
    BY <1>6, RestIs
  <2> QED
    BY <2>1, <2>2 DEF SameOrder
<1>8. order.ref \in Refs \union {NoRef}
  BY <1>6, OrderFields DEF Arrival, GoodOrder
<1>9. ASSUME NEW x \in DOMAIN om \ gone
      PROVE  x \notin DOMAIN rest /\ new[x].accnt = om[x].accnt /\ new[x].ref = om[x].ref
  BY <1>2, <1>3, <1>7 DEF ArrivedFrom, SameOrder
<1>10. gone \subseteq DOMAIN om /\ id \notin DOMAIN om
       /\ DOMAIN new = (DOMAIN om \ gone) \union DOMAIN rest
  BY <1>2, <1>3 DEF ArrivedFrom, OnSide
<1>11. OrdersMove(os, m, gone, rest, ns)
  BY <1>1, <1>4, <1>5, <1>7, <1>8, <1>9, <1>10 DEF OrdersMove
<1>12. ComesFrom(order, rest)
  BY <1>7 DEF ComesFrom, NewOf
<1> QED
  BY <1>2, <1>11, <1>12

\* The orders of a list that are done by a change.
DoneOf(ids, after) == {id \in ToSet(ids) : Done(after[id])}

\* By a change no order comes.
LEMMA ChangedMoves ==
    ASSUME NEW os, NEW m \in Markets, m \in DOMAIN os,
           NEW b, NEW last, NEW ids, NEW after, NEW nb, NEW new,
           Changed(b, os[m], last, ids, after, nb, new),
           NEW ns, ns = [os EXCEPT ![m] = new]
    PROVE  OrdersMove(os, m, DoneOf(ids, after), <<>>, ns)
<1>1. PICK om : om = os[m]
  OBVIOUS
<1>2. PICK gone : gone = {x \in ToSet(ids) : Done(after[x])}
  OBVIOUS
<1>3. Changed(b, om, last, ids, after, nb, new)
  BY <1>1
<1>4. ChangedFrom(om, ids, after, new)
  BY <1>3, ChangedOrders
<1>5. DOMAIN new = DOMAIN om \ gone /\ \A x \in DOMAIN new : SameOrder(om[x], new[x])
  BY <1>2, <1>4 DEF ChangedFrom
<1>6. gone \subseteq DOMAIN om
  BY <1>2, <1>3 DEF Changed, Change, ToSet
<1>7. ns[m] = new /\ DOMAIN ns = DOMAIN os /\ \A x \in DOMAIN os \ {m} : ns[x] = os[x]
  OBVIOUS
<1>8. DOMAIN <<>> = {}
  OBVIOUS
<1> QED
  BY <1>1, <1>2, <1>5, <1>6, <1>7, <1>8 DEF OrdersMove, SameOrder, DoneOf

-----------------------------------------------------------------------------
(* Ways for an operation to end. *)

\* A market is still good when it has only got another state or a greater last
\* id.
LEMMA MarketStays ==
    ASSUME NEW market, NEW b, NEW os, GoodMarket(market, b, os),
           NEW new \in Market, market.maxId =< new.maxId
    PROVE  GoodMarket(new, b, os)
<1>1. market.maxId \in Nat /\ new.maxId \in Nat
  <2>1. 0..MaxId \subseteq Nat
    BY EngineAssumption
  <2>2. market \in Market
    BY DEF GoodMarket
  <2> QED
    BY <2>1, <2>2 DEF Market
<1>2. 1..market.maxId \subseteq 1..new.maxId
  BY <1>1
<1> QED
  BY <1>2 DEF GoodMarket, GoodOrders

\* All markets are good when the one that has changed is.
LEMMA MarketsStay ==
    ASSUME NEW ms, NEW bs, NEW os, GoodMarkets(ms, bs, os), NEW m \in DOMAIN ms,
           NEW x, NEW b, NEW o, GoodMarket(x, b, o)
    PROVE  GoodMarkets([ms EXCEPT ![m] = x], [bs EXCEPT ![m] = b], [os EXCEPT ![m] = o])
<1>1. PICK nms, nbs, nos : /\ nms = [ms EXCEPT ![m] = x] /\ nbs = [bs EXCEPT ![m] = b]
                           /\ nos = [os EXCEPT ![m] = o]
  OBVIOUS
<1>2. m \in DOMAIN bs /\ m \in DOMAIN os
  BY DEF GoodMarkets
<1>3. /\ DOMAIN nms = DOMAIN ms /\ DOMAIN nbs = DOMAIN bs /\ DOMAIN nos = DOMAIN os
      /\ nms[m] = x /\ nbs[m] = b /\ nos[m] = o
      /\ \A y \in DOMAIN ms : y # m => nms[y] = ms[y]
      /\ \A y \in DOMAIN bs : y # m => nbs[y] = bs[y]
      /\ \A y \in DOMAIN os : y # m => nos[y] = os[y]
  BY <1>1, <1>2
<1> QED
  BY <1>1, <1>3 DEF GoodMarkets

\* The market m of good markets.
LEMMA TheMarket ==
    ASSUME NEW ms, NEW bs, NEW os, GoodMarkets(ms, bs, os), NEW m \in DOMAIN ms
    PROVE  /\ GoodMarket(ms[m], bs[m], os[m]) /\ ms[m] \in Market /\ m \in Markets
           /\ ms[m].maxId \in Nat /\ m \in DOMAIN bs /\ m \in DOMAIN os
<1>1. GoodMarket(ms[m], bs[m], os[m]) /\ m \in Markets /\ m \in DOMAIN bs /\ m \in DOMAIN os
  BY DEF GoodMarkets
<1>2. ms[m] \in Market
  BY <1>1 DEF GoodMarket
<1>3. ms[m].maxId \in Nat
  <2>1. 0..MaxId \subseteq Nat
    BY EngineAssumption
  <2> QED
    BY <1>2, <2>1 DEF Market
<1> QED
  BY <1>1, <1>2, <1>3

\* A market takes n ids.
LEMMA TakeIds ==
    ASSUME NEW ms, NEW bs, NEW os, GoodMarkets(ms, bs, os), NEW m \in DOMAIN ms,
           NEW n \in Nat, ms[m].maxId + n =< MaxId
    PROVE  GoodMarkets([ms EXCEPT ![m].maxId = @ + n], bs, os)
<1>1. PICK old, b, o : old = ms[m] /\ b = bs[m] /\ o = os[m]
  OBVIOUS
<1>2. /\ GoodMarket(old, b, o) /\ old \in Market /\ old.maxId \in Nat
      /\ m \in DOMAIN bs /\ m \in DOMAIN os
  BY <1>1, TheMarket
<1>3. PICK new : new = [old EXCEPT !.maxId = @ + n]
  OBVIOUS
<1>4. new \in Market /\ new.maxId = old.maxId + n /\ old.maxId =< new.maxId
  <2>1. old.maxId + n \in 0..MaxId
    BY <1>1, <1>2, EngineAssumption
  <2>2. new \in Market /\ new.maxId = old.maxId + n
    BY <1>2, <1>3, <2>1 DEF Market
  <2> QED
    BY <1>2, <2>2
<1>5. GoodMarket(new, b, o)
  BY <1>2, <1>4, MarketStays
<1>6. [ms EXCEPT ![m].maxId = @ + n] = [ms EXCEPT ![m] = new]
  BY <1>1, <1>3
<1>7. PICK nms : nms = [ms EXCEPT ![m] = new]
  OBVIOUS
<1>8. DOMAIN nms = DOMAIN ms /\ nms[m] = new /\ \A x \in DOMAIN ms : x # m => nms[x] = ms[x]
  BY <1>7
<1>9. GoodMarkets(nms, bs, os)
  BY <1>1, <1>5, <1>8 DEF GoodMarkets
<1> QED
  BY <1>6, <1>7, <1>9

\* Nothing was changed.
LEMMA NothingChanged ==
    ASSUME EngineInv, res' \in {"ok", "error", "abort"},
           UNCHANGED <<day, markets, books, orders, sessVars, posns>>
    PROVE  EngineInv'
BY DEF EngineInv, sessVars

\* The operation threw after it had taken ids.
LEMMA FailKeeps ==
    ASSUME EngineInv, NEW m \in DOMAIN markets, NEW n \in Nat, markets[m].maxId + n =< MaxId,
           FailAfterIds(m, n), GoodPosns(posns')
    PROVE  EngineInv'
<1>1. GoodMarkets([markets EXCEPT ![m].maxId = @ + n], books, orders)
  BY TakeIds DEF EngineInv
<1>2. /\ res' = "error" /\ markets' = [markets EXCEPT ![m].maxId = @ + n]
      /\ UNCHANGED <<day, books, orders, sessVars>>
  BY DEF FailAfterIds
<1> QED
  BY <1>1, <1>2 DEF EngineInv, sessVars

\* The business day passes.
LEMMA NextDayKeeps ==
    ASSUME EngineInv, NextDay
    PROVE  EngineInv'
<1>1. day' \in 1..MaxDay
  BY EngineAssumption DEF EngineInv, NextDay
<1> QED
  BY <1>1 DEF EngineInv, NextDay, sessVars

\* A market is created.
LEMMA CreateMarketKeeps ==
    ASSUME EngineInv, NEW m \in Markets, NEW state \in MarketStates, CreateMarket(m, state)
    PROVE  EngineInv'
<1> DEFINE new == [state |-> state, maxId |-> 0, lastLots |-> 0, lastTicks |-> 0]
           empty == [s \in Sides |-> EmptySide]
<1>1. \/ /\ UNCHANGED <<day, markets, books, orders, sessVars, posns>>
         /\ res' \in {"ok", "error", "abort"}
      \/ /\ m \notin DOMAIN markets /\ res' = "ok"
         /\ markets' = Put(markets, m, new)
         /\ books' = Put(books, m, empty)
         /\ orders' = Put(orders, m, <<>>)
         /\ UNCHANGED <<day, sessVars, posns>>
  BY DEF CreateMarket, Refuse, Post
<1>2. ASSUME m \notin DOMAIN markets,
             markets' = Put(markets, m, new), books' = Put(books, m, empty),
             orders' = Put(orders, m, <<>>), UNCHANGED <<day, sessVars, posns>>,
             res' = "ok"
      PROVE  EngineInv'
  <2>1. GoodMarkets(markets, books, orders) /\ GoodSessions(orders, sessOrders, refIdx)
    BY DEF EngineInv
  <2>2. GoodMarket(new, empty, <<>>)
    <3>1. new \in Market
      BY EngineAssumption DEF Market
    <3>2. DOMAIN <<>> = {} /\ \A s : OnSide(<<>>, s) = {}
      BY DEF OnSide
    <3>3. GoodOrders(<<>>, 0) /\ Uncrossed(<<>>)
      BY <3>2 DEF GoodOrders, Uncrossed
    <3>4. \A s \in Sides : BookSide(empty[s], <<>>) /\ ToSet(empty[s].list) = {}
      BY EmptySideIsBook
    <3>5. GoodBook(empty, <<>>)
      BY <3>2, <3>4 DEF GoodBook
    <3> QED
      BY <3>1, <3>3, <3>5 DEF GoodMarket
  <2> HIDE DEF new, empty
  <2>3. /\ DOMAIN markets' = DOMAIN markets \union {m} /\ markets'[m] = new
        /\ \A x \in DOMAIN markets : markets'[x] = markets[x]
    BY <1>2 DEF Put
  <2>4. /\ DOMAIN books' = DOMAIN books \union {m} /\ books'[m] = empty
        /\ \A x \in DOMAIN books : books'[x] = books[x]
        /\ books' = [x \in DOMAIN books' |-> books'[x]]
    BY <1>2, <2>1 DEF Put, GoodMarkets
  <2>5. /\ DOMAIN orders' = DOMAIN orders \union {m} /\ orders'[m] = <<>>
        /\ \A x \in DOMAIN orders : orders'[x] = orders[x]
    BY <1>2, <2>1 DEF Put, GoodMarkets
  <2>6. GoodMarkets(markets', books', orders')
    BY <2>1, <2>2, <2>3, <2>4, <2>5 DEF GoodMarkets
  <2>7. sessOrders' = sessOrders /\ refIdx' = refIdx
    BY <1>2 DEF sessVars
  <2>8. \A a : KeysOf(orders', a) = KeysOf(orders, a)
    BY <2>1, <2>5 DEF KeysOf
  <2>9. GoodSessions(orders', sessOrders, refIdx)
    BY <2>1, <2>5, <2>8, SMTT(60) DEF GoodSessions, GoodRefs, KeysOf
  <2> QED
    BY <1>2, <2>6, <2>7, <2>9 DEF EngineInv, sessVars
<1> QED
  BY <1>1, <1>2, NothingChanged

\* A market gets another state.
LEMMA UpdateMarketKeeps ==
    ASSUME EngineInv, NEW m \in DOMAIN markets, NEW state \in MarketStates,
           UpdateMarket(m, state)
    PROVE  EngineInv'
<1>1. PICK new : new = [markets[m] EXCEPT !.state = state]
  OBVIOUS
<1>2. GoodMarkets(markets, books, orders)
  BY DEF EngineInv
<1>3. GoodMarket(markets[m], books[m], orders[m]) /\ markets[m] \in Market
      /\ markets[m].maxId \in Nat
  BY <1>2, TheMarket
<1>4. new \in Market /\ markets[m].maxId =< new.maxId
  BY <1>1, <1>3 DEF Market
<1>5. GoodMarket(new, books[m], orders[m])
  BY <1>3, <1>4, MarketStays
<1>6. CASE res' = "ok" /\ markets' = [markets EXCEPT ![m].state = state]
           /\ UNCHANGED <<day, books, orders, sessVars, posns>>
  <2>1. markets' = [markets EXCEPT ![m] = new]
    BY <1>1, <1>6
  <2>2. DOMAIN markets' = DOMAIN markets /\ markets'[m] = new
        /\ \A x \in DOMAIN markets : x # m => markets'[x] = markets[x]
    BY <2>1
  <2>3. GoodMarkets(markets', books, orders)
    BY <1>2, <1>5, <2>2 DEF GoodMarkets
  <2> QED
    BY <1>6, <2>3 DEF EngineInv, sessVars
<1>7. CASE res' = "error" /\ UNCHANGED <<day, markets, books, orders, sessVars, posns>>
  BY <1>7, NothingChanged
<1> QED
  BY <1>6, <1>7 DEF UpdateMarket, Post

-----------------------------------------------------------------------------
(* create_order. *)

\* A new order, and the positions that its matches need.
OrderOf(a, ref, side, lots, ticks, minLots) ==
    [accnt |-> a, ref |-> ref, side |-> side, ticks |-> ticks,
     lots |-> lots, resd |-> lots, exec |-> 0, cost |-> 0, minLots |-> minLots]

MakersOf(ms, j) == {ms[i].maker.accnt : i \in 1..j}

PosnsFor(a, m, ms) ==
    EnsurePosns(posns, IF Len(ms) = 0 THEN {} ELSE MakersOf(ms, Len(ms)) \union {a}, m)

\* Its own side with what is left of it.
OwnSideAfter(m, side, id, order, ms) ==
    IF Done(AfterMatches(order, ms)) THEN books[m][side]
    ELSE InsertOrder(books[m][side], id, AfterMatches(order, ms))

\* What is committed of it.
OrderBooked(a, m, side, id, order, ms) ==
    LET batch == OrderExecs(m, id, order, ms)
    IN  /\ Post(ExecMsgs(batch))
        /\ markets' = [markets EXCEPT
               ![m].maxId = @ + Len(batch),
               ![m].lastLots = IF Len(ms) = 0 THEN @ ELSE Last(ms).lots,
               ![m].lastTicks = IF Len(ms) = 0 THEN @ ELSE Last(ms).ticks]
        /\ books' = [books EXCEPT
               ![m][side] = OwnSideAfter(m, side, id, order, ms),
               ![m][Opposite(side)] = TakeMakers(books[m][Opposite(side)], ms)]
        /\ orders' = [orders EXCEPT ![m] = TradedOrders(orders[m], ms, Rest(id, order, ms))]
        /\ SessUpdate(m, DoneMakers(ms), Rest(id, order, ms))
        /\ trades' = InsertTrades(trades, batch)
        /\ execs' = PushExecs(execs, batch)
        /\ posns' = AddTrades(PosnsFor(a, m, ms), batch)
        /\ UNCHANGED day

\* What is undone of it when the queue refuses.
OrderUndone(a, m, side, id, order, ms) ==
    /\ QueueFails(ExecMsgs(OrderExecs(m, id, order, ms)))
    /\ res' = "error"
    /\ markets' = [markets EXCEPT ![m].maxId = @ + Len(OrderExecs(m, id, order, ms))]
    /\ books' = [books EXCEPT ![m][side] =
            IF Done(AfterMatches(order, ms)) THEN OwnSideAfter(m, side, id, order, ms)
            ELSE RemoveOrder(OwnSideAfter(m, side, id, order, ms), id, AfterMatches(order, ms))]
    /\ posns' = PosnsFor(a, m, ms)
    /\ UNCHANGED <<day, orders, sessVars>>

\* What stays of it when memory runs out.
OrderDropped(a, m, ms) ==
    /\ MemoryFails
    /\ \E j \in 0..Len(ms) :
        /\ FailAfterIds(m, 1 + 2 * j)
        /\ \/ posns' = EnsurePosns(posns, MakersOf(ms, j - 1), m)
           \/ posns' = EnsurePosns(posns, MakersOf(ms, j), m)
           \/ j = Len(ms) /\ posns' = PosnsFor(a, m, ms)

\* create_order lets an order through.
OrderPasses(a, ref, lots, minLots, id, ms) ==
    /\ ~(ref # NoRef /\ ref \in DOMAIN refIdx[a])
    /\ lots > 0 /\ lots >= minLots
    /\ id + 2 * Len(ms) =< MaxId

\* create_order refuses, or the order passes its checks and is booked, undone or
\* dropped.
LEMMA CreateOrderIs ==
    ASSUME NEW a, NEW m, NEW ref, NEW side, NEW lots, NEW ticks, NEW minLots,
           CreateOrder(a, m, ref, side, lots, ticks, minLots)
    PROVE  LET order == OrderOf(a, ref, side, lots, ticks, minLots)
               id == markets[m].maxId + 1
               ms == Matches(order, books[m][Opposite(side)].list, orders[m])
           IN  \/ Refuse
               \/ /\ OrderPasses(a, ref, lots, minLots, id, ms)
                  /\ \/ OrderBooked(a, m, side, id, order, ms)
                     \/ OrderUndone(a, m, side, id, order, ms)
                     \/ OrderDropped(a, m, ms)
BY ONLY CreateOrder(a, m, ref, side, lots, ticks, minLots), Zenon
   DEF CreateOrder, OrderOf, OrderPasses, OrderBooked, OrderUndone, OrderDropped,
       PosnsFor, MakersOf, Rest, OwnSideAfter

\* An order that passes arrives at its market.
NewOrder(a, m, ref, side, lots, ticks, minLots, id, order, ms) ==
    /\ a \in Accnts /\ m \in DOMAIN markets /\ ref \in Refs \union {NoRef}
    /\ side \in Sides /\ lots \in 0..MaxLots /\ ticks \in 1..MaxTicks
    /\ minLots \in MinLots
    /\ order = OrderOf(a, ref, side, lots, ticks, minLots)
    /\ id = markets[m].maxId + 1
    /\ ms = Matches(order, books[m][Opposite(side)].list, orders[m])
    /\ OrderPasses(a, ref, lots, minLots, id, ms)

\* An order that passes arrives at a market whose books are right, with an id that
\* its market has not given out, and its execs are good.
LEMMA NewOrderArrives ==
    ASSUME EngineInv, NEW a, NEW m, NEW ref, NEW side, NEW lots, NEW ticks, NEW minLots,
           NEW id, NEW order, NEW ms,
           NewOrder(a, m, ref, side, lots, ticks, minLots, id, order, ms)
    PROVE  /\ Arrival(books[m], orders[m], id, order, ms)
           /\ order.side = side /\ order.accnt = a /\ order.ref = ref
           /\ m \in Markets /\ m \in DOMAIN orders /\ m \in DOMAIN books
           /\ Len(ms) \in Nat /\ id + 2 * Len(ms) =< MaxId /\ id =< MaxId
           /\ GoodBatch(OrderExecs(m, id, order, ms))
           /\ Len(OrderExecs(m, id, order, ms)) = 2 * Len(ms) + 1
           /\ \A j \in 0..Len(ms) : 1 + 2 * j \in Nat /\ markets[m].maxId + (1 + 2 * j) =< MaxId
<1>1. /\ GoodMarkets(markets, books, orders) /\ m \in DOMAIN markets
      /\ a \in Accnts /\ ref \in Refs \union {NoRef} /\ side \in Sides
      /\ lots \in 0..MaxLots /\ ticks \in 1..MaxTicks /\ minLots \in MinLots
      /\ lots > 0 /\ lots >= minLots
      /\ id = markets[m].maxId + 1 /\ id + 2 * Len(ms) =< MaxId
  BY DEF EngineInv, NewOrder, OrderPasses
<1>2. /\ GoodMarket(markets[m], books[m], orders[m]) /\ m \in Markets
      /\ markets[m].maxId \in Nat /\ m \in DOMAIN books /\ m \in DOMAIN orders
  BY <1>1, TheMarket
<1>3. id \in Nat \ {0} /\ id - 1 = markets[m].maxId
  BY <1>1, <1>2
<1>4. lots \in 1..MaxLots
  BY <1>1, EngineAssumption
<1>5. GoodOrder(order)
  BY <1>1, <1>4, FreshOrder DEF NewOrder, OrderOf
<1>6. order.side = side /\ order.accnt = a /\ order.ref = ref
  BY DEF NewOrder, OrderOf
<1>7. Arrival(books[m], orders[m], id, order, ms)
  BY <1>2, <1>3, <1>5, <1>6 DEF Arrival, GoodMarket, NewOrder
<1>8. /\ GoodBatch(OrderExecs(m, id, order, ms))
      /\ Len(OrderExecs(m, id, order, ms)) = 2 * Len(ms) + 1
      /\ Len(ms) \in Nat
  BY <1>1, <1>2, <1>7, OrderExecsGood
<1>9. id =< MaxId /\ \A j \in 0..Len(ms) : 1 + 2 * j \in Nat /\ markets[m].maxId + (1 + 2 * j) =< MaxId
  <2>1. PICK n \in Nat, last \in Nat : n = Len(ms) /\ last = markets[m].maxId
    BY <1>2, <1>8
  <2>2. id = last + 1 /\ id + 2 * n =< MaxId
    BY <1>1, <2>1
  <2>3. id =< MaxId
    BY <2>2, EngineAssumption
  <2>4. \A j \in 0..n : 1 + 2 * j \in Nat /\ last + (1 + 2 * j) =< MaxId
    BY <2>2, EngineAssumption
  <2> QED
    BY <2>1, <2>3, <2>4
<1> QED
  BY <1>1, <1>2, <1>6, <1>7, <1>8, <1>9

\* The positions that it needs are good.
LEMMA PosnsForGood ==
    ASSUME EngineInv, NEW a, NEW m \in Markets, NEW ms
    PROVE  /\ GoodPosns(PosnsFor(a, m, ms))
           /\ \A accnts : GoodPosns(EnsurePosns(posns, accnts, m))
<1>1. \A accnts : GoodPosns(EnsurePosns(posns, accnts, m))
  <2> TAKE accnts
  <2>1. GoodPosns(posns)
    BY DEF EngineInv
  <2> QED
    BY <2>1, EnsurePosnsIs
<1> QED
  BY <1>1 DEF PosnsFor

\* A new order that is committed.
LEMMA BookedKeeps ==
    ASSUME EngineInv, NEW a, NEW m, NEW ref, NEW side, NEW lots, NEW ticks, NEW minLots,
           NEW id, NEW order, NEW ms,
           NewOrder(a, m, ref, side, lots, ticks, minLots, id, order, ms),
           OrderBooked(a, m, side, id, order, ms)
    PROVE  EngineInv'
<1>1. /\ Arrival(books[m], orders[m], id, order, ms)
      /\ order.side = side /\ order.accnt = a /\ order.ref = ref
      /\ m \in Markets /\ m \in DOMAIN orders /\ m \in DOMAIN books
      /\ Len(ms) \in Nat /\ id + 2 * Len(ms) =< MaxId /\ id =< MaxId
  BY NewOrderArrives
<1>2. PICK batch : batch = OrderExecs(m, id, order, ms)
  OBVIOUS
<1>3. GoodBatch(batch) /\ Len(batch) = 2 * Len(ms) + 1
  BY <1>2, NewOrderArrives
<1>4. /\ GoodMarkets(markets, books, orders) /\ m \in DOMAIN markets
      /\ GoodSessions(orders, sessOrders, refIdx)
      /\ trades \in [Accnts -> SUBSET Keys] /\ execs \in Histories /\ GoodPosns(posns)
      /\ a \in Accnts /\ side \in Sides /\ id = markets[m].maxId + 1
      /\ (ref # NoRef => ref \notin DOMAIN refIdx[a])
  BY DEF EngineInv, NewOrder, OrderPasses
<1>5. PICK b, os, new : b = books[m] /\ os = orders[m] /\ new = Rest(id, order, ms)
  OBVIOUS
<1>6. PICK ns : ns = TradedOrders(os, ms, new)
  OBVIOUS
<1>7. PICK own, opp : own = OwnSideAfter(m, side, id, order, ms)
                      /\ opp = TakeMakers(books[m][Opposite(side)], ms)
  OBVIOUS
<1>8. PICK nb : nb = [b EXCEPT ![side] = own, ![Opposite(side)] = opp]
  OBVIOUS
<1>9. b = [s \in Sides |-> b[s]] /\ Opposite(side) # side
  BY <1>1, <1>4, <1>5, SidesAre DEF Arrival, GoodBook
<1>10. Arrived(b, os, id, order, ms, nb, ns)
  <2>1. own = IF Done(AfterMatches(order, ms)) THEN b[side]
              ELSE InsertOrder(b[side], id, AfterMatches(order, ms))
    BY <1>5, <1>7 DEF OwnSideAfter
  <2>2. opp = TakeMakers(b[Opposite(side)], ms)
    BY <1>5, <1>7
  <2>3. nb = [b EXCEPT
                ![order.side] = IF Done(AfterMatches(order, ms)) THEN @
                                ELSE InsertOrder(@, id, AfterMatches(order, ms)),
                ![Opposite(order.side)] = TakeMakers(@, ms)]
    BY <1>1, <1>8, <1>9, <2>1, <2>2
  <2> QED
    BY <1>1, <1>5, <1>6, <2>3 DEF Arrived
<1>11. PICK old \in Market : old = markets[m] /\ old.maxId \in Nat /\ old.maxId = id - 1
  BY <1>4, TheMarket
<1>12. PICK n \in Nat : n = Len(ms) /\ Len(batch) = 2 * n + 1 /\ id + 2 * n =< MaxId
  BY <1>1, <1>3
<1>13. PICK last, lots0, ticks0 :
            /\ last = old.maxId + Len(batch)
            /\ lots0 = IF n = 0 THEN old.lastLots ELSE Last(ms).lots
            /\ ticks0 = IF n = 0 THEN old.lastTicks ELSE Last(ms).ticks
  OBVIOUS
<1>14. last \in 0..MaxId /\ id =< last
  BY <1>4, <1>11, <1>12, <1>13, EngineAssumption
<1>15. lots0 \in 0..MaxLots /\ ticks0 \in 0..MaxTicks
  <2>1. old.lastLots \in 0..MaxLots /\ old.lastTicks \in 0..MaxTicks
    BY DEF Market
  <2>2. ASSUME n # 0
        PROVE  Last(ms).lots \in 0..MaxLots /\ Last(ms).ticks \in 0..MaxTicks
    <3>1. n \in 1..Len(ms) /\ Last(ms) = ms[n]
      BY <1>12, <2>2 DEF Last
    <3>2. PICK x : x = ms[n].id
      OBVIOUS
    <3>3. /\ GoodOrder(os[x]) /\ ms[n].lots \in Nat /\ ms[n].lots =< os[x].resd
          /\ ms[n].ticks \in 1..MaxTicks
      BY <1>1, <1>5, <3>1, <3>2, MakerIs
    <3>4. os[x].resd \in 1..MaxLots
      BY <3>3, OrderFields DEF GoodOrder
    <3>5. ms[n].lots \in 0..MaxLots /\ ms[n].ticks \in 0..MaxTicks
      BY <3>3, <3>4, EngineAssumption
    <3> QED
      BY <3>1, <3>5
  <2> QED
    BY <1>13, <2>1, <2>2
<1>16. PICK u : u = [old EXCEPT !.maxId = last]
  OBVIOUS
<1>17. PICK v : v = [u EXCEPT !.lastLots = lots0]
  OBVIOUS
<1>18. PICK market : market = [v EXCEPT !.lastTicks = ticks0]
  OBVIOUS
<1>19. u \in Market /\ u.maxId = last /\ u.lastLots = old.lastLots /\ u.lastTicks = old.lastTicks
  BY <1>14, <1>16 DEF Market
<1>20. v \in Market /\ v.maxId = last /\ v.lastTicks = old.lastTicks
  BY <1>15, <1>17, <1>19 DEF Market
<1>21. market \in Market /\ market.maxId = last
  BY <1>15, <1>18, <1>20 DEF Market
<1>22. markets' = [markets EXCEPT ![m] = market]
  <2>1. PICK ms1 : ms1 = [markets EXCEPT ![m] = u]
    OBVIOUS
  <2>2. PICK ms2 : ms2 = [ms1 EXCEPT ![m] = v]
    OBVIOUS
  <2>3. ms1[m] = u /\ ms2[m] = v
    BY <1>4, <2>1, <2>2
  <2>4. markets' = [ms2 EXCEPT ![m] = market]
    BY <1>2, <1>11, <1>12, <1>13, <1>16, <1>17, <1>18, <1>19, <1>20, <2>1, <2>2, <2>3, Zenon DEF OrderBooked
  <2> QED
    BY <2>1, <2>2, <2>4
<1>23. books' = [books EXCEPT ![m] = nb]
  BY <1>1, <1>5, <1>7, <1>8 DEF OrderBooked
<1>24. PICK all : all = [orders EXCEPT ![m] = ns] /\ orders' = all
  BY <1>5, <1>6 DEF OrderBooked
<1>25. GoodMarkets(markets', books', orders')
  <2>1. GoodMarket(market, nb, ns)
    BY <1>10, <1>14, <1>21, ArrivedMarket
  <2> QED
    BY <1>4, <1>22, <1>23, <1>24, <2>1, MarketsStay
<1>26. GoodSessions(orders', sessOrders', refIdx')
  <2>1. Arrived(b, orders[m], id, order, ms, nb, ns)
    BY <1>5, <1>10
  <2>2. OrdersMove(orders, m, DoneMakers(ms), new, all) /\ ComesFrom(order, new)
    <3>1. /\ OrdersMove(orders, m, DoneMakers(ms), Rest(id, order, ms), all)
          /\ ComesFrom(order, Rest(id, order, ms))
      BY <1>1, <1>24, <2>1, ArrivedMoves
    <3> QED
      BY <1>5, <3>1
  <2>3. \A c \in Accnts : \A x \in NewOf(new, c) : new[x].ref \notin DOMAIN refIdx[c]
    <3>1. GoodRefs(orders, sessOrders[a], refIdx[a])
      BY <1>4 DEF GoodSessions
    <3>2. NoRef \notin DOMAIN refIdx[a]
      BY <3>1, EngineAssumption DEF GoodRefs
    <3>3. ref \notin DOMAIN refIdx[a]
      BY <1>4, <3>2
    <3> QED
      BY <1>1, <2>2, <3>3 DEF ComesFrom
  <2>4. SessUpdate(m, DoneMakers(ms), new)
    BY <1>5 DEF OrderBooked
  <2>5. GoodSessions(all, sessOrders', refIdx')
    BY <1>4, <2>2, <2>3, <2>4, SessUpdateGood
  <2> QED
    BY <1>24, <2>5
<1>27. trades' \in [Accnts -> SUBSET Keys]
  <2>1. trades' = InsertTrades(trades, batch)
    BY <1>2 DEF OrderBooked
  <2> QED
    BY <1>3, <1>4, <2>1, InsertTradesType
<1>28. execs' \in Histories
  <2>1. execs' = PushExecs(execs, batch)
    BY <1>2 DEF OrderBooked
  <2> QED
    BY <1>3, <1>4, <2>1, PushExecsType
<1>29. GoodPosns(posns')
  <2>1. PICK ps : ps = PosnsFor(a, m, ms)
    OBVIOUS
  <2>2. GoodPosns(ps)
    BY <1>1, <2>1, PosnsForGood
  <2>3. posns' = AddTrades(ps, batch)
    BY <1>2, <2>1 DEF OrderBooked
  <2> QED
    BY <1>3, <2>2, <2>3, AddTradesType
<1>30. day' = day /\ res' = "ok"
  BY DEF OrderBooked, Post
<1> QED
  BY <1>25, <1>26, <1>27, <1>28, <1>29, <1>30 DEF EngineInv

\* The order that was inserted is removed again: the sides are what they were.
LEMMA UndoneSame ==
    ASSUME EngineInv, NEW a, NEW m, NEW ref, NEW side, NEW lots, NEW ticks, NEW minLots,
           NEW id, NEW order, NEW ms,
           NewOrder(a, m, ref, side, lots, ticks, minLots, id, order, ms),
           OrderUndone(a, m, side, id, order, ms)
    PROVE  books' = books
<1>1. /\ Arrival(books[m], orders[m], id, order, ms) /\ order.side = side
      /\ m \in DOMAIN books /\ books = [x \in DOMAIN books |-> books[x]]
      /\ side \in Sides
  <2>1. /\ Arrival(books[m], orders[m], id, order, ms) /\ order.side = side
        /\ m \in DOMAIN books
    BY NewOrderArrives
  <2>2. books = [x \in DOMAIN books |-> books[x]] /\ side \in Sides
    BY DEF EngineInv, GoodMarkets, NewOrder
  <2> QED
    BY <2>1, <2>2
<1>2. PICK b, os, s, rest : /\ b = books[m] /\ os = orders[m] /\ s = b[side]
                            /\ rest = AfterMatches(order, ms)
  OBVIOUS
<1>3. /\ Arrival(b, os, id, order, ms) /\ GoodOrders(os, id - 1) /\ id \in Nat
      /\ b = [t \in Sides |-> b[t]] /\ BookSide(s, os) /\ ToSet(s.list) = OnSide(os, side)
  BY <1>1, <1>2 DEF Arrival, GoodBook
<1>4. PICK undone : undone = IF Done(rest) THEN s
                             ELSE RemoveOrder(InsertOrder(s, id, rest), id, rest)
  OBVIOUS
<1>5. undone = s
  <2>1. CASE Done(rest)
    BY <1>4, <2>1
  <2>2. CASE ~Done(rest)
    <3>1. GoodOrder(rest)
      BY <1>2, <1>3, <2>2, RestIs
    <3>2. LevelKey(rest) \in Int /\ rest.resd \in Nat
      BY <3>1, OrderFields DEF GoodOrder
    <3>3. PICK ns : ns = [x \in DOMAIN os \union {id} |-> IF x = id THEN rest ELSE os[x]]
      OBVIOUS
    <3>4. ns[id] = rest
      BY <3>3
    <3>5. \A x \in ToSet(s.list) : x < id /\ ns[x] = os[x]
      <4>1. \A x \in 1..(id - 1) : x < id
        BY <1>3
      <4>2. \A x \in ToSet(s.list) : x \in DOMAIN os /\ x \in 1..(id - 1) /\ x # id
        BY <1>3, <4>1 DEF OnSide, GoodOrders
      <4> QED
        BY <3>3, <4>1, <4>2
    <3>6. Agree(ToSet(s.list), os, ns) /\ Priced({id}, ns)
      BY <3>2, <3>4, <3>5 DEF Agree, Priced
    <3>7. Arrives(ToSet(s.list), os, id, ns, rest)
      BY <1>3, <3>4, <3>5, <3>6 DEF Arrives
    <3>8. RemoveOrder(InsertOrder(s, id, rest), id, rest) = s
      BY <1>3, <3>7, InsertUndone
    <3> QED
      BY <1>4, <2>2, <3>8
  <2> QED
    BY <2>1, <2>2
<1>6. books' = [books EXCEPT ![m][side] = undone]
  BY <1>2, <1>4 DEF OrderUndone, OwnSideAfter
<1>7. b = [b EXCEPT ![side] = s]
  BY <1>2, <1>3
<1>8. books = [books EXCEPT ![m] = b]
  BY <1>1, <1>2
<1>9. books' = [books EXCEPT ![m] = [b EXCEPT ![side] = s]]
  BY <1>2, <1>5, <1>6
<1> QED
  BY <1>7, <1>8, <1>9

\* A new order that fails keeps the invariant.
LEMMA UndoneKeeps ==
    ASSUME EngineInv, NEW a, NEW m, NEW ref, NEW side, NEW lots, NEW ticks, NEW minLots,
           NEW id, NEW order, NEW ms,
           NewOrder(a, m, ref, side, lots, ticks, minLots, id, order, ms),
           OrderUndone(a, m, side, id, order, ms)
    PROVE  EngineInv'
<1>1. books' = books
  BY UndoneSame
<1>2. m \in Markets /\ m \in DOMAIN markets /\ Len(ms) \in Nat
      /\ Len(OrderExecs(m, id, order, ms)) = 1 + 2 * Len(ms)
  <2>1. m \in DOMAIN markets
    BY DEF NewOrder
  <2>2. m \in Markets /\ Len(ms) \in Nat /\ Len(OrderExecs(m, id, order, ms)) = 2 * Len(ms) + 1
    BY NewOrderArrives
  <2> QED
    BY <2>1, <2>2
<1>3. PICK n \in Nat : n = Len(OrderExecs(m, id, order, ms)) /\ markets[m].maxId + n =< MaxId
  <2>1. Len(ms) \in 0..Len(ms)
    BY <1>2
  <2>2. 1 + 2 * Len(ms) \in Nat /\ markets[m].maxId + (1 + 2 * Len(ms)) =< MaxId
    BY <2>1, NewOrderArrives
  <2> QED
    BY <1>2, <2>2
<1>4. FailAfterIds(m, n)
  BY <1>1, <1>3 DEF OrderUndone, FailAfterIds
<1>5. GoodPosns(posns')
  BY <1>2, PosnsForGood DEF OrderUndone
<1> QED
  BY <1>2, <1>3, <1>4, <1>5, FailKeeps

\* An order for which no memory is left changes nothing but the ids of its market.
LEMMA DroppedKeeps ==
    ASSUME EngineInv, NEW a, NEW m, NEW ref, NEW side, NEW lots, NEW ticks, NEW minLots,
           NEW id, NEW order, NEW ms,
           NewOrder(a, m, ref, side, lots, ticks, minLots, id, order, ms),
           OrderDropped(a, m, ms)
    PROVE  EngineInv'
<1>1. m \in Markets /\ m \in DOMAIN markets
  <2>1. m \in DOMAIN markets
    BY DEF NewOrder
  <2>2. m \in Markets
    BY NewOrderArrives
  <2> QED
    BY <2>1, <2>2
<1>2. PICK j \in 0..Len(ms) : /\ FailAfterIds(m, 1 + 2 * j)
                              /\ \/ \E accnts : posns' = EnsurePosns(posns, accnts, m)
                                 \/ posns' = PosnsFor(a, m, ms)
  BY Zenon DEF OrderDropped
<1>3. 1 + 2 * j \in Nat /\ markets[m].maxId + (1 + 2 * j) =< MaxId
  BY NewOrderArrives
<1>4. GoodPosns(posns')
  BY <1>1, <1>2, PosnsForGood
<1> QED
  BY <1>1, <1>2, <1>3, <1>4, FailKeeps

\* create_order keeps the invariant.
LEMMA CreateOrderKeeps ==
    ASSUME EngineInv, NEW a \in Accnts, NEW m \in DOMAIN markets,
           NEW ref \in Refs \union {NoRef}, NEW side \in Sides, NEW lots \in 0..MaxLots,
           NEW ticks \in 1..MaxTicks, NEW minLots \in MinLots,
           CreateOrder(a, m, ref, side, lots, ticks, minLots)
    PROVE  EngineInv'
<1>1. PICK order : order = OrderOf(a, ref, side, lots, ticks, minLots)
  OBVIOUS
<1>2. PICK id, ms : /\ id = markets[m].maxId + 1
                    /\ ms = Matches(order, books[m][Opposite(side)].list, orders[m])
  OBVIOUS
<1>3. \/ Refuse
      \/ /\ OrderPasses(a, ref, lots, minLots, id, ms)
         /\ \/ OrderBooked(a, m, side, id, order, ms)
            \/ OrderUndone(a, m, side, id, order, ms)
            \/ OrderDropped(a, m, ms)
  BY <1>1, <1>2, CreateOrderIs
<1>4. CASE Refuse
  BY <1>4, NothingChanged DEF Refuse
<1>5. ASSUME OrderPasses(a, ref, lots, minLots, id, ms)
      PROVE  NewOrder(a, m, ref, side, lots, ticks, minLots, id, order, ms)
  BY <1>1, <1>2, <1>5 DEF NewOrder
<1> QED
  BY <1>3, <1>4, <1>5, BookedKeeps, UndoneKeeps, DroppedKeeps

-----------------------------------------------------------------------------
(* revise_order and cancel_order. *)

\* The lists that name an order again that is done by a change.
Stale(ids, after) ==
    \E k \in DOMAIN ids : ids[k] \in DoneOf(ids, after) /\ ~FirstEntry(ids, k)

\* What is committed of a change.
ChangeBooked(m, ids, batch, after) ==
    /\ Post(ExecMsgs(batch))
    /\ markets' = [markets EXCEPT ![m].maxId = @ + Len(ids)]
    /\ books' = [books EXCEPT ![m] = ReduceOrders(@, orders[m], ids, after)]
    /\ orders' = [orders EXCEPT
          ![m] = [id \in DOMAIN orders[m] \ DoneOf(ids, after) |->
                    IF id \in ToSet(ids) THEN after[id] ELSE orders[m][id]]]
    /\ SessUpdate(m, DoneOf(ids, after), <<>>)
    /\ execs' = PushExecs(execs, batch)
    /\ UNCHANGED <<day, trades, posns>>

\* The process ends in the commit phase.
ChangeAborted(m, ids, batch) ==
    /\ res' = "abort"
    /\ out' = ExecMsgs(batch)
    /\ markets' = [markets EXCEPT ![m].maxId = @ + Len(ids)]
    /\ UNCHANGED <<day, books, orders, sessVars, posns>>

\* What remains of a change that throws: the ids that it has taken.
ChangeFailed(m, ids, bad, batch) ==
    \/ /\ bad # {}
       /\ FailAfterIds(m, Min(bad) - 1)
       /\ out' = <<>>
       /\ UNCHANGED posns
    \/ /\ bad = {}
       /\ FailAfterIds(m, Len(ids))
       /\ QueueFails(ExecMsgs(batch))
       /\ UNCHANGED posns
    \/ /\ MemoryFails
       /\ \E j \in 1..(IF bad = {} THEN Len(ids) ELSE Min(bad) - 1) :
             FailAfterIds(m, j)
       /\ UNCHANGED posns

\* How revise_order and cancel_order end.
LEMMA ChangeOrdersIs ==
    ASSUME NEW m, NEW ids, NEW bad, NEW batch, NEW after,
           ChangeOrders(m, ids, bad, batch, after)
    PROVE  /\ markets[m].maxId + Len(ids) =< MaxId
           /\ \/ ChangeFailed(m, ids, bad, batch)
              \/ /\ bad = {}
                 /\ ~Stale(ids, after)
                 /\ ChangeBooked(m, ids, batch, after)
              \/ bad = {} /\ ChangeAborted(m, ids, batch)
BY ONLY ChangeOrders(m, ids, bad, batch, after), Zenon
   DEF ChangeOrders, ChangeBooked, ChangeAborted, ChangeFailed, DoneOf, Stale

\* The exec e says what becomes of the order "oid": it is "new".
ExecTells(e, oid, new) == e.orderId = oid /\ OrderIn(e) = new

\* What the lists must say that revise_order and cancel_order work through.
GoodChange(a, m, ids, bad, batch, after) ==
    /\ a \in Accnts /\ m \in DOMAIN markets
    /\ Len(ids) \in Nat /\ DOMAIN ids = 1..Len(ids)
    /\ bad \subseteq 1..Len(ids)
    /\ batch = [k \in 1..Len(ids) |-> batch[k]]
    /\ bad = {} => \A k \in 1..Len(ids) :
            /\ ids[k] \in DOMAIN orders[m]
            /\ ChangesTo(orders[m][ids[k]], after[ids[k]])
            /\ ExecIs(batch[k], a, m, markets[m].maxId + k, 0, 0)
            /\ batch[k].state \in {"Revise", "Cancel"}
            /\ ExecTells(batch[k], ids[k], after[ids[k]])

\* A change that is committed keeps the invariant.
LEMMA ChangeBookedKeeps ==
    ASSUME EngineInv, NEW a, NEW m, NEW ids, NEW batch, NEW after,
           GoodChange(a, m, ids, {}, batch, after), markets[m].maxId + Len(ids) =< MaxId,
           ~Stale(ids, after), ChangeBooked(m, ids, batch, after)
    PROVE  EngineInv'
<1>1. /\ GoodMarkets(markets, books, orders) /\ GoodSessions(orders, sessOrders, refIdx)
      /\ execs \in Histories /\ m \in DOMAIN markets /\ a \in Accnts
  BY DEF EngineInv, GoodChange
<1>2. PICK b, os, last : b = books[m] /\ os = orders[m] /\ last = markets[m].maxId
  OBVIOUS
<1>3. /\ GoodMarket(markets[m], b, os) /\ markets[m] \in Market /\ m \in Markets
      /\ last \in Nat /\ m \in DOMAIN books /\ m \in DOMAIN orders
  BY <1>1, <1>2, TheMarket
<1>4. PICK n \in Nat : n = Len(ids) /\ DOMAIN ids = 1..n /\ last + n =< MaxId
  BY <1>2 DEF GoodChange
<1>5. \A k \in 1..n : /\ ids[k] \in DOMAIN os
                      /\ ChangesTo(os[ids[k]], after[ids[k]])
                      /\ ExecIs(batch[k], a, m, last + k, 0, 0)
  BY <1>2, <1>4 DEF GoodChange
<1>6. ASSUME NEW k \in 1..n, Done(after[ids[k]])
      PROVE  FirstEntry(ids, k)
  <2>1. ids[k] \in DoneOf(ids, after)
    BY <1>4, <1>6 DEF DoneOf, ToSet
  <2> QED
    BY <1>4, <2>1 DEF Stale
<1>7. Change(b, os, last, ids, after)
  BY <1>2, <1>3, <1>4, <1>5, <1>6 DEF Change, GoodMarket
<1>8. PICK nb, ns :
        /\ nb = ReduceOrders(b, os, ids, after)
        /\ ns = [id \in DOMAIN os \ {x \in ToSet(ids) : Done(after[x])} |->
                    IF id \in ToSet(ids) THEN after[id] ELSE os[id]]
  OBVIOUS
<1>9. Changed(b, os, last, ids, after, nb, ns)
  BY <1>7, <1>8 DEF Changed
<1>10. PICK market : market = [markets[m] EXCEPT !.maxId = @ + n]
  OBVIOUS
<1>11. market \in Market /\ market.maxId = last + n /\ last =< market.maxId
  <2>1. last + n \in 0..MaxId
    BY <1>3, <1>4, EngineAssumption
  <2>2. market \in Market /\ market.maxId = last + n
    BY <1>2, <1>3, <1>10, <2>1 DEF Market
  <2> QED
    BY <1>3, <2>2
<1>12. markets' = [markets EXCEPT ![m] = market]
  BY <1>4, <1>10 DEF ChangeBooked
<1>13. books' = [books EXCEPT ![m] = nb]
  BY <1>2, <1>8 DEF ChangeBooked
<1>14. PICK all : all = [orders EXCEPT ![m] = ns] /\ orders' = all
  BY <1>2, <1>8 DEF ChangeBooked, DoneOf
<1>15. GoodMarkets(markets', books', orders')
  <2>1. GoodMarket(market, nb, ns)
    BY <1>3, <1>9, <1>11, ChangedMarket
  <2> QED
    BY <1>1, <1>12, <1>13, <1>14, <2>1, MarketsStay
<1>16. GoodSessions(orders', sessOrders', refIdx')
  <2>1. Changed(b, orders[m], last, ids, after, nb, ns)
    BY <1>2, <1>9
  <2>3. OrdersMove(orders, m, DoneOf(ids, after), <<>>, all)
    BY <1>3, <1>14, <2>1, ChangedMoves
  <2>4. \A c \in Accnts : \A x \in NewOf(<<>>, c) : <<>>[x].ref \notin DOMAIN refIdx[c]
    BY DEF NewOf
  <2>5. SessUpdate(m, DoneOf(ids, after), <<>>)
    BY DEF ChangeBooked
  <2>6. GoodSessions(all, sessOrders', refIdx')
    BY <1>1, <2>3, <2>4, <2>5, SessUpdateGood
  <2> QED
    BY <1>14, <2>6
<1>17. execs' \in Histories
  <2>1. GoodBatch(batch)
    <3>1. batch = [k \in 1..n |-> batch[k]]
      BY <1>4 DEF GoodChange
    <3> QED
      BY <1>1, <1>3, <1>4, <1>5, <3>1, ChangeExecsGood
  <2>2. execs' = PushExecs(execs, batch)
    BY DEF ChangeBooked
  <2> QED
    BY <1>1, <2>1, <2>2, PushExecsType
<1>18. UNCHANGED <<day, trades, posns>> /\ res' = "ok"
  BY DEF ChangeBooked, Post
<1> QED
  BY <1>15, <1>16, <1>17, <1>18 DEF EngineInv

\* revise_order and cancel_order keep the invariant.
LEMMA ChangeOrdersKeeps ==
    ASSUME EngineInv, NEW a, NEW m, NEW ids, NEW bad, NEW batch, NEW after,
           GoodChange(a, m, ids, bad, batch, after),
           ChangeOrders(m, ids, bad, batch, after)
    PROVE  EngineInv'
<1>1. GoodMarkets(markets, books, orders) /\ GoodPosns(posns) /\ m \in DOMAIN markets
      /\ Len(ids) \in Nat /\ bad \subseteq 1..Len(ids)
  BY DEF EngineInv, GoodChange
<1>2. PICK n \in Nat, last \in Nat : n = Len(ids) /\ last = markets[m].maxId
  BY <1>1, TheMarket
<1>3. last + n =< MaxId
  BY <1>2, ChangeOrdersIs
<1>4. ASSUME NEW j \in Nat, j =< n, FailAfterIds(m, j), UNCHANGED posns
      PROVE  EngineInv'
  <2>1. markets[m].maxId + j =< MaxId
    BY <1>2, <1>3, <1>4, EngineAssumption
  <2>2. GoodPosns(posns')
    BY <1>1, <1>4
  <2> QED
    BY <1>1, <1>4, <2>1, <2>2, FailKeeps
<1>5. ASSUME bad # {}
      PROVE  Min(bad) \in 1..n
  <2>1. bad \subseteq Nat
    BY <1>1, <1>2
  <2>2. \E x \in bad : \A y \in bad : x =< y
    BY <1>5, <2>1, LeastNumber
  <2>3. Min(bad) \in bad
    BY <2>2 DEF Min
  <2> QED
    BY <1>1, <1>2, <2>3
<1>6. CASE ChangeFailed(m, ids, bad, batch)
  <2>1. UNCHANGED posns
    BY <1>6 DEF ChangeFailed
  <2>2. \/ bad # {} /\ FailAfterIds(m, Min(bad) - 1)
        \/ FailAfterIds(m, n)
        \/ \E j \in 1..(IF bad = {} THEN n ELSE Min(bad) - 1) : FailAfterIds(m, j)
    BY <1>2, <1>6 DEF ChangeFailed
  <2>3. bad # {} => Min(bad) - 1 \in Nat /\ Min(bad) - 1 =< n
    BY <1>5
  <2>4. n \in Nat /\ n =< n
    OBVIOUS
  <2>5. \A j \in 1..(IF bad = {} THEN n ELSE Min(bad) - 1) : j \in Nat /\ j =< n
    BY <1>5
  <2> QED
    BY <1>4, <2>1, <2>2, <2>3, <2>4, <2>5
<1>7. CASE bad = {} /\ ~Stale(ids, after) /\ ChangeBooked(m, ids, batch, after)
  <2>1. GoodChange(a, m, ids, {}, batch, after)
    BY <1>7
  <2>2. markets[m].maxId + Len(ids) =< MaxId
    BY <1>2, <1>3
  <2> QED
    BY <1>7, <2>1, <2>2, ChangeBookedKeeps
<1>8. CASE bad = {} /\ ChangeAborted(m, ids, batch)
  <2>1. markets[m].maxId + n =< MaxId
    BY <1>2, <1>3
  <2>2. GoodMarkets([markets EXCEPT ![m].maxId = @ + n], books, orders)
    BY <1>1, <2>1, TakeIds
  <2> QED
    BY <1>2, <1>8, <2>2 DEF EngineInv, ChangeAborted, sessVars
<1> QED
  BY <1>6, <1>7, <1>8, ChangeOrdersIs

\* An order that is found in the session of its account is in its market.
LEMMA FoundOrder ==
    ASSUME EngineInv, NEW a \in Accnts, NEW m, NEW id, <<m, id>> \in sessOrders[a]
    PROVE  /\ m \in DOMAIN markets /\ m \in Markets /\ id \in 1..MaxId
           /\ id \in DOMAIN orders[m] /\ orders[m][id].accnt = a
           /\ GoodOrder(orders[m][id])
<1>1. /\ GoodMarkets(markets, books, orders) /\ sessOrders[a] = KeysOf(orders, a)
  BY DEF EngineInv, GoodSessions
<1>2. <<m, id>> \in KeysOf(orders, a)
  BY <1>1
<1>3. /\ m \in Markets /\ id \in 1..MaxId
      /\ m \in DOMAIN orders /\ id \in DOMAIN orders[m] /\ orders[m][id].accnt = a
  BY <1>2 DEF KeysOf, Keys
<1>4. GoodMarket(markets[m], books[m], orders[m]) /\ m \in DOMAIN markets
  BY <1>1, <1>3 DEF GoodMarkets
<1> QED
  BY <1>3, <1>4 DEF GoodMarket, GoodOrders

\* An operation on orders is a change, or is refused at once.
IsChange ==
    \E a, m, ids, bad, batch, after :
        /\ GoodChange(a, m, ids, bad, batch, after)
        /\ ChangeOrders(m, ids, bad, batch, after)

\* An order is what its parts are.
LEMMA OrderParts ==
    ASSUME NEW order \in Order
    PROVE  order = OrderIn(order)
BY DEF Order, OrderIn

\* The exec of an order says what it is (new_exec).
LEMMA NewTells ==
    ASSUME NEW order \in Order, NEW m, NEW oid, NEW id
    PROVE  ExecTells(NewExec(m, oid, order, id), oid, order)
BY OrderParts DEF OrderIn, NewExec, ExecTells

\* The exec of a revision says what Order::revise makes of the order
\* (Exec::revise).
LEMMA ReviseTells ==
    ASSUME NEW order \in Order, NEW m, NEW oid, NEW id, NEW lots
    PROVE  LET e == ReviseExec(NewExec(m, oid, order, id), lots)
           IN  ExecTells(e, oid, ReviseLots(order, lots)) /\ e.state = "Revise"
<1>1. PICK e : e = ReviseExec(NewExec(m, oid, order, id), lots)
  OBVIOUS
<1>2. /\ e.accnt = order.accnt /\ e.ref = order.ref /\ e.side = order.side
      /\ e.ticks = order.ticks /\ e.lots = lots
      /\ e.resd = order.resd - (order.lots - lots) /\ e.exec = order.exec
      /\ e.cost = order.cost /\ e.minLots = order.minLots
      /\ e.orderId = oid /\ e.state = "Revise"
  BY <1>1 DEF ReviseExec, NewExec
<1>3. PICK o : o = ReviseLots(order, lots)
  OBVIOUS
<1>4. /\ o.accnt = order.accnt /\ o.ref = order.ref /\ o.side = order.side
      /\ o.ticks = order.ticks /\ o.lots = lots
      /\ o.resd = order.resd - (order.lots - lots) /\ o.exec = order.exec
      /\ o.cost = order.cost /\ o.minLots = order.minLots
  BY <1>3 DEF ReviseLots, Order
<1>5. o = OrderIn(o)
  BY <1>3 DEF ReviseLots, Order, OrderIn
<1>6. OrderIn(e) = OrderIn(o)
  BY <1>2, <1>4 DEF OrderIn
<1> QED
  BY <1>1, <1>2, <1>3, <1>5, <1>6 DEF ExecTells

\* The exec of a cancellation says what Order::cancel makes of the order
\* (Exec::cancel).
LEMMA CancelTells ==
    ASSUME NEW order \in Order, NEW m, NEW oid, NEW id
    PROVE  LET e == CancelExec(NewExec(m, oid, order, id))
           IN  ExecTells(e, oid, CancelLots(order)) /\ e.state = "Cancel"
<1>1. PICK e : e = CancelExec(NewExec(m, oid, order, id))
  OBVIOUS
<1>2. /\ e.accnt = order.accnt /\ e.ref = order.ref /\ e.side = order.side
      /\ e.ticks = order.ticks /\ e.lots = order.lots
      /\ e.resd = 0 /\ e.exec = order.exec
      /\ e.cost = order.cost /\ e.minLots = order.minLots
      /\ e.orderId = oid /\ e.state = "Cancel"
  BY <1>1 DEF CancelExec, NewExec
<1>3. PICK o : o = CancelLots(order)
  OBVIOUS
<1>4. /\ o.accnt = order.accnt /\ o.ref = order.ref /\ o.side = order.side
      /\ o.ticks = order.ticks /\ o.lots = order.lots
      /\ o.resd = 0 /\ o.exec = order.exec
      /\ o.cost = order.cost /\ o.minLots = order.minLots
  BY <1>3 DEF CancelLots, Order
<1>5. o = OrderIn(o)
  BY <1>3 DEF CancelLots, Order, OrderIn
<1>6. OrderIn(e) = OrderIn(o)
  BY <1>2, <1>4 DEF OrderIn
<1> QED
  BY <1>1, <1>2, <1>3, <1>5, <1>6 DEF ExecTells

\* revise_order changes the lots of its orders.
LEMMA ReviseOrderIs ==
    ASSUME EngineInv, NEW a \in Accnts, NEW m \in DOMAIN markets,
           NEW ids \in Seq(1..MaxId), NEW lots \in 0..MaxLots,
           ReviseOrder(a, m, ids, lots)
    PROVE  IsChange
<1> DEFINE wrong == {i \in DOMAIN ids :
                    \/ <<m, ids[i]>> \notin sessOrders[a]
                    \/ lots = 0
                    \/ lots > orders[m][ids[i]].lots
                    \/ lots < orders[m][ids[i]].exec
                    \/ lots < orders[m][ids[i]].minLots}
           exec(k) == ReviseExec(NewExec(m, ids[k], orders[m][ids[k]],
                                         markets[m].maxId + k), lots)
           next(id) == ReviseLots(orders[m][id], lots)
<1>1. PICK bad, batch, after :
        /\ bad = wrong /\ batch = [k \in DOMAIN ids |-> exec(k)]
        /\ after = [id \in ToSet(ids) |-> next(id)]
  OBVIOUS
<1>2. ChangeOrders(m, ids, bad, batch, after)
  BY <1>1, Zenon DEF ReviseOrder
<1>3. Len(ids) \in Nat /\ DOMAIN ids = 1..Len(ids)
  OBVIOUS
<1>4. lots \in Nat
  BY EngineAssumption
<1>5. ASSUME bad = {}, NEW k \in 1..Len(ids)
      PROVE  /\ ids[k] \in DOMAIN orders[m]
             /\ ChangesTo(orders[m][ids[k]], after[ids[k]])
             /\ ExecIs(batch[k], a, m, markets[m].maxId + k, 0, 0)
             /\ batch[k].state \in {"Revise", "Cancel"}
             /\ ExecTells(batch[k], ids[k], after[ids[k]])
  <2>1. PICK id, order : id = ids[k] /\ order = orders[m][id]
    OBVIOUS
  <2>2. /\ <<m, id>> \in sessOrders[a] /\ ~(lots > order.lots) /\ ~(lots < order.exec)
        /\ ~(lots < order.minLots)
    BY <1>1, <1>3, <1>5, <2>1
  <2>3. id \in DOMAIN orders[m] /\ order.accnt = a /\ GoodOrder(order)
    BY <2>1, <2>2, FoundOrder
  <2>4. /\ order.lots \in Nat /\ order.exec \in Nat /\ order.minLots \in Nat /\ order.resd \in Nat
        /\ order.resd + order.exec = order.lots
    BY <2>3, OrderFields DEF GoodOrder
  <2>5. lots =< order.lots /\ lots >= order.exec /\ lots >= order.minLots
    BY <1>4, <2>2, <2>4
  <2>6. PICK new : new = ReviseLots(order, lots)
    OBVIOUS
  <2>7. /\ new.resd = lots - order.exec /\ SameOrder(order, new)
        /\ lots > order.exec => GoodOrder(new)
    BY <1>4, <2>3, <2>5, <2>6, RevisedOrder
  <2>8. ChangesTo(order, new)
    BY <1>4, <2>4, <2>5, <2>7 DEF ChangesTo, Done
  <2>9. after[id] = new
    <3>1. id \in ToSet(ids)
      BY <1>3, <2>1 DEF ToSet
    <3> QED
      BY <1>1, <2>1, <2>6, <3>1
  <2>10. batch[k] = exec(k)
    BY <1>1, <1>3
  <2>11. ExecIs(exec(k), order.accnt, m, markets[m].maxId + k, 0, 0)
    BY <2>1, OrderExecIs
  <2>12. ExecTells(exec(k), id, new) /\ exec(k).state = "Revise"
    BY <2>1, <2>3, <2>6, ReviseTells DEF GoodOrder
  <2> HIDE DEF exec
  <2> QED
    BY <2>1, <2>3, <2>8, <2>9, <2>10, <2>11, <2>12
<1>6. bad \subseteq 1..Len(ids) /\ batch = [k \in 1..Len(ids) |-> batch[k]]
  BY <1>1, <1>3
<1>7. GoodChange(a, m, ids, bad, batch, after)
  BY <1>3, <1>5, <1>6 DEF GoodChange
<1> QED
  BY <1>2, <1>7 DEF IsChange

\* cancel_order leaves nothing of its orders.
LEMMA CancelOrderIs ==
    ASSUME EngineInv, NEW a \in Accnts, NEW m \in DOMAIN markets,
           NEW ids \in Seq(1..MaxId), CancelOrder(a, m, ids)
    PROVE  IsChange
<1> DEFINE wrong == {i \in DOMAIN ids : <<m, ids[i]>> \notin sessOrders[a]}
           exec(k) == CancelExec(NewExec(m, ids[k], orders[m][ids[k]],
                                         markets[m].maxId + k))
           next(id) == CancelLots(orders[m][id])
<1>1. PICK bad, batch, after :
        /\ bad = wrong /\ batch = [k \in DOMAIN ids |-> exec(k)]
        /\ after = [id \in ToSet(ids) |-> next(id)]
  OBVIOUS
<1>2. ChangeOrders(m, ids, bad, batch, after)
  BY <1>1, Zenon DEF CancelOrder
<1>3. Len(ids) \in Nat /\ DOMAIN ids = 1..Len(ids)
  OBVIOUS
<1>4. ASSUME bad = {}, NEW k \in 1..Len(ids)
      PROVE  /\ ids[k] \in DOMAIN orders[m]
             /\ ChangesTo(orders[m][ids[k]], after[ids[k]])
             /\ ExecIs(batch[k], a, m, markets[m].maxId + k, 0, 0)
             /\ batch[k].state \in {"Revise", "Cancel"}
             /\ ExecTells(batch[k], ids[k], after[ids[k]])
  <2>1. PICK id, order : id = ids[k] /\ order = orders[m][id]
    OBVIOUS
  <2>2. <<m, id>> \in sessOrders[a]
    BY <1>1, <1>3, <1>4, <2>1
  <2>3. id \in DOMAIN orders[m] /\ order.accnt = a /\ GoodOrder(order)
    BY <2>1, <2>2, FoundOrder
  <2>4. order.resd \in Nat /\ order \in Order
    BY <2>3, OrderFields DEF GoodOrder
  <2>5. PICK new : new = [order EXCEPT !.resd = 0]
    OBVIOUS
  <2>6. /\ new.resd = 0 /\ new.accnt = order.accnt /\ new.ref = order.ref
        /\ new.side = order.side /\ new.ticks = order.ticks
        /\ new.minLots = order.minLots
    BY <2>4, <2>5 DEF Order
  <2>7. ChangesTo(order, new)
    BY <2>4, <2>6 DEF ChangesTo, SameOrder, Done, LevelKey
  <2>8. after[id] = new
    <3>1. id \in ToSet(ids)
      BY <1>3, <2>1 DEF ToSet
    <3> QED
      BY <1>1, <2>1, <2>5, <3>1 DEF CancelLots
  <2>9. batch[k] = exec(k)
    BY <1>1, <1>3
  <2>10. ExecIs(exec(k), order.accnt, m, markets[m].maxId + k, 0, 0)
    BY <2>1, OrderExecIs
  <2>11. ExecTells(exec(k), id, CancelLots(order)) /\ exec(k).state = "Cancel"
    BY <2>1, <2>4, CancelTells
  <2>12. new = CancelLots(order)
    BY <2>5 DEF CancelLots
  <2> HIDE DEF exec
  <2> QED
    BY <2>1, <2>3, <2>7, <2>8, <2>9, <2>10, <2>11, <2>12
<1>5. bad \subseteq 1..Len(ids) /\ batch = [k \in 1..Len(ids) |-> batch[k]]
  BY <1>1, <1>3
<1>6. GoodChange(a, m, ids, bad, batch, after)
  BY <1>3, <1>4, <1>5 DEF GoodChange
<1> QED
  BY <1>2, <1>6 DEF IsChange

\* The order that a reference finds.
LEMMA FoundByRef ==
    ASSUME EngineInv, NEW a \in Accnts, NEW ref \in DOMAIN refIdx[a]
    PROVE  refIdx[a][ref][1] \in DOMAIN markets /\ <<refIdx[a][ref][2]>> \in Seq(1..MaxId)
<1>1. GoodRefs(orders, sessOrders[a], refIdx[a]) /\ sessOrders[a] = KeysOf(orders, a)
      /\ GoodMarkets(markets, books, orders)
  BY DEF EngineInv, GoodSessions
<1>2. PICK k : k = refIdx[a][ref]
  OBVIOUS
<1>3. k \in Keys /\ k[1] \in DOMAIN orders
  BY <1>1, <1>2 DEF GoodRefs, KeysOf
<1>4. k[2] \in 1..MaxId /\ k[1] \in DOMAIN markets
  BY <1>1, <1>3 DEF Keys, GoodMarkets
<1> QED
  BY <1>2, <1>4

\* The operations on orders, which also find them by reference.
LEMMA ChangeOrderIs ==
    ASSUME EngineInv, ChangeOrder
    PROVE  Refuse \/ IsChange
<1>1. PICK a \in Accnts :
        \/ \E m \in DOMAIN markets, ids \in IdLists :
            \/ CancelOrder(a, m, ids)
            \/ \E lots \in 0..MaxLots : ReviseOrder(a, m, ids, lots)
        \/ \E ref \in Refs :
            \/ CancelOrderByRef(a, ref)
            \/ \E lots \in 0..MaxLots : ReviseOrderByRef(a, ref, lots)
  BY DEF ChangeOrder
<1>2. IdLists \subseteq Seq(1..MaxId)
  BY EngineAssumption
<1>3. ASSUME NEW m \in DOMAIN markets, NEW ids \in IdLists,
             \/ CancelOrder(a, m, ids)
             \/ \E lots \in 0..MaxLots : ReviseOrder(a, m, ids, lots)
      PROVE  Refuse \/ IsChange
  BY <1>2, <1>3, CancelOrderIs, ReviseOrderIs
<1>4. ASSUME NEW ref \in Refs, CancelOrderByRef(a, ref)
      PROVE  Refuse \/ IsChange
  <2>1. CASE ref \in DOMAIN refIdx[a]
    <3>1. CancelOrder(a, refIdx[a][ref][1], <<refIdx[a][ref][2]>>)
      BY <1>4, <2>1 DEF CancelOrderByRef
    <3> QED
      BY <2>1, <3>1, FoundByRef, CancelOrderIs
  <2>2. CASE ref \notin DOMAIN refIdx[a]
    BY <1>4, <2>2, Zenon DEF CancelOrderByRef
  <2> QED
    BY <2>1, <2>2
<1>5. ASSUME NEW ref \in Refs, NEW lots \in 0..MaxLots, ReviseOrderByRef(a, ref, lots)
      PROVE  Refuse \/ IsChange
  <2>1. CASE ref \in DOMAIN refIdx[a]
    <3>1. ReviseOrder(a, refIdx[a][ref][1], <<refIdx[a][ref][2]>>, lots)
      BY <1>5, <2>1 DEF ReviseOrderByRef
    <3> QED
      BY <2>1, <3>1, FoundByRef, ReviseOrderIs
  <2>2. CASE ref \notin DOMAIN refIdx[a]
    BY <1>5, <2>2, Zenon DEF ReviseOrderByRef
  <2> QED
    BY <2>1, <2>2
<1> QED
  BY <1>1, <1>3, <1>4, <1>5

\* They keep the invariant.
LEMMA ChangeOrderKeeps ==
    ASSUME EngineInv, ChangeOrder
    PROVE  EngineInv'
<1>1. CASE Refuse
  BY <1>1, NothingChanged DEF Refuse
<1>2. CASE IsChange
  BY <1>2, ChangeOrdersKeeps DEF IsChange
<1> QED
  BY <1>1, <1>2, ChangeOrderIs

-----------------------------------------------------------------------------
(* create_trade and archive_trade. *)

\* A batch turned round is as good.
LEMMA ReverseGood ==
    ASSUME NEW batch, GoodBatch(batch)
    PROVE  GoodBatch(Reverse(batch))
<1>1. PICK n \in Nat : n = Len(batch) /\ DOMAIN batch = 1..n
  BY DEF GoodBatch
<1>2. PICK r : r = Reverse(batch)
  OBVIOUS
<1>3. r = [k \in 1..n |-> batch[(n - k) + 1]]
  BY <1>1, <1>2 DEF Reverse
<1>4. DOMAIN r = 1..n /\ Len(r) = n
  BY <1>3
<1>5. ASSUME NEW k \in 1..n
      PROVE  (n - k) + 1 \in DOMAIN batch /\ r[k] = batch[(n - k) + 1]
  BY <1>1, <1>3
<1> QED
  BY <1>2, <1>4, <1>5 DEF GoodBatch

\* The trades of create_trade.
ManualTrades(a, m, id, side, lots, ticks, cpty) ==
    LET trade == ManualExec(a, m, id, NoRef, side, lots, ticks, cpty)
    IN  IF cpty = NoAccnt THEN <<trade>> ELSE <<trade, OppositeExec(trade, id + 1)>>

\* They make a batch of one or two execs with ids within bounds.
LEMMA ManualTradesGood ==
    ASSUME NEW a \in Accnts, NEW m \in Markets, NEW id \in Nat \ {0}, id + 1 =< MaxId,
           NEW side, NEW lots \in Nat, NEW ticks \in Nat,
           NEW cpty \in Accnts \union {NoAccnt}
    PROVE  LET batch == ManualTrades(a, m, id, side, lots, ticks, cpty)
           IN  GoodBatch(batch) /\ Len(batch) \in 1..2
<1>1. id \in 1..MaxId /\ id + 1 \in 1..MaxId
  BY EngineAssumption
<1>2. PICK t : t = ManualExec(a, m, id, NoRef, side, lots, ticks, cpty)
  OBVIOUS
<1>3. PICK o : o = OppositeExec(t, id + 1)
  OBVIOUS
<1>4. ExecIs(t, a, m, id, lots, ticks) /\ ExecIs(o, cpty, m, id + 1, lots, ticks)
  BY <1>2, <1>3, ManualExecIs
<1>5. PICK batch : batch = ManualTrades(a, m, id, side, lots, ticks, cpty)
  OBVIOUS
<1>6. CASE cpty = NoAccnt
  <2>1. batch = <<t>>
    BY <1>2, <1>5, <1>6 DEF ManualTrades
  <2>2. batch = [k \in 1..1 |-> batch[k]] /\ batch[1] = t
    BY <2>1
  <2>3. \A k \in 1..1 : \E c \in Accnts, x \in 1..MaxId, l \in Nat, p \in Nat :
            ExecIs(batch[k], c, m, x, l, p)
    BY <1>1, <1>4, <2>2
  <2>4. GoodBatch(batch) /\ Len(batch) = 1
    BY <2>2, <2>3, BatchOf
  <2> QED
    BY <1>5, <2>4
<1>7. CASE cpty # NoAccnt
  <2>1. batch = <<t, o>> /\ cpty \in Accnts
    BY <1>2, <1>3, <1>5, <1>7 DEF ManualTrades
  <2>2. batch = [k \in 1..2 |-> batch[k]] /\ batch[1] = t /\ batch[2] = o
    BY <2>1
  <2>3. \A k \in 1..2 : \E c \in Accnts, x \in 1..MaxId, l \in Nat, p \in Nat :
            ExecIs(batch[k], c, m, x, l, p)
    BY <1>1, <1>4, <2>1, <2>2
  <2>4. GoodBatch(batch) /\ Len(batch) = 2
    BY <2>2, <2>3, BatchOf
  <2> QED
    BY <1>5, <2>4
<1> QED
  BY <1>6, <1>7

\* What is committed of a manual trade.
TradeBooked(m, batch, newPosns) ==
    /\ Post(ExecMsgs(batch))
    /\ markets' = [markets EXCEPT ![m].maxId = @ + Len(batch)]
    /\ trades' = InsertTrades(trades, batch)
    /\ execs' = PushExecs(execs, Reverse(batch))
    /\ posns' = AddTrades(newPosns, Reverse(batch))
    /\ UNCHANGED <<day, books, orders, sessOrders, refIdx>>

\* What remains of one that throws.
TradeFailed(a, m, batch, newPosns) ==
    \/ /\ QueueFails(ExecMsgs(batch))
       /\ FailAfterIds(m, Len(batch))
       /\ posns' = newPosns
    \/ /\ MemoryFails
       /\ \/ FailAfterIds(m, 0) /\ UNCHANGED posns
          \/ FailAfterIds(m, 1) /\ posns' = EnsurePosns(posns, {a}, m)
          \/ FailAfterIds(m, Len(batch)) /\ posns' = newPosns

\* How create_trade ends.
LEMMA CreateTradeIs ==
    ASSUME NEW a, NEW m, NEW side, NEW lots, NEW ticks, NEW cpty,
           CreateTrade(a, m, side, lots, ticks, cpty)
    PROVE  LET id == markets[m].maxId + 1
               batch == ManualTrades(a, m, id, side, lots, ticks, cpty)
               newPosns == EnsurePosns(posns, {a, cpty}, m)
           IN  /\ id + 1 =< MaxId
               /\ TradeBooked(m, batch, newPosns) \/ TradeFailed(a, m, batch, newPosns)
BY ONLY CreateTrade(a, m, side, lots, ticks, cpty), Zenon
   DEF CreateTrade, ManualTrades, TradeBooked, TradeFailed

\* create_trade keeps the invariant.
LEMMA CreateTradeKeeps ==
    ASSUME EngineInv, NEW a \in Accnts, NEW m \in DOMAIN markets, NEW side \in Sides,
           NEW lots \in 1..MaxLots, NEW ticks \in 1..MaxTicks,
           NEW cpty \in Accnts \union {NoAccnt}, CreateTrade(a, m, side, lots, ticks, cpty)
    PROVE  EngineInv'
<1>1. PICK id : id = markets[m].maxId + 1
  OBVIOUS
<1>2. PICK batch : batch = ManualTrades(a, m, id, side, lots, ticks, cpty)
  OBVIOUS
<1>3. PICK newPosns : newPosns = EnsurePosns(posns, {a, cpty}, m)
  OBVIOUS
<1>4. /\ id + 1 =< MaxId
      /\ TradeBooked(m, batch, newPosns) \/ TradeFailed(a, m, batch, newPosns)
  BY <1>1, <1>2, <1>3, CreateTradeIs
<1>5. /\ GoodMarkets(markets, books, orders) /\ GoodPosns(posns)
      /\ trades \in [Accnts -> SUBSET Keys] /\ execs \in Histories
  BY DEF EngineInv
<1>6. m \in Markets /\ markets[m].maxId \in Nat
  BY <1>5, TheMarket
<1>7. lots \in Nat /\ ticks \in Nat /\ id \in Nat \ {0}
  BY <1>1, <1>6, EngineAssumption
<1>8. GoodBatch(batch) /\ Len(batch) \in 1..2
  BY <1>2, <1>4, <1>6, <1>7, ManualTradesGood
<1>9. GoodPosns(newPosns) /\ GoodPosns(EnsurePosns(posns, {a}, m))
  BY <1>3, <1>6, PosnsForGood
<1>10. ASSUME NEW n \in 0..2
       PROVE  n \in Nat /\ markets[m].maxId + n =< MaxId
  <2>1. n = 0 \/ n = 1 \/ n = 2
    OBVIOUS
  <2> QED
    BY <1>1, <1>4, <1>6, <2>1, EngineAssumption
<1>11. Len(batch) \in 0..2 /\ 0 \in 0..2 /\ 1 \in 0..2
  BY <1>8
<1>12. ASSUME TradeBooked(m, batch, newPosns)
       PROVE  EngineInv'
  <2>1. GoodMarkets([markets EXCEPT ![m].maxId = @ + Len(batch)], books, orders)
    BY <1>5, <1>10, <1>11, TakeIds
  <2>2. trades' \in [Accnts -> SUBSET Keys]
    BY <1>5, <1>8, <1>12, InsertTradesType DEF TradeBooked
  <2>3. PICK r : r = Reverse(batch)
    OBVIOUS
  <2>4. GoodBatch(r)
    BY <1>8, <2>3, ReverseGood
  <2>5. execs' \in Histories
    BY <1>5, <1>12, <2>3, <2>4, PushExecsType DEF TradeBooked
  <2>6. GoodPosns(posns')
    BY <1>9, <1>12, <2>3, <2>4, AddTradesType DEF TradeBooked
  <2>7. GoodMarkets(markets', books', orders')
    BY <1>12, <2>1 DEF TradeBooked
  <2> QED
    BY <1>12, <2>2, <2>5, <2>6, <2>7 DEF EngineInv, Post, TradeBooked
<1>13. ASSUME NEW n \in 0..2, FailAfterIds(m, n), GoodPosns(posns')
       PROVE  EngineInv'
  BY <1>10, <1>13, FailKeeps
<1>14. UNCHANGED posns => GoodPosns(posns')
  BY <1>5
<1>15. ASSUME TradeFailed(a, m, batch, newPosns)
       PROVE  EngineInv'
  BY <1>9, <1>11, <1>13, <1>14, <1>15 DEF TradeFailed
<1> QED
  BY <1>4, <1>12, <1>15

\* archive_trade only takes trades from the session.
LEMMA ArchiveTradeKeeps ==
    ASSUME EngineInv, NEW a \in Accnts, NEW m \in DOMAIN markets, NEW ids,
           ArchiveTrade(a, m, ids)
    PROVE  EngineInv'
<1>1. PICK keys : keys = {<<m, ids[i]>> : i \in DOMAIN ids}
  OBVIOUS
<1>2. \/ /\ res' = "ok"
         /\ trades' = [trades EXCEPT ![a] = @ \ keys]
         /\ UNCHANGED <<day, markets, books, orders, sessOrders, refIdx, execs, posns>>
      \/ /\ res' \in {"error", "abort"}
         /\ UNCHANGED <<day, markets, books, orders, sessVars, posns>>
  BY <1>1 DEF ArchiveTrade, Refuse, Post
<1>3. CASE /\ res' = "ok"
           /\ trades' = [trades EXCEPT ![a] = @ \ keys]
           /\ UNCHANGED <<day, markets, books, orders, sessOrders, refIdx, execs, posns>>
  <2>1. trades \in [Accnts -> SUBSET Keys]
    BY DEF EngineInv
  <2>2. trades[a] \ keys \in SUBSET Keys
    BY <2>1
  <2>3. trades' \in [Accnts -> SUBSET Keys]
    BY <1>3, <2>1, <2>2
  <2> QED
    BY <1>3, <2>3 DEF EngineInv
<1>4. CASE /\ res' \in {"error", "abort"}
           /\ UNCHANGED <<day, markets, books, orders, sessVars, posns>>
  BY <1>4, NothingChanged
<1> QED
  BY <1>2, <1>3, <1>4

-----------------------------------------------------------------------------
(* The theorems. *)

\* Each operation keeps the invariant.
LEMMA NextKeeps ==
    ASSUME EngineInv, [Next]_vars
    PROVE  EngineInv'
<1>1. CASE CreateOrders
  <2>1. PICK a \in Accnts, m \in DOMAIN markets, ref \in Refs \union {NoRef},
             side \in Sides, lots \in 0..MaxLots, ticks \in 1..MaxTicks,
             minLots \in MinLots :
                CreateOrder(a, m, ref, side, lots, ticks, minLots)
    BY <1>1 DEF CreateOrders
  <2> QED
    BY <2>1, CreateOrderKeeps
<1>2. CASE ChangeOrder
  BY <1>2, ChangeOrderKeeps
<1>3. CASE TradeOps
  <2>1. PICK a \in Accnts, m \in DOMAIN markets :
        \/ \E side \in Sides, lots \in 1..MaxLots, ticks \in 1..MaxTicks,
              cpty \in Accnts \union {NoAccnt} :
                CreateTrade(a, m, side, lots, ticks, cpty)
        \/ \E ids \in IdLists : ArchiveTrade(a, m, ids)
    BY <1>3 DEF TradeOps
  <2> QED
    BY <2>1, CreateTradeKeeps, ArchiveTradeKeeps
<1>4. CASE MarketOps
  BY <1>4, CreateMarketKeeps, UpdateMarketKeeps DEF MarketOps
<1>5. CASE NextDay
  BY <1>5, NextDayKeeps
<1>6. CASE UNCHANGED vars
  BY <1>6 DEF EngineInv, vars, sessVars
<1> QED
  BY <1>1, <1>2, <1>3, <1>4, <1>5, <1>6 DEF Next

\* Before the first operation there are no markets and no orders.
LEMMA InitHolds ==
    ASSUME Init
    PROVE  EngineInv
<1>1. /\ day = 1 /\ markets = <<>> /\ books = <<>> /\ orders = <<>>
      /\ sessOrders = [a \in Accnts |-> {}] /\ refIdx = [a \in Accnts |-> <<>>]
      /\ trades = [a \in Accnts |-> {}] /\ execs = [a \in Accnts |-> <<>>]
      /\ posns = [a \in Accnts |-> <<>>] /\ res = "ok"
  BY DEF Init
<1>2. DOMAIN <<>> = {} /\ <<>> = [x \in {} |-> <<>>[x]]
  OBVIOUS
<1>3. GoodMarkets(markets, books, orders)
  BY <1>1, <1>2 DEF GoodMarkets
<1>4. GoodSessions(orders, sessOrders, refIdx)
  BY <1>1, <1>2 DEF GoodSessions, KeysOf, GoodRefs
<1>5. execs \in Histories
  <2>1. <<>> \in {s \in Seq(Keys) : Len(s) =< MaxExecs}
    BY EngineAssumption
  <2> QED
    BY <1>1, <2>1 DEF Histories
<1>6. GoodPosns(posns)
  <2>1. <<>> \in [{} -> PosnType]
    BY <1>2
  <2> QED
    BY <1>1, <1>2, <2>1 DEF GoodPosns
<1>7. trades \in [Accnts -> SUBSET Keys] /\ day \in 1..MaxDay /\ res \in {"ok", "error", "abort"}
  BY <1>1, EngineAssumption
<1> QED
  BY <1>3, <1>4, <1>5, <1>6, <1>7 DEF EngineInv

\* The inductive invariant holds in every state of the engine.
THEOREM InvHolds == Spec => []EngineInv
<1>1. Init => EngineInv
  BY InitHolds
<1>2. EngineInv /\ [Next]_vars => EngineInv'
  BY NextKeeps
<1> QED
  BY <1>1, <1>2, PTL DEF Spec

\* A list of the orders of a market is a sequence of their ids.
LEMMA ListOfOrders ==
    ASSUME NEW S, NEW list \in Seq(Nat), ToSet(list) \subseteq S
    PROVE  list \in Seq(S)
<1>1. \A i \in 1..Len(list) : list[i] \in S
  BY DEF ToSet
<1>2. list = [i \in 1..Len(list) |-> list[i]] /\ Len(list) \in Nat
  OBVIOUS
<1> QED
  BY <1>1, <1>2

\* What each market and its sides are.
LEMMA SideIs ==
    ASSUME EngineInv, NEW m \in DOMAIN markets, NEW s \in Sides
    PROVE  /\ books[m][s].list \in Seq(Nat)
           /\ BookSide(books[m][s], orders[m])
           /\ ToSet(books[m][s].list) = OnSide(orders[m], s)
           /\ GoodOrders(orders[m], markets[m].maxId) /\ Uncrossed(orders[m])
<1>1. GoodMarket(markets[m], books[m], orders[m])
  BY DEF EngineInv, GoodMarkets
<1>2. BookSide(books[m][s], orders[m]) /\ ToSet(books[m][s].list) = OnSide(orders[m], s)
  BY <1>1 DEF GoodMarket, GoodBook
<1> QED
  BY <1>1, <1>2 DEF GoodMarket, BookSide

\* The types of all state of the engine.
THEOREM TypesHold == Spec => []TypeOK
<1>1. ASSUME EngineInv
      PROVE  TypeOK
  <2>1. /\ GoodMarkets(markets, books, orders) /\ GoodSessions(orders, sessOrders, refIdx)
        /\ day \in 1..MaxDay /\ res \in {"ok", "error", "abort"}
        /\ trades \in [Accnts -> SUBSET Keys] /\ execs \in Histories /\ GoodPosns(posns)
    BY <1>1 DEF EngineInv
  <2>2. ASSUME NEW m \in DOMAIN markets
        PROVE  /\ markets[m] \in [state : MarketStates, maxId : 0..MaxId,
                                  lastLots : 0..MaxLots, lastTicks : 0..MaxTicks]
               /\ DOMAIN orders[m] \subseteq 1..markets[m].maxId
               /\ \A id \in DOMAIN orders[m] : orders[m][id] \in Order
               /\ \A s \in Sides : books[m][s].list \in Seq(DOMAIN orders[m])
    <3>1. GoodMarket(markets[m], books[m], orders[m])
      BY <2>1 DEF GoodMarkets
    <3>2. markets[m] \in Market /\ GoodOrders(orders[m], markets[m].maxId)
      BY <3>1 DEF GoodMarket
    <3>3. ASSUME NEW s \in Sides
          PROVE  books[m][s].list \in Seq(DOMAIN orders[m])
      <4>1. books[m][s].list \in Seq(Nat) /\ ToSet(books[m][s].list) = OnSide(orders[m], s)
        BY <1>1, SideIs
      <4>2. OnSide(orders[m], s) \subseteq DOMAIN orders[m]
        BY DEF OnSide
      <4> QED
        BY <4>1, <4>2, ListOfOrders
    <3> QED
      BY <3>2, <3>3 DEF Market, GoodOrders, GoodOrder
  <2>3. ASSUME NEW a \in Accnts
        PROVE  /\ sessOrders[a] \union trades[a] \subseteq Markets \X (1..MaxId)
               /\ DOMAIN refIdx[a] \subseteq Refs
               /\ execs[a] \in Seq(Markets \X (1..MaxId)) /\ Len(execs[a]) =< MaxExecs
               /\ DOMAIN posns[a] \subseteq Markets
    <3>1. sessOrders[a] \subseteq Keys /\ DOMAIN refIdx[a] \subseteq Refs
      BY <2>1 DEF GoodSessions, KeysOf, GoodRefs
    <3>2. execs[a] \in Seq(Keys) /\ Len(execs[a]) =< MaxExecs
      BY <2>1 DEF Histories
    <3>3. trades[a] \subseteq Keys /\ DOMAIN posns[a] \subseteq Markets
      BY <2>1 DEF GoodPosns
    <3> QED
      BY <3>1, <3>2, <3>3 DEF Keys
  <2> QED
    BY <2>1, <2>2, <2>3 DEF TypeOK, GoodMarkets
<1> QED
  BY <1>1, InvHolds, PTL

\* The lots of every live order add up (Order::revise, Order::trade).
THEOREM LotsHold == Spec => []LotsAddUp
<1>1. ASSUME EngineInv
      PROVE  LotsAddUp
  <2>1. ASSUME NEW m \in DOMAIN markets, NEW id \in DOMAIN orders[m]
        PROVE  LET order == orders[m][id]
               IN  /\ order.resd > 0
                   /\ order.resd + order.exec = order.lots
                   /\ order.lots >= order.minLots
    <3>1. GoodOrder(orders[m][id])
      BY <1>1 DEF EngineInv, GoodMarkets, GoodMarket, GoodOrders
    <3>2. orders[m][id].resd \in Nat \ {0}
      BY <3>1, OrderFields DEF GoodOrder
    <3> QED
      BY <3>1, <3>2 DEF GoodOrder
  <2> QED
    BY <2>1 DEF LotsAddUp
<1> QED
  BY <1>1, InvHolds, PTL

\* No bid meets an offer between operations (match_orders).
THEOREM NoCross == Spec => []NotCrossed
<1>1. ASSUME EngineInv
      PROVE  NotCrossed
  <2>1. ASSUME NEW m \in DOMAIN markets, NEW b \in ToSet(books[m]["Buy"].list),
               NEW o \in ToSet(books[m]["Sell"].list)
        PROVE  orders[m][b].ticks < orders[m][o].ticks
    <3>1. "Buy" \in Sides /\ "Sell" \in Sides
      BY DEF Sides
    <3>2. b \in OnSide(orders[m], "Buy") /\ o \in OnSide(orders[m], "Sell")
          /\ Uncrossed(orders[m])
      BY <1>1, <3>1, SideIs
    <3> QED
      BY <3>2 DEF Uncrossed
  <2> QED
    BY <2>1 DEF NotCrossed
<1> QED
  BY <1>1, InvHolds, PTL

\* Each side is in order and its levels are those of its orders (MarketSide).
THEOREM BooksHold == Spec => []BooksAreInOrder
<1>1. ASSUME EngineInv
      PROVE  BooksAreInOrder
  <2>1. ASSUME NEW m \in DOMAIN markets, NEW s \in Sides
        PROVE  LET list   == books[m][s].list
                   key(i) == LevelKey(orders[m][list[i]])
               IN  /\ \A i \in 1..(Len(list) - 1) :
                        \/ key(i) < key(i + 1)
                        \/ key(i) = key(i + 1) /\ list[i] < list[i + 1]
                   /\ books[m][s].levels = LevelsOf(list, orders[m])
    <3>1. PICK list \in Seq(Nat) : list = books[m][s].list
      BY <1>1, SideIs
    <3> DEFINE os == orders[m]
    <3>2. BookSide(books[m][s], os)
      BY <1>1, <3>1, SideIs
    <3>3. InOrder(list, os) /\ books[m][s].levels = LevelsOf(list, os)
      BY <3>1, <3>2 DEF BookSide
    <3>4. ASSUME NEW i \in 1..(Len(list) - 1)
          PROVE  \/ LevelKey(os[list[i]]) < LevelKey(os[list[i + 1]])
                 \/ LevelKey(os[list[i]]) = LevelKey(os[list[i + 1]]) /\ list[i] < list[i + 1]
      <4>1. i \in DOMAIN list /\ i + 1 \in DOMAIN list /\ i < i + 1
        OBVIOUS
      <4>2. Before(os, list[i], list[i + 1])
        BY <3>3, <4>1 DEF InOrder
      <4> QED
        BY <4>2 DEF Before
    <3> QED
      BY <3>1, <3>3, <3>4
  <2> QED
    BY <2>1 DEF BooksAreInOrder
<1> QED
  BY <1>1, InvHolds, PTL

\* Market and sessions hold the same orders (the commit phases of App.cpp;
\* Sess::insert_order, Sess::remove_order).
THEOREM SessionsHold == Spec => []MarketsAndSessionsAgree
<1>1. ASSUME EngineInv
      PROVE  MarketsAndSessionsAgree
  <2>1. GoodMarkets(markets, books, orders) /\ GoodSessions(orders, sessOrders, refIdx)
    BY <1>1 DEF EngineInv
  <2>2. ASSUME NEW m \in DOMAIN markets, NEW s \in Sides
        PROVE  LET list == books[m][s].list
               IN  /\ ToSet(list) = {id \in DOMAIN orders[m] : orders[m][id].side = s}
                   /\ IsInjective(list)
    <3>1. PICK list \in Seq(Nat) : list = books[m][s].list
      BY <1>1, SideIs
    <3> DEFINE os == orders[m]
    <3>2. BookSide(books[m][s], os) /\ ToSet(list) = OnSide(os, s)
      BY <1>1, <3>1, SideIs
    <3>3. InOrder(list, os) /\ Priced(ToSet(list), os)
      BY <3>1, <3>2 DEF BookSide
    <3>4. IsInjective(list)
      BY <3>3, InOrderInjective
    <3> QED
      BY <3>1, <3>2, <3>4 DEF OnSide
  <2>3. ASSUME NEW a \in Accnts
        PROVE  /\ sessOrders[a] = {k \in Markets \X (1..MaxId) :
                        /\ k[1] \in DOMAIN markets
                        /\ k[2] \in DOMAIN orders[k[1]]
                        /\ orders[k[1]][k[2]].accnt = a}
               /\ \A k \in sessOrders[a] :
                    LET ref == orders[k[1]][k[2]].ref
                    IN  ref = NoRef \/ (ref \in DOMAIN refIdx[a] /\ refIdx[a][ref] = k)
               /\ \A r \in DOMAIN refIdx[a] :
                    /\ refIdx[a][r] \in sessOrders[a]
                    /\ orders[refIdx[a][r][1]][refIdx[a][r][2]].ref = r
    <3>1. sessOrders[a] = KeysOf(orders, a) /\ GoodRefs(orders, sessOrders[a], refIdx[a])
          /\ DOMAIN orders = DOMAIN markets
      BY <2>1 DEF GoodSessions, GoodMarkets
    <3>2. KeysOf(orders, a) = {k \in Markets \X (1..MaxId) :
                        /\ k[1] \in DOMAIN markets
                        /\ k[2] \in DOMAIN orders[k[1]]
                        /\ orders[k[1]][k[2]].accnt = a}
      BY <3>1 DEF KeysOf, Keys
    <3> QED
      BY <3>1, <3>2 DEF GoodRefs
  <2> QED
    BY <2>2, <2>3 DEF MarketsAndSessionsAgree
<1> QED
  BY <1>1, InvHolds, PTL

-----------------------------------------------------------------------------
(* An operation that throws. *)

\* The positions qs are ps and flat ones.
FlatAdded(ps, qs) ==
    \A a \in Accnts : \A x \in DOMAIN qs[a] :
        qs[a][x] = IF x \in DOMAIN ps[a] THEN ps[a][x] ELSE FlatPosn

\* What it may change.
Clean == UNCHANGED <<books, orders, sessVars>> /\ FlatAdded(posns, posns')

\* Positions that were created for it are flat.
LEMMA CleanPosns ==
    ASSUME EngineInv
    PROVE  /\ FlatAdded(posns, posns)
           /\ \A m \in Markets : \A accnts : FlatAdded(posns, EnsurePosns(posns, accnts, m))
           /\ \A m \in Markets : \A a, ms : FlatAdded(posns, PosnsFor(a, m, ms))
<1>1. FlatAdded(posns, posns)
  BY DEF FlatAdded
<1>2. ASSUME NEW m \in Markets, NEW accnts
      PROVE  FlatAdded(posns, EnsurePosns(posns, accnts, m))
  <2>1. GoodPosns(posns)
    BY DEF EngineInv
  <2> QED
    BY <2>1, EnsurePosnsIs DEF FlatAdded
<1> QED
  BY <1>1, <1>2 DEF PosnsFor

\* create_order undoes the insertion if the queue is full.
LEMMA CreateOrderClean ==
    ASSUME EngineInv, res' = "error", NEW a \in Accnts, NEW m \in DOMAIN markets,
           NEW ref \in Refs \union {NoRef}, NEW side \in Sides, NEW lots \in 0..MaxLots,
           NEW ticks \in 1..MaxTicks, NEW minLots \in MinLots,
           CreateOrder(a, m, ref, side, lots, ticks, minLots)
    PROVE  Clean
<1>1. PICK order : order = OrderOf(a, ref, side, lots, ticks, minLots)
  OBVIOUS
<1>2. PICK id, ms : /\ id = markets[m].maxId + 1
                    /\ ms = Matches(order, books[m][Opposite(side)].list, orders[m])
  OBVIOUS
<1>3. \/ Refuse
      \/ /\ OrderPasses(a, ref, lots, minLots, id, ms)
         /\ \/ OrderBooked(a, m, side, id, order, ms)
            \/ OrderUndone(a, m, side, id, order, ms)
            \/ OrderDropped(a, m, ms)
  BY <1>1, <1>2, CreateOrderIs
<1>4. m \in Markets
  BY DEF EngineInv, GoodMarkets
<1>5. CASE Refuse
  BY <1>5, CleanPosns DEF Refuse, Clean
<1>6. ~OrderBooked(a, m, side, id, order, ms)
  BY DEF OrderBooked, Post
<1>7. CASE OrderPasses(a, ref, lots, minLots, id, ms) /\ OrderUndone(a, m, side, id, order, ms)
  <2>1. NewOrder(a, m, ref, side, lots, ticks, minLots, id, order, ms)
    BY <1>1, <1>2, <1>7 DEF NewOrder
  <2>2. books' = books
    BY <1>7, <2>1, UndoneSame
  <2>3. UNCHANGED <<orders, sessVars>> /\ posns' = PosnsFor(a, m, ms)
    BY <1>7 DEF OrderUndone
  <2> QED
    BY <1>4, <2>2, <2>3, CleanPosns DEF Clean
<1>8. CASE OrderDropped(a, m, ms)
  <2>1. PICK j \in 0..Len(ms) : /\ FailAfterIds(m, 1 + 2 * j)
                                /\ \/ \E accnts : posns' = EnsurePosns(posns, accnts, m)
                                   \/ posns' = PosnsFor(a, m, ms)
    BY <1>8, Zenon DEF OrderDropped
  <2>2. UNCHANGED <<books, orders, sessVars>>
    BY <2>1 DEF FailAfterIds
  <2> QED
    BY <1>4, <2>1, <2>2, CleanPosns DEF Clean
<1> QED
  BY <1>3, <1>5, <1>6, <1>7, <1>8

\* revise_order and cancel_order throw before their commit phase.
LEMMA ChangeOrdersClean ==
    ASSUME EngineInv, res' = "error", NEW m, NEW ids, NEW bad, NEW batch, NEW after,
           ChangeOrders(m, ids, bad, batch, after)
    PROVE  Clean
<1>1. ~ChangeBooked(m, ids, batch, after) /\ ~ChangeAborted(m, ids, batch)
  BY DEF ChangeBooked, ChangeAborted, Post
<1>2. UNCHANGED posns /\ \E n : FailAfterIds(m, n)
  BY <1>1, ChangeOrdersIs DEF ChangeFailed
<1>3. UNCHANGED <<books, orders, sessVars>>
  BY <1>2 DEF FailAfterIds
<1> QED
  BY <1>2, <1>3, CleanPosns DEF Clean

\* The overloads for one order do as well.
LEMMA ChangeOrderClean ==
    ASSUME EngineInv, res' = "error", ChangeOrder
    PROVE  Clean
<1>1. CASE Refuse
  BY <1>1, CleanPosns DEF Refuse, Clean
<1>2. CASE IsChange
  BY <1>2, ChangeOrdersClean DEF IsChange
<1> QED
  BY <1>1, <1>2, ChangeOrderIs

\* create_trade and archive_trade throw before their commit phase.
LEMMA TradeOpsClean ==
    ASSUME EngineInv, res' = "error", TradeOps
    PROVE  Clean
<1>1. ASSUME NEW a, NEW m \in Markets, NEW side, NEW lots, NEW ticks, NEW cpty,
             CreateTrade(a, m, side, lots, ticks, cpty)
      PROVE  Clean
  <2>1. /\ \E n : FailAfterIds(m, n)
        /\ UNCHANGED posns \/ \E accnts : posns' = EnsurePosns(posns, accnts, m)
    BY <1>1, Zenon, "error" # "ok" DEF CreateTrade, Post
  <2>2. UNCHANGED <<books, orders, sessVars>>
    BY <2>1 DEF FailAfterIds
  <2> QED
    BY <2>1, <2>2, CleanPosns DEF Clean
<1>2. ASSUME NEW a, NEW m, NEW ids, ArchiveTrade(a, m, ids)
      PROVE  Clean
  <2>1. UNCHANGED <<books, orders, sessVars, posns>>
    BY <1>2 DEF ArchiveTrade, Refuse, Post
  <2> QED
    BY <2>1, CleanPosns DEF Clean
<1>3. DOMAIN markets \subseteq Markets
  BY DEF EngineInv, GoodMarkets
<1> QED
  BY <1>1, <1>2, <1>3, Zenon DEF TradeOps

\* create_market and update_market never touch orders or sessions.
LEMMA MarketOpsClean ==
    ASSUME EngineInv, res' = "error", MarketOps
    PROVE  Clean
<1>1. UNCHANGED <<books, orders, sessVars, posns>>
  BY DEF MarketOps, CreateMarket, UpdateMarket, Refuse, Post
<1> QED
  BY <1>1, CleanPosns DEF Clean

\* An operation that throws changes neither orders nor sessions, and no position
\* (the undo of the insertion in create_order; the journalling before each
\* commit phase).
THEOREM FailuresHold == Spec => FailureChangesNothing
<1>1. ASSUME EngineInv, Next, res' = "error"
      PROVE  Clean
  <2>1. CASE CreateOrders
    <3>1. PICK a \in Accnts, m \in DOMAIN markets, ref \in Refs \union {NoRef},
               side \in Sides, lots \in 0..MaxLots, ticks \in 1..MaxTicks,
               minLots \in MinLots :
                  CreateOrder(a, m, ref, side, lots, ticks, minLots)
      BY <2>1 DEF CreateOrders
    <3> QED
      BY <1>1, <3>1, CreateOrderClean
  <2>2. ~NextDay
    BY <1>1 DEF NextDay
  <2> QED
    BY <1>1, <2>1, <2>2, ChangeOrderClean, TradeOpsClean, MarketOpsClean DEF Next
<1>2. EngineInv /\ [Next]_vars =>
        [res' = "error" =>
            /\ UNCHANGED <<books, orders, sessVars>>
            /\ \A a \in Accnts : \A m \in DOMAIN posns'[a] :
                posns'[a][m] = IF m \in DOMAIN posns[a] THEN posns[a][m]
                               ELSE FlatPosn]_vars
  BY <1>1 DEF Clean, FlatAdded
<1> QED
  BY <1>2, InvHolds, PTL DEF Spec, FailureChangesNothing
=============================================================================
