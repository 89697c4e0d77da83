--------------------------- MODULE OrderBookProofs ---------------------------
(***************************************************************************)
(* Lemmas about OrderBook for all orders, lists and levels.                *)
(*                                                                         *)
(* The first part is about data: induction over finite sets in the form    *)
(* "a set of numbers, or of sets, that is closed under the step contains   *)
(* everything", sums of functions, and lists into which an element is put  *)
(* or from which one is taken.                                             *)
(***************************************************************************)
EXTENDS OrderBook, FiniteSetTheorems, SequenceTheorems, WellFoundedInduction,
        TLAPS

-----------------------------------------------------------------------------
(* Induction. *)

\* Induction over a finite set, for any collection of subsets that holds a set
\* when it holds the set without any one of its elements: the form in which sums
\* over the orders of a level, over matches and over accounts are reasoned about.
LEMMA FiniteInduction ==
    ASSUME NEW S, IsFiniteSet(S), NEW G,
           \A T \in SUBSET S : (\A x \in T : T \ {x} \in G) => T \in G
    PROVE  \A T \in SUBSET S : T \in G
<1> DEFINE R == StrictSubsetOrdering(S)
           Bad == {T \in SUBSET S : T \notin G}
<1>1. IsWellFoundedOn(R, FiniteSubsetsOf(S))
  BY FS_StrictSubsetOrderingWellFounded
<1>2. FiniteSubsetsOf(S) = SUBSET S
  BY FS_FiniteSubsetsOfFinite
<1>3. CASE Bad = {}
  BY <1>3
<1>4. ASSUME Bad # {}
      PROVE  FALSE
  <2>1. \E T \in Bad : \A U \in Bad : ~(<<U, T>> \in R)
    <3>1. IsWellFoundedOn(R, SUBSET S) /\ Bad \subseteq SUBSET S
      BY <1>1, <1>2
    <3> HIDE DEF R, Bad
    <3> QED
      BY <1>4, <3>1, WFMin
  <2>2. PICK T \in Bad : \A U \in Bad : ~(<<U, T>> \in R)
    BY <2>1
  <2>3. PICK x \in T : T \ {x} \notin G
    BY <2>2
  <2>4. T \ {x} \in Bad
    BY <2>3
  <2>5. <<T \ {x}, T>> \in R
    BY <2>3 DEF StrictSubsetOrdering
  <2> QED
    BY <2>2, <2>4, <2>5
<1> QED
  BY <1>3, <1>4

\* A set of numbers has a least one: the best price, the first order of a level.
LEMMA LeastNumber ==
    ASSUME NEW T, T \subseteq Nat, T # {}
    PROVE  \E m \in T : \A k \in T : m =< k
<1> DEFINE R == {ss \in Nat \X Nat : ss[1] < ss[2]}
<1>1. IsWellFoundedOn(R, Nat)
  BY NatLessThanWellFounded DEF OpToRel
<1>2. \E x \in T : \A y \in T : ~(<<y, x>> \in R)
  BY <1>1, WFMin
<1>3. PICK x \in T : \A y \in T : ~(<<y, x>> \in R)
  BY <1>2
<1>4. ASSUME NEW y \in T
      PROVE  x =< y
  <2>1. ~(<<y, x>> \in R) /\ y \in Nat /\ x \in Nat
    BY <1>3
  <2>2. y < x => <<y, x>> \in R
    BY <2>1
  <2> QED
    BY <2>1, <2>2
<1> QED
  BY <1>4

\* Induction over the numbers, for any set that is closed under the successor.
LEMMA NumberInduction ==
    ASSUME NEW G, 0 \in G, NEW n \in Nat,
           \A i \in Nat : i < n /\ i \in G => i + 1 \in G
    PROVE  \A i \in 0..n : i \in G
<1> DEFINE Bad == {i \in 0..n : i \notin G}
<1>1. CASE Bad = {}
  BY <1>1
<1>2. ASSUME Bad # {}
      PROVE  FALSE
  <2>1. PICK m \in Bad : \A k \in Bad : m =< k
    <3>1. Bad \subseteq Nat
      OBVIOUS
    <3> HIDE DEF Bad
    <3> QED
      BY <1>2, <3>1, LeastNumber
  <2>2. m # 0 /\ m - 1 \in Nat /\ m - 1 < n /\ (m - 1) + 1 = m
    BY <2>1
  <2>3. m - 1 \in Bad
    BY <2>2
  <2> QED
    BY <2>1, <2>2, <2>3
<1> QED
  BY <1>1, <1>2

-----------------------------------------------------------------------------
(* Sums. *)

\* The recursive function behind a sum.
IsSum(F, f) ==
    F = [S \in SUBSET DOMAIN f |->
            IF S = {} THEN 0
            ELSE f[CHOOSE x \in S : TRUE] + F[S \ {CHOOSE x \in S : TRUE}]]

Pick(S) == CHOOSE x \in S : TRUE

\* What the choice in a sum chooses.
LEMMA PickIn == ASSUME NEW S, S # {} PROVE Pick(S) \in S
  BY DEF Pick

\* The recursion by name.
LEMMA IsSumDef ==
    ASSUME NEW F, NEW f
    PROVE  IsSum(F, f) <=>
            F = [S \in SUBSET DOMAIN f |->
                    IF S = {} THEN 0 ELSE f[Pick(S)] + F[S \ {Pick(S)}]]
  BY DEF IsSum, Pick

\* A sum is the value of that function.
LEMMA SumIsChosen ==
    ASSUME NEW f
    PROVE  SumFunction(f) = (CHOOSE F : IsSum(F, f))[DOMAIN f]
  BY DEF SumFunction, SumFunctionOnSet, FoldFunctionOnSet, MapThenFoldSet, IsSum

\* The recursion over a finite set has a solution.
LEMMA SumExists ==
    ASSUME NEW f, IsFiniteSet(DOMAIN f)
    PROVE  \E F : IsSum(F, f)
<1> DEFINE D == DOMAIN f
           Upto(n) == {S \in SUBSET D : Cardinality(S) =< n}
           Eq(F, n) == F = [S \in Upto(n) |->
                                IF S = {} THEN 0
                                ELSE f[Pick(S)] + F[S \ {Pick(S)}]]
           G == {n \in Nat : \E F : Eq(F, n)}
           c == Cardinality(D)
<1>1. c \in Nat /\ \A S \in SUBSET D : IsFiniteSet(S) /\ Cardinality(S) \in 0..c
  BY FS_CardinalityType, FS_Subset
<1>2. 0 \in G
  <2>1. Upto(0) = {{}}
    BY <1>1, FS_EmptySet
  <2> DEFINE F == [S \in Upto(0) |-> 0]
  <2>2. F = [S \in Upto(0) |->
                IF S = {} THEN 0 ELSE f[Pick(S)] + F[S \ {Pick(S)}]]
    BY <2>1
  <2> HIDE DEF F
  <2> QED
    BY <2>2
<1>3. ASSUME NEW n \in Nat, n \in G
      PROVE  n + 1 \in G
  <2>1. PICK F : Eq(F, n)
    BY <1>3
  <2> DEFINE H == [S \in Upto(n + 1) |->
                    IF S = {} THEN 0 ELSE f[Pick(S)] + F[S \ {Pick(S)}]]
  <2>2. ASSUME NEW S \in Upto(n + 1), S # {}
        PROVE  F[S \ {Pick(S)}] = H[S \ {Pick(S)}]
    <3> DEFINE T == S \ {Pick(S)}
    <3>1. T \in SUBSET D /\ Cardinality(T) = Cardinality(S) - 1
      BY <1>1, <2>2, PickIn, FS_RemoveElement
    <3>2. T \in Upto(n) /\ T \in Upto(n + 1)
      BY <1>1, <3>1
    <3>3. F[T] = IF T = {} THEN 0 ELSE f[Pick(T)] + F[T \ {Pick(T)}]
      BY <2>1, <3>2
    <3> QED
      BY <3>2, <3>3
  <2>3. H = [S \in Upto(n + 1) |->
                IF S = {} THEN 0 ELSE f[Pick(S)] + H[S \ {Pick(S)}]]
    BY <2>2
  <2>4. Eq(H, n + 1)
    BY <2>3
  <2> HIDE DEF H, Upto
  <2> QED
    BY <2>4
<1>4. c \in G
  <2> HIDE DEF G, c
  <2> QED
    BY <1>1, <1>2, <1>3, NumberInduction
<1>5. Upto(c) = SUBSET D
  BY <1>1
<1>6. PICK F : Eq(F, c)
  BY <1>4
<1> QED
  BY <1>5, <1>6, IsSumDef

\* F[S] is the sum of f over S, for each part S of D.
SumsParts(F, f, D) ==
    /\ SumFunction(f) = F[D]
    /\ F[{}] = 0
    /\ \A S \in SUBSET D : S # {} => F[S] = f[Pick(S)] + F[S \ {Pick(S)}]

\* What a sum is, one chosen element at a time.
LEMMA SumSteps ==
    ASSUME NEW D, IsFiniteSet(D), NEW f, DOMAIN f = D
    PROVE  \E F : SumsParts(F, f, D)
<1> DEFINE F == CHOOSE F : IsSum(F, f)
<1>1. IsSum(F, f)
  BY SumExists
<1>2. F = [S \in SUBSET DOMAIN f |->
            IF S = {} THEN 0 ELSE f[Pick(S)] + F[S \ {Pick(S)}]]
  BY <1>1, IsSumDef
<1>3. SumFunction(f) = F[DOMAIN f]
  BY SumIsChosen
<1> HIDE DEF F
<1>4. F[{}] = 0
  BY <1>2
<1>5. \A S \in SUBSET D : S # {} => F[S] = f[Pick(S)] + F[S \ {Pick(S)}]
  BY <1>2
<1> QED
  BY <1>3, <1>4, <1>5 DEF SumsParts

\* The order in which a sum is taken does not matter: any element may be taken
\* out of it first.
LEMMA SumRemove ==
    ASSUME NEW D, IsFiniteSet(D), NEW f \in [D -> Int], NEW x \in D
    PROVE  /\ SumFunction(f) \in Int
           /\ SumFunction([y \in D \ {x} |-> f[y]]) \in Int
           /\ SumFunction(f) = f[x] + SumFunction([y \in D \ {x} |-> f[y]])
<1> DEFINE E == D \ {x}
           g == [y \in E |-> f[y]]
<1>1. DOMAIN f = D /\ DOMAIN g = E /\ IsFiniteSet(E) /\ E \subseteq D
  BY FS_RemoveElement
<1>2. \E F : SumsParts(F, f, D)
  BY <1>1, SumSteps
<1>3. \E H : SumsParts(H, g, E)
  <2> HIDE DEF g, E
  <2> QED
    BY <1>1, SumSteps
<1>4. PICK F :
        /\ SumFunction(f) = F[D]
        /\ F[{}] = 0
        /\ \A S \in SUBSET D : S # {} => F[S] = f[Pick(S)] + F[S \ {Pick(S)}]
  BY <1>2 DEF SumsParts
<1>5. PICK H :
        /\ SumFunction(g) = H[E]
        /\ H[{}] = 0
        /\ \A S \in SUBSET E : S # {} => H[S] = g[Pick(S)] + H[S \ {Pick(S)}]
  BY <1>3 DEF SumsParts
<1>6. \A S \in SUBSET D : F[S] \in Int
  <2> DEFINE G == {S \in SUBSET D : F[S] \in Int}
  <2>1. ASSUME NEW T \in SUBSET D, \A z \in T : T \ {z} \in G
        PROVE  F[T] \in Int
    <3>1. CASE T = {}
      BY <1>4, <3>1
    <3>2. CASE T # {}
      <4>1. Pick(T) \in T
        BY <3>2, PickIn
      <4>2. F[T \ {Pick(T)}] \in Int /\ f[Pick(T)] \in Int
        BY <2>1, <4>1
      <4>3. F[T] = f[Pick(T)] + F[T \ {Pick(T)}]
        BY <1>4, <3>2
      <4> QED
        BY <4>2, <4>3
    <3> QED
      BY <3>1, <3>2
  <2>2. \A T \in SUBSET D : (\A z \in T : T \ {z} \in G) => T \in G
    BY <2>1
  <2> HIDE DEF G
  <2>3. \A T \in SUBSET D : T \in G
    BY <2>2, FiniteInduction
  <2> QED
    BY <2>3 DEF G
<1>7. \A S \in SUBSET D : \A z \in S : F[S] = f[z] + F[S \ {z}]
  <2> DEFINE G == {S \in SUBSET D : \A z \in S : F[S] = f[z] + F[S \ {z}]}
  <2>1. ASSUME NEW T \in SUBSET D, \A z \in T : T \ {z} \in G,
               NEW z \in T
        PROVE  F[T] = f[z] + F[T \ {z}]
    <3>1. PICK c \in T : c = Pick(T)
      BY PickIn
    <3>2. F[T] = f[c] + F[T \ {c}]
      BY <1>4, <3>1
    <3>3. CASE z = c
      BY <3>2, <3>3
    <3>4. CASE z # c
      <4>1. F[T \ {c}] = f[z] + F[(T \ {c}) \ {z}]
        BY <2>1, <3>4
      <4>2. F[T \ {z}] = f[c] + F[(T \ {z}) \ {c}]
        BY <2>1, <3>4
      <4>3. (T \ {c}) \ {z} = (T \ {z}) \ {c}
        OBVIOUS
      <4>4. /\ f[c] \in Int /\ f[z] \in Int /\ F[(T \ {z}) \ {c}] \in Int
            /\ F[(T \ {c}) \ {z}] = F[(T \ {z}) \ {c}]
        BY <1>6, <4>3
      <4> QED
        BY <3>2, <4>1, <4>2, <4>4
    <3> QED
      BY <3>3, <3>4
  <2>2. \A T \in SUBSET D : (\A z \in T : T \ {z} \in G) => T \in G
    BY <2>1
  <2> HIDE DEF G
  <2>3. \A T \in SUBSET D : T \in G
    BY <2>2, FiniteInduction
  <2> QED
    BY <2>3 DEF G
<1>8. \A S \in SUBSET E : H[S] = F[S]
  <2> DEFINE G == {S \in SUBSET E : H[S] = F[S]}
  <2>1. ASSUME NEW T \in SUBSET E, \A z \in T : T \ {z} \in G
        PROVE  H[T] = F[T]
    <3>1. CASE T = {}
      BY <1>4, <1>5, <3>1
    <3>2. CASE T # {}
      <4>1. Pick(T) \in T
        BY <3>2, PickIn
      <4>2. H[T] = g[Pick(T)] + H[T \ {Pick(T)}]
        BY <1>5, <3>2
      <4>3. F[T] = f[Pick(T)] + F[T \ {Pick(T)}]
        BY <1>4, <3>2
      <4>4. H[T \ {Pick(T)}] = F[T \ {Pick(T)}]
        BY <2>1, <4>1
      <4>5. g[Pick(T)] = f[Pick(T)]
        BY <4>1
      <4> QED
        BY <4>2, <4>3, <4>4, <4>5
    <3> QED
      BY <3>1, <3>2
  <2>2. \A T \in SUBSET E : (\A z \in T : T \ {z} \in G) => T \in G
    BY <2>1
  <2> HIDE DEF G, E
  <2>3. \A T \in SUBSET E : T \in G
    BY <1>1, <2>2, FiniteInduction
  <2> QED
    BY <2>3 DEF G
<1>9. F[D] = f[x] + F[E] /\ H[E] = F[E] /\ F[D] \in Int /\ F[E] \in Int
  BY <1>6, <1>7, <1>8
<1> QED
  BY <1>4, <1>5, <1>9

\* Nothing adds up to nothing.
LEMMA SumEmpty ==
    ASSUME NEW f, DOMAIN f = {}
    PROVE  SumFunction(f) = 0
<1>1. PICK F : SumsParts(F, f, {})
  BY SumSteps, FS_EmptySet
<1> QED
  BY <1>1 DEF SumsParts

\* What one more summand adds.
LEMMA SumAdd ==
    ASSUME NEW D, IsFiniteSet(D), NEW x, x \notin D, NEW E, E = D \union {x},
           NEW f \in [E -> Int], NEW g \in [D -> Int],
           \A y \in D : f[y] = g[y]
    PROVE  SumFunction(f) = f[x] + SumFunction(g)
<1>1. IsFiniteSet(E) /\ x \in E
  BY FS_AddElement
<1>2. SumFunction(f) = f[x] + SumFunction([y \in E \ {x} |-> f[y]])
  BY <1>1, SumRemove
<1>3. [y \in E \ {x} |-> f[y]] = g
  <2>1. E \ {x} = D
    OBVIOUS
  <2> QED
    BY <2>1
<1> QED
  BY <1>2, <1>3

\* What the change of one summand changes.
LEMMA SumChange ==
    ASSUME NEW D, IsFiniteSet(D), NEW x \in D,
           NEW f \in [D -> Int], NEW g \in [D -> Int],
           \A y \in D \ {x} : f[y] = g[y]
    PROVE  SumFunction(g) = SumFunction(f) - f[x] + g[x]
<1>1. SumFunction(f) = f[x] + SumFunction([y \in D \ {x} |-> f[y]])
  BY SumRemove, ZenonT(60)
<1>2. SumFunction(g) = g[x] + SumFunction([y \in D \ {x} |-> g[y]])
  BY SumRemove, ZenonT(60)
<1>3. [y \in D \ {x} |-> f[y]] = [y \in D \ {x} |-> g[y]]
  OBVIOUS
<1>4. SumFunction([y \in D \ {x} |-> f[y]]) \in Int /\ f[x] \in Int /\ g[x] \in Int
  BY SumRemove
<1> QED
  BY <1>1, <1>2, <1>3, <1>4

\* A sum of natural numbers is no smaller than any of them.
LEMMA SumNat ==
    ASSUME NEW D, IsFiniteSet(D), NEW f \in [D -> Nat]
    PROVE  /\ SumFunction(f) \in Nat
           /\ \A x \in D : SumFunction(f) >= f[x]
<1> DEFINE Part(T) == SumFunction([y \in T |-> f[y]])
           G == {T \in SUBSET D : Part(T) \in Nat}
<1>1. ASSUME NEW T \in SUBSET D, \A z \in T : T \ {z} \in G
      PROVE  Part(T) \in Nat
  <2>1. CASE T = {}
    BY <2>1, SumEmpty
  <2>2. CASE T # {}
    <3>1. PICK z \in T : TRUE
      BY <2>2
    <3> DEFINE h == [y \in T |-> f[y]]
               k == [y \in T \ {z} |-> h[y]]
    <3>2. IsFiniteSet(T) /\ h \in [T -> Int]
      BY FS_Subset
    <3>3. SumFunction(h) = h[z] + SumFunction(k)
      <4> HIDE DEF h
      <4> QED
        BY <3>1, <3>2, SumRemove
    <3>4. k = [y \in T \ {z} |-> f[y]]
      BY <3>1
    <3>5. SumFunction(k) \in Nat
      BY <1>1, <3>1, <3>4
    <3>6. h[z] \in Nat
      BY <3>1
    <3> QED
      BY <3>3, <3>5, <3>6
  <2> QED
    BY <2>1, <2>2
<1>2. \A T \in SUBSET D : (\A z \in T : T \ {z} \in G) => T \in G
  BY <1>1
<1>3. \A T \in SUBSET D : T \in G
  <2> HIDE DEF G
  <2> QED
    BY <1>2, FiniteInduction
<1>4. [y \in D |-> f[y]] = f
  OBVIOUS
<1>5. SumFunction(f) \in Nat
  BY <1>3, <1>4
<1>6. ASSUME NEW x \in D
      PROVE  SumFunction(f) >= f[x]
  <2>1. Part(D \ {x}) \in Nat
    BY <1>3
  <2>2. SumFunction(f) = f[x] + Part(D \ {x})
    BY SumRemove
  <2> QED
    BY <2>1, <2>2
<1> QED
  BY <1>5, <1>6

\* A sum does not depend on the names of its summands.
LEMMA SumReindex ==
    ASSUME NEW D, IsFiniteSet(D), NEW C, NEW f \in [D -> Int],
           NEW h \in [C -> D], \A a, b \in C : h[a] = h[b] => a = b,
           \A d \in D : \E a \in C : h[a] = d
    PROVE  SumFunction([a \in C |-> f[h[a]]]) = SumFunction(f)
<1> DEFINE Part(T) == SumFunction([y \in T |-> f[y]])
           Pre(T) == {a \in C : h[a] \in T}
           Image(T) == SumFunction([a \in Pre(T) |-> f[h[a]]])
           G == {T \in SUBSET D : IsFiniteSet(Pre(T)) /\ Image(T) = Part(T)}
<1>1. ASSUME NEW T \in SUBSET D, \A z \in T : T \ {z} \in G
      PROVE  IsFiniteSet(Pre(T)) /\ Image(T) = Part(T)
  <2>1. CASE T = {}
    <3>1. Pre(T) = {}
      BY <2>1
    <3>2. Image(T) = 0
      BY <3>1, SumEmpty
    <3>3. Part(T) = 0
      BY <2>1, SumEmpty
    <3> QED
      BY <3>1, <3>2, <3>3, FS_EmptySet
  <2>2. CASE T # {}
    <3>1. PICK c \in C : h[c] \in T
      BY <2>2
    <3> DEFINE z == h[c]
               U == T \ {z}
    <3>2. IsFiniteSet(Pre(U)) /\ Image(U) = Part(U)
      BY <1>1, <3>1
    <3>3. Pre(T) = Pre(U) \union {c} /\ c \notin Pre(U) /\ c \in Pre(T)
      BY <3>1
    <3>4. IsFiniteSet(Pre(T)) /\ IsFiniteSet(T) /\ IsFiniteSet(U)
      BY <3>2, <3>3, FS_AddElement, FS_Subset
    <3>5. Image(T) = f[z] + Image(U)
      <4> DEFINE p == [a \in Pre(T) |-> f[h[a]]]
                 q == [a \in Pre(U) |-> f[h[a]]]
      <4>1. /\ p \in [Pre(T) -> Int] /\ q \in [Pre(U) -> Int]
            /\ \A a \in Pre(U) : p[a] = q[a]
            /\ p[c] = f[z]
        BY <3>3
      <4>2. SumFunction(p) = p[c] + SumFunction(q)
        <5>1. /\ IsFiniteSet(Pre(U)) /\ Pre(T) = Pre(U) \union {c}
              /\ c \notin Pre(U)
          BY <3>2, <3>3
        <5> HIDE DEF p, q, Pre, U, z
        <5> QED
          BY <4>1, <5>1, SumAdd
      <4> QED
        BY <4>1, <4>2
    <3>6. Part(T) = f[z] + Part(U)
      <4> DEFINE p == [y \in T |-> f[y]]
                 q == [y \in U |-> f[y]]
      <4>1. /\ T = U \union {z} /\ p \in [T -> Int] /\ q \in [U -> Int] /\ z \notin U
            /\ \A a \in U : p[a] = q[a]
            /\ p[z] = f[z]
        BY <3>1
      <4>2. SumFunction(p) = p[z] + SumFunction(q)
        <5> HIDE DEF p, q, U, z
        <5> QED
          BY <3>4, <4>1, SumAdd
      <4> QED
        BY <4>1, <4>2
    <3> QED
      BY <3>2, <3>4, <3>5, <3>6
  <2> QED
    BY <2>1, <2>2
<1>2. \A T \in SUBSET D : (\A z \in T : T \ {z} \in G) => T \in G
  BY <1>1
<1>3. D \in G
  <2> HIDE DEF G
  <2> QED
    BY <1>2, FiniteInduction
<1>4. [y \in D |-> f[y]] = f /\ Pre(D) = C
  OBVIOUS
<1> QED
  BY <1>3, <1>4

-----------------------------------------------------------------------------
(* Lists. *)

\* t is the list s with e put in at p.
Inserted(s, p, e, t) ==
    /\ Len(t) = Len(s) + 1
    /\ \A i \in 1..(Len(s) + 1) :
            t[i] = IF i < p THEN s[i] ELSE IF i = p THEN e ELSE s[i - 1]

\* t is the list s without what was at p.
Removed(s, p, t) ==
    /\ Len(t) = Len(s) - 1
    /\ \A i \in 1..(Len(s) - 1) : t[i] = IF i < p THEN s[i] ELSE s[i + 1]

\* What stands on a list.
LEMMA OnList ==
    ASSUME NEW S, NEW list \in Seq(S)
    PROVE  /\ ToSet(list) \subseteq S
           /\ DOMAIN list = 1..Len(list) /\ Len(list) \in Nat
           /\ \A i \in DOMAIN list : list[i] \in S /\ list[i] \in ToSet(list)
           /\ \A x \in ToSet(list) : \E i \in DOMAIN list : x = list[i]
<1>1. DOMAIN list = 1..Len(list) /\ Len(list) \in Nat
  OBVIOUS
<1>2. \A i \in DOMAIN list : list[i] \in S
  OBVIOUS
<1> QED
  BY <1>1, <1>2 DEF ToSet

\* What InsertAt does to a list, place by place.
LEMMA InsertAtIs ==
    ASSUME NEW S, NEW s \in Seq(S), NEW e \in S, NEW p \in 1..(Len(s) + 1)
    PROVE  /\ InsertAt(s, p, e) \in Seq(S)
           /\ Inserted(s, p, e, InsertAt(s, p, e))
<1> DEFINE a == SubSeq(s, 1, p - 1)
           b == SubSeq(s, p, Len(s))
           c == a \o <<e>>
<1>1. /\ a \in Seq(S) /\ Len(a) = p - 1
      /\ \A i \in 1..(p - 1) : a[i] = s[i]
  BY SubSeqProperties
<1>2. /\ b \in Seq(S) /\ Len(b) = Len(s) - p + 1
      /\ \A i \in 1..(Len(s) - p + 1) : b[i] = s[p + i - 1]
  BY SubSeqProperties
<1> HIDE DEF a, b
<1>3. /\ c \in Seq(S) /\ Len(c) = p
      /\ \A i \in 1..(p - 1) : c[i] = s[i]
      /\ c[p] = e
  BY <1>1
<1> HIDE DEF c
<1>4. /\ c \o b \in Seq(S) /\ Len(c \o b) = Len(s) + 1
      /\ \A i \in 1..(Len(s) + 1) :
            (c \o b)[i] = IF i =< p THEN c[i] ELSE b[i - p]
  BY <1>2, <1>3
<1>5. \A i \in 1..(Len(s) + 1) :
        (c \o b)[i] = IF i < p THEN s[i] ELSE IF i = p THEN e ELSE s[i - 1]
  BY <1>2, <1>3, <1>4
<1>6. InsertAt(s, p, e) = c \o b
  BY DEF InsertAt, a, b, c
<1> QED
  BY <1>4, <1>5, <1>6 DEF Inserted

\* What RemoveAt does to a list, place by place.
LEMMA RemoveAtIs ==
    ASSUME NEW S, NEW s \in Seq(S), NEW p \in 1..Len(s)
    PROVE  /\ RemoveAt(s, p) \in Seq(S)
           /\ Removed(s, p, RemoveAt(s, p))
<1> DEFINE a == SubSeq(s, 1, p - 1)
           b == SubSeq(s, p + 1, Len(s))
<1>1. /\ a \in Seq(S) /\ Len(a) = p - 1
      /\ \A i \in 1..(p - 1) : a[i] = s[i]
  BY SubSeqProperties
<1>2. /\ b \in Seq(S) /\ Len(b) = Len(s) - p
      /\ \A i \in 1..(Len(s) - p) : b[i] = s[p + i]
  BY SubSeqProperties
<1> HIDE DEF a, b
<1>3. /\ a \o b \in Seq(S) /\ Len(a \o b) = Len(s) - 1
      /\ \A i \in 1..(Len(s) - 1) :
            (a \o b)[i] = IF i =< p - 1 THEN a[i] ELSE b[i - (p - 1)]
  <2>1. Len(a) + Len(b) = Len(s) - 1
    BY <1>1, <1>2
  <2>2. /\ a \o b \in Seq(S) /\ Len(a \o b) = Len(a) + Len(b)
        /\ \A i \in 1..(Len(a) + Len(b)) :
            (a \o b)[i] = IF i =< Len(a) THEN a[i] ELSE b[i - Len(a)]
    BY <1>1, <1>2, ConcatProperties
  <2> QED
    BY <1>1, <2>1, <2>2
<1>4. \A i \in 1..(Len(s) - 1) :
        (a \o b)[i] = IF i < p THEN s[i] ELSE s[i + 1]
  BY <1>1, <1>2, <1>3
<1>5. RemoveAt(s, p) = a \o b
  BY DEF RemoveAt, a, b
<1> QED
  BY <1>3, <1>4, <1>5 DEF Removed

\* The place of an order on a list that holds it once.
LEMMA PositionIs ==
    ASSUME NEW S, NEW list \in Seq(S), IsInjective(list), NEW i \in 1..Len(list)
    PROVE  Position(list, list[i]) = i
<1>1. i \in DOMAIN list /\ \A j \in DOMAIN list : list[j] = list[i] => j = i
  BY DEF IsInjective
<1> QED
  BY <1>1 DEF Position

\* The least element of a set of numbers, once it is known.
LEMMA MinIs ==
    ASSUME NEW T, T \subseteq Int, NEW m \in T, \A k \in T : m =< k
    PROVE  Min(T) = m
<1>1. \A x \in T : (\A y \in T : x =< y) => x = m
  OBVIOUS
<1> QED
  BY <1>1 DEF Min

\* An order that is added behind those that are before it, and in front of
\* those that are not, is on the list with them.
LEMMA InsertAtSet ==
    ASSUME NEW S, NEW s \in Seq(S), NEW e \in S, NEW p \in 1..(Len(s) + 1)
    PROVE  ToSet(InsertAt(s, p, e)) = ToSet(s) \union {e}
<1> DEFINE t == InsertAt(s, p, e)
<1>1. /\ t \in Seq(S)
      /\ Len(t) = Len(s) + 1
      /\ \A i \in 1..(Len(s) + 1) :
                t[i] = IF i < p THEN s[i] ELSE IF i = p THEN e ELSE s[i - 1]
  BY InsertAtIs DEF Inserted
<1> HIDE DEF t
<1>2. DOMAIN t = 1..(Len(s) + 1) /\ DOMAIN s = 1..Len(s)
  BY <1>1
<1>3. ASSUME NEW i \in DOMAIN s
      PROVE  s[i] \in ToSet(t)
  <2>1. CASE i < p
    BY <1>1, <1>2, <2>1 DEF ToSet
  <2>2. CASE i >= p
    <3>1. i + 1 \in DOMAIN t /\ t[i + 1] = s[i]
      BY <1>1, <1>2, <2>2
    <3> QED
      BY <3>1 DEF ToSet
  <2> QED
    BY <1>2, <2>1, <2>2
<1>4. t[p] = e /\ p \in DOMAIN t
  BY <1>1, <1>2
<1>5. ASSUME NEW i \in DOMAIN t
      PROVE  t[i] \in ToSet(s) \union {e}
  <2>1. CASE i < p
    BY <1>1, <1>2, <2>1 DEF ToSet
  <2>2. CASE i = p
    BY <1>4, <2>2
  <2>3. CASE i > p
    <3>1. i - 1 \in DOMAIN s /\ t[i] = s[i - 1]
      BY <1>1, <1>2, <2>3
    <3> QED
      BY <3>1 DEF ToSet
  <2> QED
    BY <1>2, <2>1, <2>2, <2>3
<1>6. ToSet(t) \subseteq ToSet(s) \union {e}
  BY <1>5 DEF ToSet
<1>7. ToSet(s) \subseteq ToSet(t) /\ e \in ToSet(t)
  BY <1>3, <1>4 DEF ToSet
<1> QED
  BY <1>6, <1>7 DEF t

\* An order that is taken off its only place is the only one that goes.
LEMMA RemoveAtSet ==
    ASSUME NEW S, NEW s \in Seq(S), IsInjective(s), NEW p \in 1..Len(s)
    PROVE  ToSet(RemoveAt(s, p)) = ToSet(s) \ {s[p]}
<1> DEFINE t == RemoveAt(s, p)
<1>1. /\ t \in Seq(S)
      /\ Len(t) = Len(s) - 1
      /\ \A i \in 1..(Len(s) - 1) : t[i] = IF i < p THEN s[i] ELSE s[i + 1]
  BY RemoveAtIs DEF Removed
<1> HIDE DEF t
<1>2. DOMAIN t = 1..(Len(s) - 1) /\ DOMAIN s = 1..Len(s)
  BY <1>1
<1>3. ASSUME NEW i \in DOMAIN s, i # p
      PROVE  s[i] \in ToSet(t)
  <2>1. CASE i < p
    BY <1>1, <1>2, <2>1 DEF ToSet
  <2>2. CASE i > p
    <3>1. i - 1 \in DOMAIN t /\ t[i - 1] = s[i]
      BY <1>1, <1>2, <2>2
    <3> QED
      BY <3>1 DEF ToSet
  <2> QED
    BY <1>2, <1>3, <2>1, <2>2
<1>4. ASSUME NEW i \in DOMAIN t
      PROVE  t[i] \in ToSet(s) /\ t[i] # s[p]
  <2>1. \A a, b \in DOMAIN s : s[a] = s[b] => a = b
    BY DEF IsInjective
  <2>2. CASE i < p
    BY <1>1, <1>2, <2>1, <2>2 DEF ToSet
  <2>3. CASE i >= p
    <3>1. i + 1 \in DOMAIN s /\ t[i] = s[i + 1] /\ i + 1 # p /\ p \in DOMAIN s
      BY <1>1, <1>2, <2>3
    <3> QED
      BY <2>1, <3>1 DEF ToSet
  <2> QED
    BY <1>2, <2>2, <2>3
<1>5. ToSet(t) \subseteq ToSet(s) \ {s[p]}
  BY <1>4 DEF ToSet
<1>6. ToSet(s) \ {s[p]} \subseteq ToSet(t)
  BY <1>3 DEF ToSet
<1> QED
  BY <1>5, <1>6 DEF t

-----------------------------------------------------------------------------
(* Sides. *)

\* An order stands before another one when its price is better, or the same
\* and it is the older one.
Before(os, a, b) ==
    \/ LevelKey(os[a]) < LevelKey(os[b])
    \/ LevelKey(os[a]) = LevelKey(os[b]) /\ a < b

InOrder(list, os) ==
    \A i, j \in DOMAIN list : i < j => Before(os, list[i], list[j])

Priced(ids, os) ==
    \A id \in ids : LevelKey(os[id]) \in Int /\ os[id].resd \in Nat

\* The orders os and ns agree in what a side depends on.
Agree(ids, os, ns) ==
    \A id \in ids : /\ LevelKey(ns[id]) = LevelKey(os[id])
                    /\ ns[id].resd = os[id].resd

\* What insert_order, remove_order and reduce_level keep true of a side.
BookSide(s, os) ==
    /\ s = [list |-> s.list, levels |-> s.levels]
    /\ s.list \in Seq(Nat)
    /\ Priced(ToSet(s.list), os)
    /\ InOrder(s.list, os)
    /\ s.levels = LevelsOf(s.list, os)

\* A list that is in order names no order twice.
LEMMA InOrderInjective ==
    ASSUME NEW list \in Seq(Nat), NEW os, Priced(ToSet(list), os), InOrder(list, os)
    PROVE  IsInjective(list)
<1> SUFFICES ASSUME NEW i \in DOMAIN list, NEW j \in DOMAIN list, list[i] = list[j],
                    i # j
             PROVE  FALSE
  BY DEF IsInjective
<1>1. i \in Int /\ j \in Int /\ list[i] \in Nat /\ list[i] \in ToSet(list)
  BY DEF ToSet
<1>2. Before(os, list[i], list[i])
  <2>1. CASE i < j
    BY <2>1 DEF InOrder
  <2>2. CASE j < i
    BY <2>2 DEF InOrder
  <2> QED
    BY <1>1, <2>1, <2>2
<1> QED
  BY <1>1, <1>2 DEF Before, Priced

\* The orders on a list, and those at one of its prices, are finitely many.
LEMMA ListFinite ==
    ASSUME NEW list \in Seq(Nat), NEW os, NEW key
    PROVE  IsFiniteSet(ToSet(list)) /\ IsFiniteSet(IdsAt(list, os, key))
<1>1. IsFiniteSet(DOMAIN list)
  <2>1. DOMAIN list = 1..Len(list) /\ Len(list) \in Int
    OBVIOUS
  <2> QED
    BY <2>1, FS_Interval
<1>2. IsFiniteSet(ToSet(list))
  <2>1. list \in Surjection(DOMAIN list, ToSet(list))
    BY DEF ToSet, Surjection
  <2> QED
    BY <1>1, <2>1, FS_Surjection
<1> QED
  BY <1>2, FS_Subset DEF IdsAt

\* The total of some orders is a number, which only depends on their residues.
LEMMA SumOfSame ==
    ASSUME NEW ids, IsFiniteSet(ids), NEW os, NEW ns,
           \A id \in ids : os[id].resd \in Nat /\ ns[id].resd = os[id].resd
    PROVE  /\ SumOfResd(ids, ns) = SumOfResd(ids, os)
           /\ SumOfResd(ids, os) \in Nat
           /\ \A id \in ids : os[id].resd =< SumOfResd(ids, os)
<1> DEFINE f == [id \in ids |-> os[id].resd]
<1>1. f \in [ids -> Nat]
  OBVIOUS
<1>2. SumFunction(f) \in Nat /\ \A id \in ids : SumFunction(f) >= f[id]
  <2> HIDE DEF f
  <2> QED
    BY <1>1, SumNat
<1>3. [id \in ids |-> ns[id].resd] = f
  OBVIOUS
<1>4. SumOfResd(ids, os) = SumFunction(f) /\ SumOfResd(ids, ns) = SumFunction(f)
  BY <1>3 DEF SumOfResd
<1>5. \A id \in ids : os[id].resd \in Nat /\ os[id].resd = f[id]
  OBVIOUS
<1> QED
  BY <1>2, <1>4, <1>5

\* One more order adds what is left of it to the total.
LEMMA SumOfMore ==
    ASSUME NEW ids, IsFiniteSet(ids), NEW os, NEW ns, NEW x, x \notin ids,
           NEW all, all = ids \union {x},
           \A id \in ids : os[id].resd \in Nat /\ ns[id].resd = os[id].resd,
           ns[x].resd \in Nat
    PROVE  SumOfResd(all, ns) = SumOfResd(ids, os) + ns[x].resd
<1> DEFINE f == [id \in all |-> ns[id].resd]
           g == [id \in ids |-> os[id].resd]
<1>1. /\ f \in [all -> Int] /\ g \in [ids -> Int]
      /\ \A id \in ids : f[id] = g[id]
  OBVIOUS
<1>2. SumFunction(f) = f[x] + SumFunction(g)
  <2> HIDE DEF f, g
  <2> QED
    BY ONLY IsFiniteSet(ids), x \notin ids, all = ids \union {x}, <1>1, SumAdd
<1>3. SumFunction(g) \in Nat
  BY SumOfSame DEF SumOfResd
<1> QED
  BY <1>2, <1>3 DEF SumOfResd

\* The orders ns of rest are the orders os of ids without x.
OneLess(ids, os, x, rest, ns) ==
    /\ x \in ids
    /\ rest = ids \ {x}
    /\ \A id \in ids : os[id].resd \in Nat
    /\ \A id \in rest : ns[id].resd = os[id].resd

\* One order less takes what was left of it from the total.
LEMMA SumOfLess ==
    ASSUME NEW ids, IsFiniteSet(ids), NEW os, NEW ns, NEW x, NEW rest,
           OneLess(ids, os, x, rest, ns)
    PROVE  SumOfResd(rest, ns) = SumOfResd(ids, os) - os[x].resd
<1> USE DEF OneLess
<1>1. IsFiniteSet(rest) /\ x \notin rest /\ ids = rest \union {x}
  BY FS_RemoveElement
<1>2. \A id \in rest : os[id].resd \in Nat /\ ns[id].resd = os[id].resd
  OBVIOUS
<1>3. \A id \in rest : os[id].resd \in Nat /\ os[id].resd = os[id].resd
  OBVIOUS
<1>4. SumOfResd(rest, ns) = SumOfResd(rest, os) /\ SumOfResd(rest, os) \in Nat
  BY <1>1, <1>2, SumOfSame
<1>5. SumOfResd(ids, os) = SumOfResd(rest, os) + os[x].resd
  BY <1>1, <1>3, SumOfMore
<1>6. os[x].resd \in Nat
  OBVIOUS
<1> QED
  BY <1>4, <1>5, <1>6

\* The orders ns and os of ids differ in x only.
OneOther(ids, os, x, ns) ==
    /\ x \in ids
    /\ \A id \in ids : os[id].resd \in Nat
    /\ \A id \in ids \ {x} : ns[id].resd = os[id].resd
    /\ ns[x].resd \in Nat

\* An order that is reduced reduces the total by as much.
LEMMA SumOfChange ==
    ASSUME NEW ids, IsFiniteSet(ids), NEW os, NEW ns, NEW x,
           OneOther(ids, os, x, ns)
    PROVE  SumOfResd(ids, ns) = SumOfResd(ids, os) - os[x].resd + ns[x].resd
<1> USE DEF OneOther
<1> DEFINE f == [id \in ids |-> os[id].resd]
           g == [id \in ids |-> ns[id].resd]
<1>1. /\ f \in [ids -> Int] /\ g \in [ids -> Int]
      /\ \A id \in ids \ {x} : f[id] = g[id]
      /\ f[x] = os[x].resd /\ g[x] = ns[x].resd
  OBVIOUS
<1>2. SumFunction(g) = SumFunction(f) - f[x] + g[x]
  <2> HIDE DEF f, g
  <2> QED
    BY <1>1, SumChange
<1> QED
  BY <1>1, <1>2 DEF SumOfResd

\* i is the place of the first order at key.
FirstAt(list, os, key, i) ==
    /\ i \in DOMAIN list
    /\ LevelKey(os[list[i]]) = key
    /\ \A j \in DOMAIN list : j < i => LevelKey(os[list[j]]) # key

\* x is the oldest of some orders.
Oldest(ids, x) == x \in ids /\ \A y \in ids : x =< y

\* The level of the orders ids, which x is the first of.
LevelFrom(ids, os, x) ==
    [first |-> x, lots |-> SumOfResd(ids, os), count |-> Cardinality(ids)]

\* The level of a key is that of the first order at that key.
LEMMA LevelIs ==
    ASSUME NEW list \in Seq(Nat), NEW os, NEW key, NEW i, FirstAt(list, os, key, i)
    PROVE  /\ key \in DOMAIN LevelsOf(list, os)
           /\ LevelsOf(list, os)[key] = LevelFrom(IdsAt(list, os, key), os, list[i])
<1> DEFINE P == {j \in DOMAIN list : list[j] \in IdsAt(list, os, key)}
<1>1. P \subseteq Int /\ i \in P /\ \A j \in P : i =< j
  BY DEF FirstAt, IdsAt, ToSet
<1>2. Min(P) = i
  <2> HIDE DEF P
  <2> QED
    BY <1>1, MinIs
<1>3. list[i] \in ToSet(list) /\ LevelKey(os[list[i]]) = key
  BY DEF FirstAt, ToSet
<1>4. key \in {LevelKey(os[id]) : id \in ToSet(list)}
  BY <1>3
<1> QED
  BY <1>2, <1>4 DEF LevelsOf, LevelFrom

\* Every level has a first order.
LEMMA LevelHasFirst ==
    ASSUME NEW list \in Seq(Nat), NEW os, NEW key \in DOMAIN LevelsOf(list, os)
    PROVE  \E i : FirstAt(list, os, key, i)
<1> DEFINE P == {j \in DOMAIN list : LevelKey(os[list[j]]) = key}
<1>1. key \in {LevelKey(os[id]) : id \in ToSet(list)}
  BY DEF LevelsOf
<1>2. P # {} /\ P \subseteq Nat
  BY <1>1 DEF ToSet
<1>3. PICK i \in P : \A j \in P : i =< j
  <2> HIDE DEF P
  <2> QED
    BY <1>2, LeastNumber
<1>4. FirstAt(list, os, key, i)
  BY <1>3 DEF FirstAt
<1> QED
  BY <1>4

\* On a list that is in order the first order at a key is the oldest one.
LEMMA FirstIsOldest ==
    ASSUME NEW list \in Seq(Nat), NEW os, Priced(ToSet(list), os), InOrder(list, os),
           NEW key, NEW i, FirstAt(list, os, key, i)
    PROVE  Oldest(IdsAt(list, os, key), list[i])
<1>1. list[i] \in IdsAt(list, os, key)
  BY DEF FirstAt, IdsAt, ToSet
<1>2. ASSUME NEW y \in IdsAt(list, os, key)
      PROVE  list[i] =< y
  <2>1. PICK j \in DOMAIN list : y = list[j]
    BY <1>2 DEF IdsAt, ToSet
  <2>2. LevelKey(os[y]) = key /\ LevelKey(os[list[i]]) = key /\ key \in Int
    BY <1>1, <1>2 DEF IdsAt, Priced
  <2>3. i \in DOMAIN list /\ i =< j /\ i \in Int /\ j \in Int
    BY <2>1, <2>2 DEF FirstAt
  <2>4. list[i] \in Nat /\ y \in Nat
    BY <2>1, <2>3
  <2>5. CASE i = j
    BY <2>1, <2>4, <2>5
  <2>6. CASE i < j
    BY <2>1, <2>2, <2>3, <2>4, <2>6 DEF InOrder, Before
  <2> QED
    BY <2>3, <2>5, <2>6
<1> QED
  BY <1>1, <1>2 DEF Oldest

\* The level of a key is that of the oldest order at that key.
LEMMA LevelOfOldest ==
    ASSUME NEW list \in Seq(Nat), NEW os, Priced(ToSet(list), os), InOrder(list, os),
           NEW key \in DOMAIN LevelsOf(list, os)
    PROVE  \E x : /\ Oldest(IdsAt(list, os, key), x)
                  /\ LevelsOf(list, os)[key] = LevelFrom(IdsAt(list, os, key), os, x)
<1>1. PICK i : FirstAt(list, os, key, i)
  BY LevelHasFirst
<1>2. LevelsOf(list, os)[key] = LevelFrom(IdsAt(list, os, key), os, list[i])
  BY <1>1, LevelIs
<1>3. Oldest(IdsAt(list, os, key), list[i])
  BY <1>1, FirstIsOldest
<1> QED
  BY <1>2, <1>3

LevelsFit(levels, list, os) ==
    /\ levels = [key \in DOMAIN levels |-> levels[key]]
    /\ DOMAIN levels = {LevelKey(os[id]) : id \in ToSet(list)}
    /\ \A key \in DOMAIN levels :
        \E x : /\ Oldest(IdsAt(list, os, key), x)
               /\ levels[key] = LevelFrom(IdsAt(list, os, key), os, x)

\* Levels that have the right keys, and at each key what the oldest order at it
\* makes of them, are those of the list.
LEMMA LevelsAre ==
    ASSUME NEW list \in Seq(Nat), NEW os, Priced(ToSet(list), os), InOrder(list, os),
           NEW levels, LevelsFit(levels, list, os)
    PROVE  levels = LevelsOf(list, os)
<1> DEFINE lv == LevelsOf(list, os)
<1> USE DEF LevelsFit
<1>1. lv = [key \in DOMAIN lv |-> lv[key]]
  BY DEF LevelsOf
<1>2. DOMAIN lv = {LevelKey(os[id]) : id \in ToSet(list)}
  BY DEF LevelsOf
<1>3. ASSUME NEW key \in DOMAIN levels
      PROVE  lv[key] = levels[key]
  <2>1. PICK x : /\ Oldest(IdsAt(list, os, key), x)
                 /\ levels[key] = LevelFrom(IdsAt(list, os, key), os, x)
    BY <1>3
  <2>2. PICK y : /\ Oldest(IdsAt(list, os, key), y)
                 /\ lv[key] = LevelFrom(IdsAt(list, os, key), os, y)
    <3>1. key \in DOMAIN LevelsOf(list, os)
      BY <1>2
    <3> QED
      BY ONLY <3>1, list \in Seq(Nat), Priced(ToSet(list), os), InOrder(list, os),
              LevelOfOldest
  <2>3. IdsAt(list, os, key) \subseteq Nat
    BY DEF IdsAt, ToSet
  <2>4. x = y
    BY <2>1, <2>2, <2>3 DEF Oldest
  <2> QED
    BY <2>1, <2>2, <2>4
<1> HIDE DEF lv
<1>4. [key \in DOMAIN lv |-> lv[key]] = [key \in DOMAIN levels |-> levels[key]]
  BY <1>2, <1>3
<1> QED
  BY <1>1, <1>4 DEF lv

\* Where insert_order puts an order: behind every order whose price is no
\* worse, in front of every other one (MarketSide.cpp, insert_order looks for
\* the first order of the next level only).
LEMMA InsertPlace ==
    ASSUME NEW s, NEW os, BookSide(s, os), NEW id \in Nat, NEW order,
           LevelKey(order) \in Int
    PROVE  \E p \in 1..(Len(s.list) + 1) :
            /\ InsertOrder(s, id, order).list = InsertAt(s.list, p, id)
            /\ \A i \in DOMAIN s.list :
                /\ i < p => LevelKey(os[s.list[i]]) =< LevelKey(order)
                /\ i >= p => LevelKey(os[s.list[i]]) > LevelKey(order)
<1> DEFINE list == s.list
           k == LevelKey(order)
           K(i) == LevelKey(os[list[i]])
           N == InsertLevel(s.levels, id, order)
           worse == {key \in DOMAIN N : key > k}
           pos == IF worse = {} THEN Len(list) + 1
                  ELSE Position(list, N[Min(worse)].first)
<1>1. /\ list \in Seq(Nat) /\ DOMAIN list = 1..Len(list) /\ Len(list) \in Nat
      /\ \A i \in DOMAIN list : list[i] \in ToSet(list) /\ K(i) \in Int
      /\ IsInjective(list)
      /\ \A i, j \in DOMAIN list : i =< j => K(i) =< K(j)
  <2>1. list \in Seq(Nat) /\ DOMAIN list = 1..Len(list) /\ Len(list) \in Nat
    BY DEF BookSide
  <2>2. \A i \in DOMAIN list : list[i] \in ToSet(list) /\ K(i) \in Int
    BY DEF BookSide, ToSet, Priced
  <2>3. IsInjective(list)
    BY InOrderInjective DEF BookSide
  <2>4. ASSUME NEW i \in DOMAIN list, NEW j \in DOMAIN list, i =< j
        PROVE  K(i) =< K(j)
    <3>1. CASE i = j
      BY <2>2, <3>1
    <3>2. CASE i < j
      BY <2>2, <3>2 DEF BookSide, InOrder, Before
    <3> QED
      BY <2>1, <2>4, <3>1, <3>2
  <2> QED
    BY <2>1, <2>2, <2>3, <2>4
<1>2. DOMAIN s.levels = {LevelKey(os[x]) : x \in ToSet(list)}
  BY DEF BookSide, LevelsOf
<1>3. /\ DOMAIN N = DOMAIN s.levels \union {k}
      /\ \A key \in DOMAIN s.levels : key # k => N[key] = s.levels[key]
  BY DEF InsertLevel, Put
<1>4. InsertOrder(s, id, order).list = InsertAt(list, pos, id)
  BY DEF InsertOrder
<1>5. \A i \in DOMAIN list : K(i) \in DOMAIN s.levels
  BY <1>1, <1>2
<1>6. CASE worse = {}
  <2>1. pos = Len(list) + 1
    BY <1>6
  <2>2. \A i \in DOMAIN list : ~(K(i) > k)
    BY <1>3, <1>5, <1>6
  <2> HIDE DEF pos, N, worse, k
  <2>3. \A i \in DOMAIN list : (i < pos => K(i) =< k) /\ (i >= pos => K(i) > k)
    BY <1>1, <2>1, <2>2 DEF k
  <2> QED
    BY <1>1, <1>4, <2>1, <2>3 DEF k
<1>7. CASE worse # {}
  <2>1. worse \subseteq {K(i) : i \in DOMAIN list}
    BY <1>2, <1>3 DEF ToSet
  <2>2. \E m \in worse : \A key \in worse : m =< key
    <3> DEFINE P == {i \in DOMAIN list : K(i) \in worse}
    <3>1. P # {} /\ P \subseteq Nat
      BY <1>1, <1>7, <2>1
    <3>2. PICK i \in P : \A j \in P : i =< j
      <4> HIDE DEF P
      <4> QED
        BY <3>1, LeastNumber
    <3>3. \A key \in worse : K(i) =< key
      BY <1>1, <2>1, <3>2
    <3> QED
      BY <3>2, <3>3
  <2>3. PICK m \in worse : \A key \in worse : m =< key
    BY <2>2
  <2>4. worse \subseteq Int
    BY <1>1, <2>1
  <2>5. Min(worse) = m
    <3> HIDE DEF worse
    <3> QED
      BY <2>3, <2>4, MinIs
  <2>6. m \in DOMAIN s.levels /\ N[m] = s.levels[m] /\ m > k
    BY <1>3
  <2>7. PICK p : FirstAt(list, os, m, p)
    BY <1>1, <2>6, LevelHasFirst DEF BookSide
  <2>8. s.levels[m].first = list[p]
    <3>1. s.levels = LevelsOf(list, os)
      BY DEF BookSide
    <3>2. LevelsOf(list, os)[m] = LevelFrom(IdsAt(list, os, m), os, list[p])
      <4> HIDE DEF list
      <4> QED
        BY <1>1, <2>7, LevelIs
    <3> QED
      BY <3>1, <3>2 DEF LevelFrom
  <2>9. p \in DOMAIN list /\ K(p) = m /\ \A j \in DOMAIN list : j < p => K(j) # m
    BY <2>7 DEF FirstAt
  <2>10. pos = p
    BY <1>1, <1>7, <2>5, <2>6, <2>8, <2>9, PositionIs
  <2>11. \A i \in DOMAIN list : i < p => K(i) =< k
    <3> SUFFICES ASSUME NEW i \in DOMAIN list, i < p, ~(K(i) =< k)
                 PROVE  FALSE
      OBVIOUS
    <3>1. K(i) > k /\ K(i) \in worse
      BY <1>1, <1>3, <1>5
    <3>2. m =< K(i) /\ K(i) =< m /\ K(i) # m
      BY <1>1, <2>3, <2>9, <3>1
    <3> QED
      BY <1>1, <2>4, <3>2
  <2>12. \A i \in DOMAIN list : i >= p => K(i) > k
    BY <1>1, <2>4, <2>6, <2>9
  <2> HIDE DEF pos, N, worse, k
  <2> QED
    BY <1>1, <1>4, <2>9, <2>10, <2>11, <2>12 DEF k
<1> QED
  BY <1>6, <1>7

\* An order that goes between those that are before it and those that it is
\* before leaves the list in order.
LEMMA InsertInOrder ==
    ASSUME NEW list \in Seq(Nat), NEW os, NEW ns, NEW id \in Nat,
           InOrder(list, os), Agree(ToSet(list), os, ns),
           NEW p \in 1..(Len(list) + 1),
           \A i \in DOMAIN list :
                /\ i < p => Before(ns, list[i], id)
                /\ i >= p => Before(ns, id, list[i])
    PROVE  InOrder(InsertAt(list, p, id), ns)
<1> DEFINE t == InsertAt(list, p, id)
<1>1. \A a, b \in DOMAIN list : a < b => Before(ns, list[a], list[b])
  <2>1. \A a \in DOMAIN list : list[a] \in ToSet(list)
    BY DEF ToSet
  <2> QED
    BY <2>1 DEF InOrder, Before, Agree
<1>2. /\ DOMAIN t = 1..(Len(list) + 1)
      /\ \A i \in 1..(Len(list) + 1) :
            t[i] = IF i < p THEN list[i] ELSE IF i = p THEN id ELSE list[i - 1]
  <2>1. t \in Seq(Nat) /\ Inserted(list, p, id, t)
    BY InsertAtIs
  <2> HIDE DEF t
  <2> QED
    BY <2>1 DEF Inserted
<1> HIDE DEF t
<1>3. \A i \in DOMAIN t : i < p => i \in DOMAIN list /\ t[i] = list[i]
  BY <1>2
<1>4. \A i \in DOMAIN t : i > p => i - 1 \in DOMAIN list /\ t[i] = list[i - 1]
  BY <1>2
<1>5. t[p] = id
  BY <1>2
<1>6. ASSUME NEW i \in DOMAIN t, NEW j \in DOMAIN t, i < j
      PROVE  Before(ns, t[i], t[j])
  <2>1. i \in Int /\ j \in Int /\ p \in Int
    BY <1>2
  <2>2. CASE j < p
    BY <1>1, <1>3, <1>6, <2>1, <2>2
  <2>3. CASE j = p
    BY <1>3, <1>5, <1>6, <2>3
  <2>4. CASE j > p /\ i < p
    BY <1>1, <1>3, <1>4, <2>1, <2>4
  <2>5. CASE j > p /\ i = p
    BY <1>4, <1>5, <2>1, <2>5
  <2>6. CASE i > p
    BY <1>1, <1>4, <1>6, <2>1, <2>6
  <2> QED
    BY <1>6, <2>1, <2>2, <2>3, <2>4, <2>5, <2>6
<1> QED
  BY <1>6 DEF InOrder, t

\* A list stays in order when an order is taken off it.
LEMMA RemoveInOrder ==
    ASSUME NEW list \in Seq(Nat), NEW os, NEW ns, NEW p \in 1..Len(list),
           InOrder(list, os), Agree(ToSet(list) \ {list[p]}, os, ns),
           IsInjective(list)
    PROVE  InOrder(RemoveAt(list, p), ns)
<1> DEFINE t == RemoveAt(list, p)
<1>1. \A a, b \in DOMAIN list \ {p} : a < b => Before(ns, list[a], list[b])
  <2>1. \A a \in DOMAIN list \ {p} : list[a] \in ToSet(list) \ {list[p]}
    BY DEF ToSet, IsInjective
  <2> QED
    BY <2>1 DEF InOrder, Before, Agree
<1>2. /\ DOMAIN t = 1..(Len(list) - 1)
      /\ \A i \in 1..(Len(list) - 1) : t[i] = IF i < p THEN list[i] ELSE list[i + 1]
  <2>1. t \in Seq(Nat) /\ Removed(list, p, t)
    BY RemoveAtIs
  <2> HIDE DEF t
  <2> QED
    BY <2>1 DEF Removed
<1> HIDE DEF t
<1>3. \A i \in DOMAIN t : i < p => i \in DOMAIN list \ {p} /\ t[i] = list[i]
  BY <1>2
<1>4. \A i \in DOMAIN t : i >= p => i + 1 \in DOMAIN list \ {p} /\ t[i] = list[i + 1]
  BY <1>2
<1>5. ASSUME NEW i \in DOMAIN t, NEW j \in DOMAIN t, i < j
      PROVE  Before(ns, t[i], t[j])
  <2>1. i \in Int /\ j \in Int /\ p \in Int
    BY <1>2
  <2>2. CASE j < p
    BY <1>1, <1>3, <1>5, <2>1, <2>2
  <2>3. CASE i < p /\ j >= p
    BY <1>1, <1>3, <1>4, <2>1, <2>3
  <2>4. CASE i >= p
    BY <1>1, <1>4, <1>5, <2>1, <2>4
  <2> QED
    BY <1>5, <2>1, <2>2, <2>3, <2>4
<1> QED
  BY <1>5 DEF InOrder, t

\* What an order adds to a level and takes from it.
LEMMA AddOrderIs ==
    ASSUME NEW a, NEW ids, NEW os, NEW order
    PROVE  /\ AddOrder(LevelFrom(ids, os, a), order)
                = [first |-> a, lots |-> SumOfResd(ids, os) + order.resd,
                   count |-> Cardinality(ids) + 1]
           /\ SubOrder(LevelFrom(ids, os, a), order)
                = [first |-> a, lots |-> SumOfResd(ids, os) - order.resd,
                   count |-> Cardinality(ids) - 1]
<1> DEFINE b == SumOfResd(ids, os)
           c == Cardinality(ids)
           r == [first |-> a, lots |-> b, count |-> c]
<1> HIDE DEF b, c
<1>1. ASSUME NEW x, NEW y
      PROVE  [r EXCEPT !.lots = x, !.count = y] = [first |-> a, lots |-> x, count |-> y]
  <2>1. [r EXCEPT !.lots = x, !.count = y] = [[r EXCEPT !.lots = x] EXCEPT !.count = y]
    OBVIOUS
  <2>2. [r EXCEPT !.lots = x] = [first |-> a, lots |-> x, count |-> c]
    OBVIOUS
  <2>3. [[first |-> a, lots |-> x, count |-> c] EXCEPT !.count = y]
            = [first |-> a, lots |-> x, count |-> y]
    OBVIOUS
  <2> QED
    BY <2>1, <2>2, <2>3
<1>2. r.lots = b /\ r.count = c
  OBVIOUS
<1>3. /\ AddOrder(r, order) = [r EXCEPT !.lots = b + order.resd, !.count = c + 1]
      /\ SubOrder(r, order) = [r EXCEPT !.lots = b - order.resd, !.count = c - 1]
  BY <1>2 DEF AddOrder, SubOrder
<1> HIDE DEF r
<1>4. /\ AddOrder(r, order)
            = [first |-> a, lots |-> b + order.resd, count |-> c + 1]
      /\ SubOrder(r, order)
            = [first |-> a, lots |-> b - order.resd, count |-> c - 1]
  BY <1>1, <1>3
<1> QED
  BY <1>4 DEF r, b, c, LevelFrom

\* A list of orders that can stand on a side.
BookList(list, os) ==
    /\ list \in Seq(Nat)
    /\ Priced(ToSet(list), os)
    /\ InOrder(list, os)

\* The list t has the newest order id, which is "order", more than list has.
Grown(list, os, t, ns, id, order) ==
    /\ id \in Nat
    /\ ToSet(t) = ToSet(list) \union {id}
    /\ \A x \in ToSet(list) : x < id
    /\ Agree(ToSet(list), os, ns)
    /\ LevelKey(order) = LevelKey(ns[id])
    /\ order.resd = ns[id].resd

\* The levels after insert_order: the level of the newest order's price gains
\* it, or is created, and no other level changes.
LEMMA InsertLevelKeeps ==
    ASSUME NEW list, NEW os, BookList(list, os),
           NEW t, NEW ns, BookList(t, ns),
           NEW id, NEW order, Grown(list, os, t, ns, id, order)
    PROVE  InsertLevel(LevelsOf(list, os), id, order) = LevelsOf(t, ns)
<1> USE DEF BookList, Grown
<1> DEFINE L == LevelsOf(list, os)
           N == InsertLevel(L, id, order)
           Old(key) == IdsAt(list, os, key)
           New(key) == IdsAt(t, ns, key)
<1>1. PICK k : k = LevelKey(order)
  OBVIOUS
<1>2. id \notin ToSet(list) /\ ToSet(list) \subseteq Nat /\ ToSet(t) \subseteq Nat
  <2>1. ~(id < id)
    OBVIOUS
  <2> QED
    BY <2>1, OnList
<1>3. DOMAIN L = {LevelKey(os[x]) : x \in ToSet(list)}
  BY DEF LevelsOf
<1>4. /\ DOMAIN N = DOMAIN L \union {k}
      /\ N = [key \in DOMAIN N |-> N[key]]
      /\ \A key \in DOMAIN L : key # k => N[key] = L[key]
      /\ k \in DOMAIN L => N[k] = AddOrder(L[k], order)
      /\ k \notin DOMAIN L => N[k] = NewLevel(id, order)
  BY <1>1 DEF InsertLevel, Put
<1>5. DOMAIN N = {LevelKey(ns[x]) : x \in ToSet(t)}
  BY <1>1, <1>3, <1>4 DEF Agree
<1>6. \A key : /\ New(key) = Old(key) \union (IF key = k THEN {id} ELSE {})
               /\ id \notin Old(key)
               /\ Old(key) \subseteq Nat
  BY <1>1, <1>2 DEF IdsAt, Agree
<1>7. ASSUME NEW key
      PROVE  /\ IsFiniteSet(Old(key))
             /\ \A x \in Old(key) : os[x].resd \in Nat /\ ns[x].resd = os[x].resd
             /\ SumOfResd(Old(key), ns) = SumOfResd(Old(key), os)
  <2>1. IsFiniteSet(Old(key))
    BY ListFinite
  <2>2. \A x \in Old(key) : os[x].resd \in Nat /\ ns[x].resd = os[x].resd
    BY DEF IdsAt, Priced, Agree
  <2> HIDE DEF Old
  <2> QED
    BY <2>1, <2>2, SumOfSame
<1>8. ASSUME NEW key \in DOMAIN L
      PROVE  \E x : Oldest(Old(key), x) /\ L[key] = LevelFrom(Old(key), os, x)
  BY LevelOfOldest
<1>9. ns[id].resd \in Nat
  BY DEF Priced
<1>10. ToSet(list) \subseteq Nat /\ \A key : Old(key) \subseteq ToSet(list)
  BY <1>2 DEF IdsAt
<1> HIDE DEF L, N, Old, New
<1>11. ASSUME NEW key \in DOMAIN N
       PROVE  \E x : Oldest(New(key), x) /\ N[key] = LevelFrom(New(key), ns, x)
  <2>1. CASE key # k
    <3>1. key \in DOMAIN L /\ New(key) = Old(key) /\ N[key] = L[key]
      BY <1>4, <1>6, <1>11, <2>1
    <3>2. PICK x : Oldest(Old(key), x) /\ L[key] = LevelFrom(Old(key), os, x)
      BY <1>8, <3>1
    <3>3. N[key] = LevelFrom(New(key), ns, x)
      BY <1>7, <3>1, <3>2 DEF LevelFrom
    <3> QED
      BY <3>1, <3>2, <3>3
  <2>2. CASE key = k
    <3>1. New(k) = Old(k) \union {id} /\ id \notin Old(k)
      BY <1>6
    <3>2. SumOfResd(New(k), ns) = SumOfResd(Old(k), os) + order.resd
      BY <1>7, <1>9, <3>1, SumOfMore, SMTT(60)
    <3>3. Cardinality(New(k)) = Cardinality(Old(k)) + 1
      BY <1>7, <3>1, FS_AddElement
    <3>4. CASE k \in DOMAIN L
      <4>1. PICK x : Oldest(Old(k), x) /\ L[k] = LevelFrom(Old(k), os, x)
        BY <1>8, <3>4
      <4>2. x \in Old(k) /\ x < id /\ x \in Nat /\ Old(k) \subseteq Nat
        BY <1>10, <4>1 DEF Oldest
      <4>3. Oldest(New(k), x)
        BY <3>1, <4>1, <4>2 DEF Oldest
      <4>4. N[k] = AddOrder(LevelFrom(Old(k), os, x), order)
        BY <1>4, <3>4, <4>1
      <4>5. AddOrder(LevelFrom(Old(k), os, x), order)
                = [first |-> x, lots |-> SumOfResd(Old(k), os) + order.resd,
                   count |-> Cardinality(Old(k)) + 1]
        BY AddOrderIs
      <4>6. N[k] = LevelFrom(New(k), ns, x)
        BY <3>2, <3>3, <4>4, <4>5 DEF LevelFrom
      <4> QED
        BY <2>2, <4>3, <4>6
    <3>5. CASE k \notin DOMAIN L
      <4>1. Old(k) = {}
        BY <1>3, <3>5 DEF Old, IdsAt
      <4>2. Oldest(New(k), id)
        BY <3>1, <4>1 DEF Oldest
      <4>3. SumOfResd({}, os) = 0 /\ Cardinality({}) = 0
        BY SumEmpty, FS_EmptySet DEF SumOfResd
      <4>4. N[k] = LevelFrom(New(k), ns, id)
        BY <1>4, <1>9, <3>2, <3>3, <3>5, <4>1, <4>3 DEF LevelFrom, NewLevel
      <4> QED
        BY <2>2, <4>2, <4>4
    <3> QED
      BY <3>4, <3>5
  <2> QED
    BY <2>1, <2>2
<1>12. \A key \in DOMAIN N :
          \E x : /\ Oldest(IdsAt(t, ns, key), x)
                 /\ N[key] = LevelFrom(IdsAt(t, ns, key), ns, x)
  BY <1>11 DEF New
<1>13. LevelsFit(N, t, ns)
  BY <1>4, <1>5, <1>12 DEF LevelsFit
<1>14. N = LevelsOf(t, ns)
  BY <1>13, LevelsAre
<1> QED
  BY <1>14 DEF N, L

\* The orders ns have one that os has not, the newest order id, which is "order".
Arrives(ids, os, id, ns, order) ==
    /\ id \in Nat
    /\ \A x \in ids : x < id
    /\ Agree(ids, os, ns)
    /\ Priced({id}, ns)
    /\ LevelKey(order) = LevelKey(ns[id])
    /\ order.resd = ns[id].resd

\* insert_order keeps a side right: the newest order goes to its place.
LEMMA InsertOrderKeeps ==
    ASSUME NEW s, NEW os, BookSide(s, os), NEW id, NEW ns, NEW order,
           Arrives(ToSet(s.list), os, id, ns, order)
    PROVE  /\ BookSide(InsertOrder(s, id, order), ns)
           /\ ToSet(InsertOrder(s, id, order).list) = ToSet(s.list) \union {id}
<1> USE DEF Arrives
<1>1. PICK list \in Seq(Nat) : list = s.list
  BY DEF BookSide
<1>2. PICK k \in Int : k = LevelKey(order) /\ k = LevelKey(ns[id])
  BY DEF Priced
<1>3. PICK p \in 1..(Len(list) + 1) :
        /\ InsertOrder(s, id, order).list = InsertAt(list, p, id)
        /\ \A i \in DOMAIN list :
                /\ i < p => LevelKey(os[list[i]]) =< k
                /\ i >= p => LevelKey(os[list[i]]) > k
  <2>1. \E p \in 1..(Len(s.list) + 1) :
            /\ InsertOrder(s, id, order).list = InsertAt(s.list, p, id)
            /\ \A i \in DOMAIN s.list :
                /\ i < p => LevelKey(os[s.list[i]]) =< LevelKey(order)
                /\ i >= p => LevelKey(os[s.list[i]]) > LevelKey(order)
    BY <1>2, InsertPlace
  <2> QED
    BY <1>1, <1>2, <2>1
<1>4. PICK t \in Seq(Nat) : t = InsertAt(list, p, id)
  BY InsertAtIs
<1>5. ToSet(t) = ToSet(list) \union {id}
  BY <1>4, InsertAtSet, ZenonT(60)
<1>6. InsertOrder(s, id, order)
        = [list |-> t, levels |-> InsertLevel(LevelsOf(list, os), id, order)]
  BY <1>1, <1>3, <1>4 DEF InsertOrder, BookSide
<1>7. Priced(ToSet(t), ns)
  BY <1>1, <1>5 DEF BookSide, Priced, Agree
<1>8. InOrder(t, ns)
  <2>1. \A i \in DOMAIN list :
            /\ i < p => Before(ns, list[i], id)
            /\ i >= p => Before(ns, id, list[i])
    <3>1. \A i \in DOMAIN list : /\ LevelKey(ns[list[i]]) = LevelKey(os[list[i]])
                                 /\ LevelKey(os[list[i]]) \in Int
                                 /\ list[i] < id
      BY <1>1, OnList DEF Agree, BookSide, Priced
    <3> QED
      BY <1>2, <1>3, <3>1 DEF Before
  <2>2. InOrder(list, os) /\ Agree(ToSet(list), os, ns)
    BY <1>1 DEF BookSide
  <2> QED
    BY <1>4, <2>1, <2>2, InsertInOrder
<1>9. InsertLevel(LevelsOf(list, os), id, order) = LevelsOf(t, ns)
  <2>1. /\ Priced(ToSet(list), os) /\ InOrder(list, os)
        /\ Agree(ToSet(list), os, ns)
        /\ \A x \in ToSet(list) : x < id
    BY <1>1 DEF BookSide
  <2>2. BookList(list, os) /\ BookList(t, ns) /\ Grown(list, os, t, ns, id, order)
    BY <1>5, <1>7, <1>8, <2>1 DEF BookList, Grown
  <2> QED
    BY <2>2, InsertLevelKeeps
<1>10. BookSide([list |-> t, levels |-> LevelsOf(t, ns)], ns)
  BY <1>7, <1>8 DEF BookSide
<1> QED
  BY <1>1, <1>5, <1>6, <1>9, <1>10

\* The list t has all orders of list but the one at p, which is "order".
Shrunk(list, os, p, t, ns, order) ==
    /\ p \in 1..Len(list)
    /\ ToSet(t) = ToSet(list) \ {list[p]}
    /\ Agree(ToSet(t), os, ns)
    /\ LevelKey(order) = LevelKey(os[list[p]])
    /\ order.resd = os[list[p]].resd

\* The levels after remove_order: a level goes with its last order, and one that
\* loses its first order takes the one that follows it on the list, which is the
\* oldest of those that are left at its price.
LEMMA RemoveLevelKeeps ==
    ASSUME NEW list, NEW os, BookList(list, os),
           NEW t, NEW ns, BookList(t, ns),
           NEW p, NEW order, Shrunk(list, os, p, t, ns, order)
    PROVE  RemoveOrder([list |-> list, levels |-> LevelsOf(list, os)],
                       list[p], order).levels = LevelsOf(t, ns)
<1> USE DEF BookList, Shrunk
<1> DEFINE L == LevelsOf(list, os)
           N == RemoveOrder([list |-> list, levels |-> L], list[p], order).levels
           Old(key) == IdsAt(list, os, key)
           New(key) == IdsAt(t, ns, key)
<1>1. PICK k \in Int : k = LevelKey(order) /\ k = LevelKey(os[list[p]])
  BY OnList DEF Priced
<1>2. PICK id \in Nat : id = list[p] /\ id \in ToSet(list)
  BY OnList
<1>3. DOMAIN L = {LevelKey(os[x]) : x \in ToSet(list)} /\ k \in DOMAIN L
      /\ L = [key \in DOMAIN L |-> L[key]]
  BY <1>1, <1>2 DEF LevelsOf
<1>4. id \in Old(k) /\ \A key : Old(key) \subseteq Nat
  BY <1>1, <1>2, OnList DEF IdsAt
<1>5. \A key : New(key) = Old(key) \ (IF key = k THEN {id} ELSE {})
  BY <1>1, <1>2 DEF IdsAt, Agree
<1>6. ASSUME NEW key
      PROVE  /\ IsFiniteSet(Old(key))
             /\ \A x \in Old(key) : os[x].resd \in Nat
             /\ \A x \in New(key) : ns[x].resd = os[x].resd
  <2>1. IsFiniteSet(Old(key))
    BY ListFinite
  <2>2. \A x \in Old(key) : os[x].resd \in Nat
    BY DEF IdsAt, Priced
  <2>3. \A x \in New(key) : ns[x].resd = os[x].resd
    BY DEF IdsAt, Agree
  <2> QED
    BY <2>1, <2>2, <2>3
<1>7. ASSUME NEW key \in DOMAIN L
      PROVE  \E x : Oldest(Old(key), x) /\ L[key] = LevelFrom(Old(key), os, x)
  BY LevelOfOldest
<1>8. Position(list, id) = p
  BY <1>2, InOrderInjective, PositionIs
<1>9. PICK x : Oldest(Old(k), x) /\ L[k] = LevelFrom(Old(k), os, x)
  BY <1>3, <1>7
<1>10. SubOrder(L[k], order)
        = [first |-> x, lots |-> SumOfResd(Old(k), os) - order.resd,
           count |-> Cardinality(Old(k)) - 1]
  BY <1>9, AddOrderIs
<1>11. /\ SumOfResd(New(k), ns) = SumOfResd(Old(k), os) - order.resd
       /\ IsFiniteSet(New(k))
       /\ Cardinality(New(k)) = Cardinality(Old(k)) - 1
  <2>1. New(k) = Old(k) \ {id}
    BY <1>5
  <2> HIDE DEF New, Old
  <2>2. SumOfResd(New(k), ns) = SumOfResd(Old(k), os) - os[id].resd
    <3>1. OneLess(Old(k), os, id, New(k), ns)
      BY <1>4, <1>6, <2>1 DEF OneLess
    <3> QED
      BY <1>6, <3>1, SumOfLess
  <2>3. IsFiniteSet(New(k)) /\ Cardinality(New(k)) = Cardinality(Old(k)) - 1
    BY <1>4, <1>6, <2>1, FS_RemoveElement
  <2> QED
    BY <1>2, <2>2, <2>3
<1>12. /\ New(k) = {} => N = Drop(L, {k})
       /\ New(k) # {} /\ x = id => N = Put(L, k, LevelFrom(New(k), ns, list[p + 1]))
       /\ New(k) # {} /\ x # id => N = Put(L, k, LevelFrom(New(k), ns, x))
  <2>1. New(k) = {} <=> Cardinality(New(k)) = 0
    <3> HIDE DEF New
    <3> QED
      BY <1>11, FS_EmptySet
  <2> DEFINE level == SubOrder(L[k], order)
  <2>2. level = LevelFrom(New(k), ns, x)
    BY <1>10, <1>11 DEF LevelFrom
  <2>3. level.count = Cardinality(New(k)) /\ level.first = x
    BY <2>2 DEF LevelFrom
  <2>4. [level EXCEPT !.first = list[p + 1]] = LevelFrom(New(k), ns, list[p + 1])
    BY <2>2 DEF LevelFrom
  <2>5. N = IF level.count = 0 THEN Drop(L, {k})
            ELSE IF level.first = id
                 THEN Put(L, k, [level EXCEPT !.first = list[p + 1]])
                 ELSE Put(L, k, level)
    <3> HIDE DEF L
    <3> QED
      BY <1>1, <1>2, <1>8 DEF RemoveOrder
  <2> HIDE DEF N, level, L, New
  <2> QED
    BY <2>1, <2>2, <2>3, <2>4, <2>5
<1>13. New(k) # {} /\ x = id => Oldest(New(k), list[p + 1])
  <2> SUFFICES ASSUME New(k) # {}, x = id
               PROVE  Oldest(New(k), list[p + 1])
    OBVIOUS
  <2>1. ASSUME NEW y \in New(k)
        PROVE  \E j \in DOMAIN list : y = list[j] /\ j > p
    <3>1. y \in Old(k) /\ y # id
      BY <1>5
    <3>2. PICK j \in DOMAIN list : y = list[j]
      BY <3>1, OnList DEF IdsAt
    <3>3. id < y
      BY <1>4, <1>9, <3>1 DEF Oldest
    <3>4. LevelKey(os[list[j]]) = k /\ LevelKey(os[list[p]]) = k
      BY <1>1, <3>1, <3>2 DEF IdsAt
    <3>5. j \in Int /\ p \in Int /\ p \in DOMAIN list
      BY OnList
    <3>6. ~(j < p)
      BY <1>2, <3>2, <3>3, <3>4, <3>5, SMTT(60) DEF InOrder, Before
    <3>7. j # p
      BY <1>2, <3>1, <3>2
    <3> QED
      BY <3>2, <3>5, <3>6, <3>7
  <2>2. PICK y \in New(k), j \in DOMAIN list : y = list[j] /\ j > p
    BY <2>1
  <2>3. p \in Int /\ p + 1 \in DOMAIN list /\ p \in DOMAIN list /\ j \in Int
    BY <2>2, OnList
  <2>4. LevelKey(os[list[j]]) = k /\ LevelKey(os[list[p]]) = k
    BY <1>1, <1>5, <2>2 DEF IdsAt
  <2>5. LevelKey(os[list[p + 1]]) = k /\ list[p] < list[p + 1]
    <3>1. LevelKey(os[list[p + 1]]) \in Int /\ k \in Int /\ list[p + 1] \in Nat
      BY <2>3, OnList DEF Priced
    <3>2. Before(os, list[p], list[p + 1])
      BY <2>3 DEF InOrder
    <3>3. j = p + 1 \/ Before(os, list[p + 1], list[j])
      BY <2>2, <2>3 DEF InOrder
    <3> QED
      BY <2>4, <3>1, <3>2, <3>3 DEF Before
  <2>6. list[p + 1] \in New(k)
    <3>1. list[p + 1] \in Old(k)
      BY <2>3, <2>5, OnList DEF IdsAt
    <3>2. list[p + 1] # id
      BY <1>2, <2>5
    <3> QED
      BY <1>5, <3>1, <3>2
  <2>7. ASSUME NEW z \in New(k)
        PROVE  list[p + 1] =< z
    <3>1. PICK h \in DOMAIN list : z = list[h] /\ h > p
      BY <2>1
    <3>2. h \in Int /\ list[h] \in Nat /\ list[p + 1] \in Nat
      BY <2>3, OnList, SMTT(60)
    <3>3. LevelKey(os[list[h]]) = k
      BY <1>5, <3>1 DEF IdsAt
    <3>4. h = p + 1 \/ Before(os, list[p + 1], list[h])
      BY <2>3, <3>1, <3>2 DEF InOrder
    <3> QED
      BY <2>5, <3>1, <3>2, <3>3, <3>4 DEF Before
  <2> QED
    BY <2>6, <2>7 DEF Oldest
<1>14. New(k) # {} /\ x # id => Oldest(New(k), x)
  BY <1>5, <1>9 DEF Oldest
<1>15. \A key \in DOMAIN L : key # k => New(key) # {}
  <2> SUFFICES ASSUME NEW key \in DOMAIN L, key # k
               PROVE  New(key) # {}
    OBVIOUS
  <2>1. New(key) = Old(key)
    BY <1>5
  <2>2. Old(key) # {}
    BY <1>7 DEF Oldest
  <2> QED
    BY <2>1, <2>2
<1>16. ASSUME NEW key \in DOMAIN L, key # k
       PROVE  \E y : Oldest(New(key), y) /\ L[key] = LevelFrom(New(key), ns, y)
  <2>1. New(key) = Old(key)
    BY <1>5, <1>16
  <2>2. PICK y : Oldest(Old(key), y) /\ L[key] = LevelFrom(Old(key), os, y)
    BY <1>7
  <2>3. SumOfResd(Old(key), ns) = SumOfResd(Old(key), os)
    <3>1. /\ IsFiniteSet(Old(key))
          /\ \A z \in Old(key) : os[z].resd \in Nat /\ ns[z].resd = os[z].resd
      BY <1>6, <2>1
    <3> HIDE DEF Old
    <3> QED
      BY <3>1, SumOfSame
  <2> QED
    BY <2>1, <2>2, <2>3 DEF LevelFrom
<1>17. {LevelKey(ns[z]) : z \in ToSet(t)}
        = (IF New(k) = {} THEN DOMAIN L \ {k} ELSE DOMAIN L)
  <2>1. \A key : key \in {LevelKey(ns[z]) : z \in ToSet(t)} <=> New(key) # {}
    BY DEF IdsAt
  <2>2. \A key : key \in DOMAIN L <=> Old(key) # {}
    BY <1>3 DEF IdsAt
  <2>3. \A key : New(key) \subseteq Old(key)
    BY <1>5
  <2> HIDE DEF New, Old, L
  <2> QED
    BY <1>3, <1>15, <2>1, <2>2, <2>3
<1> HIDE DEF L, N, New, Old
<1>18. \E y : New(k) # {} => Oldest(New(k), y) /\ N = Put(L, k, LevelFrom(New(k), ns, y))
  <2>1. CASE x = id
    BY <1>12, <1>13, <2>1
  <2>2. CASE x # id
    BY <1>12, <1>14, <2>2
  <2> QED
    BY <2>1, <2>2
<1>19. LevelsFit(N, t, ns)
  <2>1. CASE New(k) = {}
    <3>1. N = Drop(L, {k})
      BY <1>12, <2>1
    <3>2. /\ DOMAIN N = DOMAIN L \ {k} /\ N = [key \in DOMAIN N |-> N[key]]
          /\ \A key \in DOMAIN N : N[key] = L[key]
      BY <3>1 DEF Drop
    <3>3. \A key \in DOMAIN N :
            \E y : Oldest(New(key), y) /\ N[key] = LevelFrom(New(key), ns, y)
      BY <1>16, <3>2
    <3> QED
      BY <1>17, <2>1, <3>2, <3>3 DEF LevelsFit, New
  <2>2. CASE New(k) # {}
    <3>1. PICK y : Oldest(New(k), y) /\ N = Put(L, k, LevelFrom(New(k), ns, y))
      BY <1>18, <2>2
    <3>2. /\ DOMAIN N = DOMAIN L /\ N = [key \in DOMAIN N |-> N[key]]
          /\ \A key \in DOMAIN N :
                N[key] = IF key = k THEN LevelFrom(New(k), ns, y) ELSE L[key]
      BY <1>3, <3>1 DEF Put
    <3>3. \A key \in DOMAIN N :
            \E z : Oldest(New(key), z) /\ N[key] = LevelFrom(New(key), ns, z)
      BY <1>16, <3>1, <3>2
    <3> QED
      BY <1>17, <2>2, <3>2, <3>3 DEF LevelsFit, New
  <2> QED
    BY <2>1, <2>2
<1>20. N = LevelsOf(t, ns)
  BY <1>19, LevelsAre
<1> QED
  BY <1>20 DEF N, L

\* The orders ns are the orders os without one of them, id, which is "order".
Leaves(ids, os, id, ns, order) ==
    /\ id \in ids
    /\ Agree(ids \ {id}, os, ns)
    /\ LevelKey(order) = LevelKey(os[id])
    /\ order.resd = os[id].resd

\* t is the list without id.
TakenOff(list, id, t) ==
    \E p \in DOMAIN list : list[p] = id /\ t = RemoveAt(list, p)

\* remove_order keeps a side right.
LEMMA RemoveOrderKeeps ==
    ASSUME NEW s, NEW os, BookSide(s, os), NEW id, NEW ns, NEW order,
           Leaves(ToSet(s.list), os, id, ns, order)
    PROVE  /\ BookSide(RemoveOrder(s, id, order), ns)
           /\ ToSet(RemoveOrder(s, id, order).list) = ToSet(s.list) \ {id}
           /\ TakenOff(s.list, id, RemoveOrder(s, id, order).list)
<1> USE DEF Leaves, TakenOff
<1>1. PICK list \in Seq(Nat) : list = s.list
  BY DEF BookSide
<1>2. BookList(list, os) /\ s = [list |-> list, levels |-> LevelsOf(list, os)]
  BY <1>1 DEF BookSide, BookList
<1>3. PICK p \in 1..Len(list) : list[p] = id
  BY <1>1, OnList
<1>4. IsInjective(list)
  BY <1>2, InOrderInjective DEF BookList
<1>5. Position(list, id) = p
  BY <1>3, <1>4, PositionIs
<1>6. PICK t \in Seq(Nat) : t = RemoveAt(list, p)
  BY RemoveAtIs
<1>7. ToSet(t) = ToSet(list) \ {id}
  BY <1>3, <1>4, <1>6, RemoveAtSet
<1>8. RemoveOrder(s, id, order).list = t
  BY <1>1, <1>5, <1>6 DEF RemoveOrder
<1>9. BookList(t, ns)
  <2>1. InOrder(t, ns)
    BY <1>1, <1>2, <1>3, <1>4, <1>6, RemoveInOrder DEF BookList
  <2>2. Priced(ToSet(t), ns)
    BY <1>1, <1>2, <1>7 DEF BookList, Priced, Agree
  <2> QED
    BY <2>1, <2>2 DEF BookList
<1>10. Shrunk(list, os, p, t, ns, order)
  BY <1>1, <1>3, <1>7 DEF Shrunk
<1>11. RemoveOrder(s, id, order).levels = LevelsOf(t, ns)
  BY <1>2, <1>3, <1>9, <1>10, RemoveLevelKeeps
<1>12. RemoveOrder(s, id, order) = [list |-> t, levels |-> LevelsOf(t, ns)]
  BY <1>8, <1>11 DEF RemoveOrder
<1>13. BookSide([list |-> t, levels |-> LevelsOf(t, ns)], ns)
  BY <1>9 DEF BookSide, BookList
<1>14. DOMAIN list = 1..Len(list)
  BY OnList
<1> QED
  BY <1>1, <1>3, <1>6, <1>7, <1>8, <1>12, <1>13, <1>14

\* The orders os with one of them, x, reduced to what ns says of it.
OneChanged(ids, os, x, ns) ==
    /\ x \in ids
    /\ Agree(ids \ {x}, os, ns)
    /\ LevelKey(ns[x]) = LevelKey(os[x])
    /\ ns[x].resd \in Nat

\* reduce_level keeps a side right when something is left of the order: only the
\* level loses the lots.
LEMMA ReduceLevelKeeps ==
    ASSUME NEW s, NEW os, BookSide(s, os), NEW id, NEW ns,
           OneChanged(ToSet(s.list), os, id, ns),
           NEW order, LevelKey(order) = LevelKey(os[id]),
           NEW delta \in Nat, delta < order.resd, ns[id].resd = os[id].resd - delta
    PROVE  /\ BookSide(ReduceLevel(s, id, order, delta), ns)
           /\ ReduceLevel(s, id, order, delta).list = s.list
<1>1. PICK list \in Seq(Nat) : list = s.list
  BY DEF BookSide
<1>2. BookList(list, os) /\ s = [list |-> list, levels |-> LevelsOf(list, os)]
  BY <1>1 DEF BookSide, BookList
<1>3. PICK k \in Int : k = LevelKey(os[id]) /\ id \in ToSet(list)
  BY <1>1, <1>2 DEF OneChanged, BookList, Priced
<1> DEFINE L == LevelsOf(list, os)
           N == [L EXCEPT ![k].lots = @ - delta]
<1>4. ReduceLevel(s, id, order, delta) = [list |-> list, levels |-> N]
  <2>1. LevelKey(order) = k /\ s.levels = L
    BY <1>2, <1>3
  <2> HIDE DEF L
  <2>2. ReduceLevel(s, id, order, delta) = [s EXCEPT !.levels[k].lots = L[k].lots - delta]
    BY <2>1 DEF ReduceLevel
  <2>3. s = [list |-> list, levels |-> L]
    BY <1>2 DEF L
  <2> DEFINE M == [L EXCEPT ![k] = [L[k] EXCEPT !.lots = L[k].lots - delta]]
  <2>4. [s EXCEPT !.levels[k].lots = L[k].lots - delta] = [s EXCEPT !.levels = M]
    BY <2>3
  <2>5. N = M
    OBVIOUS
  <2> HIDE DEF M, N
  <2>6. [s EXCEPT !.levels = M] = [list |-> list, levels |-> M]
    BY <2>3
  <2> QED
    BY <2>2, <2>4, <2>5, <2>6
<1>5. \A x \in ToSet(list) :
        /\ LevelKey(ns[x]) = LevelKey(os[x]) /\ LevelKey(os[x]) \in Int
        /\ os[x].resd \in Nat /\ ns[x].resd \in Nat
        /\ x # id => ns[x].resd = os[x].resd
  BY <1>1, <1>2 DEF OneChanged, Agree, BookList, Priced
<1>6. BookList(list, ns)
  <2>1. Priced(ToSet(list), ns)
    BY <1>5 DEF Priced
  <2>2. InOrder(list, ns)
    BY <1>2, <1>5, OnList DEF BookList, InOrder, Before
  <2> QED
    BY <2>1, <2>2 DEF BookList
<1>7. \A key : IdsAt(list, ns, key) = IdsAt(list, os, key)
  BY <1>5 DEF IdsAt
<1>8. /\ DOMAIN L = {LevelKey(ns[x]) : x \in ToSet(list)}
      /\ L = [key \in DOMAIN L |-> L[key]]
  BY <1>5 DEF LevelsOf
<1>9. k \in DOMAIN L
  BY <1>3, <1>5, <1>8
<1>10. \A key \in DOMAIN L :
        \E x : /\ Oldest(IdsAt(list, os, key), x)
               /\ L[key] = LevelFrom(IdsAt(list, os, key), os, x)
  BY <1>2, LevelOfOldest DEF BookList
<1>11. /\ DOMAIN N = DOMAIN L /\ N = [key \in DOMAIN N |-> N[key]]
       /\ \A key \in DOMAIN L : key # k => N[key] = L[key]
       /\ N[k] = [L[k] EXCEPT !.lots = L[k].lots - delta]
  <2> HIDE DEF L
  <2> QED
    BY <1>8, <1>9
<1> HIDE DEF L, N
<1>12. ASSUME NEW key \in DOMAIN N
       PROVE  \E x : /\ Oldest(IdsAt(list, ns, key), x)
                     /\ N[key] = LevelFrom(IdsAt(list, ns, key), ns, x)
  <2>1. PICK ids : ids = IdsAt(list, os, key)
    OBVIOUS
  <2>2. PICK x : Oldest(ids, x) /\ L[key] = LevelFrom(ids, os, x)
    BY <1>10, <1>11, <2>1
  <2>3. /\ IsFiniteSet(ids) /\ ids \subseteq ToSet(list)
        /\ \A y \in ids : LevelKey(os[y]) = key
        /\ key = k => id \in ids
    <3>1. IsFiniteSet(ids)
      BY <2>1, ListFinite
    <3> QED
      BY <1>3, <2>1, <3>1 DEF IdsAt
  <2>4. CASE key # k
    <3>1. id \notin ids
      BY <1>3, <2>3, <2>4
    <3>2. \A y \in ids : os[y].resd \in Nat /\ ns[y].resd = os[y].resd
      BY <1>5, <2>3, <3>1
    <3>3. SumOfResd(ids, ns) = SumOfResd(ids, os)
      BY <2>3, <3>2, SumOfSame
    <3>4. N[key] = LevelFrom(ids, ns, x)
      BY <1>11, <2>2, <2>4, <3>3 DEF LevelFrom
    <3> QED
      BY <1>7, <2>1, <2>2, <3>4
  <2>5. CASE key = k
    <3>1. /\ \A y \in ids : os[y].resd \in Nat
          /\ \A y \in ids \ {id} : ns[y].resd = os[y].resd
          /\ ns[id].resd \in Nat /\ os[id].resd \in Nat /\ id \in ids
      BY <1>3, <1>5, <2>3, <2>5
    <3>2. SumOfResd(ids, ns) = SumOfResd(ids, os) - os[id].resd + ns[id].resd
      <4>1. OneOther(ids, os, id, ns)
        BY <3>1 DEF OneOther
      <4> QED
        BY <2>3, <4>1, SumOfChange
    <3>3. SumOfResd(ids, os) \in Nat
      BY <2>3, <3>1, SumOfSame
    <3>4. SumOfResd(ids, ns) = SumOfResd(ids, os) - delta
      BY <3>1, <3>2, <3>3
    <3>5. [LevelFrom(ids, os, x) EXCEPT !.lots = LevelFrom(ids, os, x).lots - delta]
            = LevelFrom(ids, ns, x)
      BY <3>4 DEF LevelFrom
    <3>6. N[key] = LevelFrom(ids, ns, x)
      BY <1>11, <2>2, <2>5, <3>5
    <3> QED
      BY <1>7, <2>1, <2>2, <3>6
  <2> QED
    BY <2>4, <2>5
<1>13. LevelsFit(N, list, ns)
  BY <1>8, <1>11, <1>12 DEF LevelsFit
<1>14. N = LevelsOf(list, ns)
  BY <1>6, <1>13, LevelsAre DEF BookList
<1>15. BookSide([list |-> list, levels |-> N], ns)
  BY <1>6, <1>14 DEF BookSide, BookList
<1> QED
  BY <1>1, <1>4, <1>15

\* An empty side is right.
LEMMA EmptySideIsBook ==
    ASSUME NEW os
    PROVE  BookSide(EmptySide, os) /\ ToSet(EmptySide.list) = {}
<1>1. <<>> \in Seq(Nat) /\ DOMAIN <<>> = {}
  OBVIOUS
<1>2. ToSet(<<>>) = {}
  BY <1>1 DEF ToSet
<1>3. BookList(<<>>, os)
  BY <1>1, <1>2 DEF BookList, Priced, InOrder
<1>4. LevelsFit(<<>>, <<>>, os)
  BY <1>1, <1>2 DEF LevelsFit
<1>5. <<>> = LevelsOf(<<>>, os)
  BY <1>3, <1>4, LevelsAre DEF BookList
<1> QED
  BY <1>2, <1>3, <1>5 DEF BookSide, BookList, EmptySide

\* A side stays right when orders change in nothing that it depends on.
LEMMA AgreeKeeps ==
    ASSUME NEW s, NEW os, BookSide(s, os), NEW ns, Agree(ToSet(s.list), os, ns)
    PROVE  BookSide(s, ns)
<1>1. PICK list \in Seq(Nat) : list = s.list
  BY DEF BookSide
<1>2. BookList(list, os) /\ s = [list |-> list, levels |-> LevelsOf(list, os)]
  BY <1>1 DEF BookSide, BookList
<1>3. \A x \in ToSet(list) :
        /\ LevelKey(ns[x]) = LevelKey(os[x]) /\ LevelKey(os[x]) \in Int
        /\ os[x].resd \in Nat /\ ns[x].resd = os[x].resd
  BY <1>1, <1>2 DEF Agree, BookList, Priced
<1>4. BookList(list, ns)
  <2>1. Priced(ToSet(list), ns)
    BY <1>3 DEF Priced
  <2>2. InOrder(list, ns)
    BY <1>2, <1>3, OnList DEF BookList, InOrder, Before
  <2> QED
    BY <2>1, <2>2 DEF BookList
<1>5. PICK L : L = LevelsOf(list, os)
  OBVIOUS
<1>6. \A key : IdsAt(list, ns, key) = IdsAt(list, os, key)
  BY <1>3 DEF IdsAt
<1>7. /\ DOMAIN L = {LevelKey(ns[x]) : x \in ToSet(list)}
      /\ L = [key \in DOMAIN L |-> L[key]]
  BY <1>3, <1>5 DEF LevelsOf
<1>8. ASSUME NEW key \in DOMAIN L
      PROVE  \E x : /\ Oldest(IdsAt(list, ns, key), x)
                    /\ L[key] = LevelFrom(IdsAt(list, ns, key), ns, x)
  <2>1. PICK ids : ids = IdsAt(list, os, key)
    OBVIOUS
  <2>2. PICK x : Oldest(ids, x) /\ L[key] = LevelFrom(ids, os, x)
    BY <1>2, <1>5, <2>1, LevelOfOldest DEF BookList
  <2>3. IsFiniteSet(ids)
    BY <2>1, ListFinite
  <2>4. \A y \in ids : os[y].resd \in Nat /\ ns[y].resd = os[y].resd
    BY <1>3, <2>1 DEF IdsAt
  <2>5. SumOfResd(ids, ns) = SumOfResd(ids, os)
    BY <2>3, <2>4, SumOfSame
  <2> QED
    BY <1>6, <2>1, <2>2, <2>5 DEF LevelFrom
<1>9. LevelsFit(L, list, ns)
  BY <1>7, <1>8 DEF LevelsFit
<1>10. L = LevelsOf(list, ns)
  BY <1>4, <1>9, LevelsAre DEF BookList
<1> QED
  BY <1>1, <1>2, <1>4, <1>5, <1>10 DEF BookSide, BookList

\* On a side that is right the places of two orders say which stands before
\* which.
LEMMA PlacesAreOrder ==
    ASSUME NEW s, NEW os, BookSide(s, os),
           NEW a \in ToSet(s.list), NEW b \in ToSet(s.list)
    PROVE  Position(s.list, a) < Position(s.list, b) <=> Before(os, a, b)
<1>1. PICK list \in Seq(Nat) : list = s.list
  BY DEF BookSide
<1>2. BookList(list, os) /\ IsInjective(list)
  BY <1>1, InOrderInjective DEF BookSide, BookList
<1>3. PICK i \in DOMAIN list : a = list[i]
  BY <1>1, OnList
<1>4. PICK j \in DOMAIN list : b = list[j]
  BY <1>1, OnList
<1>5. Position(list, a) = i /\ Position(list, b) = j
  BY <1>2, <1>3, <1>4, OnList, PositionIs
<1>6. /\ i \in Int /\ j \in Int /\ a \in Nat /\ b \in Nat
      /\ LevelKey(os[a]) \in Int /\ LevelKey(os[b]) \in Int
  BY <1>1, <1>2, <1>3, <1>4, OnList DEF BookList, Priced
<1>7. CASE i < j
  <2>1. Before(os, a, b)
    BY <1>2, <1>3, <1>4, <1>7 DEF BookList, InOrder
  <2> QED
    BY <1>1, <1>5, <1>7, <2>1
<1>8. CASE j =< i
  <2>1. i = j \/ Before(os, b, a)
    BY <1>2, <1>3, <1>4, <1>6, <1>8 DEF BookList, InOrder
  <2>2. ~Before(os, a, b)
    BY <1>3, <1>4, <1>6, <2>1 DEF Before
  <2>3. ~(i < j)
    BY <1>6, <1>8
  <2> QED
    BY <1>1, <1>5, <2>2, <2>3
<1> QED
  BY <1>6, <1>7, <1>8

\* Lists that agree at every place are the same.
LEMMA SameList ==
    ASSUME NEW S, NEW s \in Seq(S), NEW T, NEW t \in Seq(T), Len(s) = Len(t),
           \A i \in 1..Len(s) : s[i] = t[i]
    PROVE  s = t
OBVIOUS

\* Taking off what was put in.
LEMMA InsertedRemoved ==
    ASSUME NEW S, NEW q \in Seq(S), NEW p \in 1..(Len(q) + 1), NEW e,
           NEW T, NEW r \in Seq(T), Inserted(q, p, e, r)
    PROVE  q = RemoveAt(r, p) /\ Len(r) = Len(q) + 1 /\ p \in DOMAIN r /\ r[p] = e
<1>1. /\ Len(q) \in Nat /\ Len(r) = Len(q) + 1 /\ p \in 1..Len(r) /\ DOMAIN r = 1..Len(r)
      /\ r[p] = e
  BY OnList DEF Inserted
<1>2. PICK t \in Seq(T) : t = RemoveAt(r, p) /\ Removed(r, p, t)
  BY <1>1, RemoveAtIs
<1>3. Len(t) = Len(q)
  BY <1>1, <1>2 DEF Removed
<1>4. ASSUME NEW i \in 1..Len(q)
      PROVE  t[i] = q[i]
  <2>1. i \in 1..(Len(r) - 1) /\ i \in Int /\ p \in Int /\ i + 1 - 1 = i
        /\ i \in 1..(Len(q) + 1) /\ i + 1 \in 1..(Len(q) + 1)
    BY <1>1
  <2>2. CASE i < p
    <3>1. t[i] = r[i] /\ r[i] = q[i]
      BY <1>2, <2>1, <2>2 DEF Removed, Inserted
    <3> QED
      BY <3>1
  <2>3. CASE i >= p
    <3>1. ~(i < p) /\ ~(i + 1 < p) /\ i + 1 # p
      BY <2>1, <2>3
    <3>2. t[i] = r[i + 1]
      BY <1>2, <2>1, <3>1 DEF Removed
    <3>3. r[i + 1] = q[i + 1 - 1]
      BY <2>1, <3>1 DEF Inserted
    <3> QED
      BY <2>1, <3>2, <3>3
  <2> QED
    BY <2>1, <2>2, <2>3
<1>5. t = q
  BY <1>3, <1>4, SameList
<1> QED
  BY <1>1, <1>2, <1>5

\* remove_order undoes insert_order: an order that came last and goes again leaves
\* nothing behind (the cleanup of create_order in App.cpp when journalling fails).
LEMMA InsertUndone ==
    ASSUME NEW s, NEW os, BookSide(s, os), NEW id, NEW ns, NEW order,
           Arrives(ToSet(s.list), os, id, ns, order)
    PROVE  RemoveOrder(InsertOrder(s, id, order), id, order) = s
<1>1. PICK list \in Seq(Nat) : list = s.list
  BY DEF BookSide
<1>2. PICK u : u = InsertOrder(s, id, order)
  OBVIOUS
<1>3. PICK v : v = RemoveOrder(u, id, order)
  OBVIOUS
<1>4. BookSide(u, ns) /\ ToSet(u.list) = ToSet(s.list) \union {id}
  <2>1. BookSide(s, os) /\ Arrives(ToSet(s.list), os, id, ns, order)
    OBVIOUS
  <2> QED
    BY ONLY <1>2, <2>1, InsertOrderKeeps
<1>5. id \in Nat /\ LevelKey(order) \in Int /\ id \notin ToSet(s.list)
  BY DEF Arrives, Priced
<1>6. Leaves(ToSet(u.list), ns, id, os, order)
  BY <1>4, <1>5 DEF Arrives, Agree, Leaves
<1>7. /\ BookSide(v, os)
      /\ TakenOff(u.list, id, v.list)
  BY ONLY <1>3, <1>4, <1>6, RemoveOrderKeeps
<1>8. PICK p \in 1..(Len(list) + 1) : u.list = InsertAt(list, p, id)
  BY <1>1, <1>2, <1>5, InsertPlace
<1>9. PICK r \in Seq(Nat) : r = u.list
  BY <1>4 DEF BookSide
<1>10. Inserted(list, p, id, r)
  BY <1>5, <1>8, <1>9, InsertAtIs
<1>11. list = RemoveAt(r, p) /\ p \in DOMAIN r /\ r[p] = id
  BY <1>10, InsertedRemoved
<1>12. PICK q \in DOMAIN r : r[q] = id /\ v.list = RemoveAt(r, q)
  BY <1>7, <1>9 DEF TakenOff
<1>13. p = q
  <2>1. IsInjective(r)
    BY <1>4, <1>9, InOrderInjective DEF BookSide
  <2> QED
    BY <1>11, <1>12, <2>1 DEF IsInjective
<1>14. v.list = s.list
  BY <1>1, <1>11, <1>12, <1>13
<1> QED
  BY <1>2, <1>3, <1>7, <1>14 DEF BookSide
=============================================================================
