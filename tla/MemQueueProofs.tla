--------------------------- MODULE MemQueueProofs ----------------------------
(***************************************************************************)
(* Proofs about MemQueue for any number of threads and any capacity.       *)
(*                                                                         *)
(* The constant Initialised says how many elements the constructor gives   *)
(* their sequence number.  Type correctness needs nothing of it; the rest  *)
(* assumes that it is the capacity, as it is when the capacity asked for   *)
(* is a power of two.                                                      *)
(*                                                                         *)
(* Inv is inductive relative to TypeOK.  Its heart is ElemsOK, which says  *)
(* of the element that each of the next Capacity positions will use that   *)
(* it is free, being written, full or being read; a thread that wins its   *)
(* compare-and-exchange learns from it in which of these phases the        *)
(* element is (ClaimedElemIsFree, ClaimedElemIsFull), and one that gives   *)
(* up learns why (PostFailure, FetchFailure).                              *)
(*                                                                         *)
(* ValuesOK adds what the elements hold.  With both, every step is one of  *)
(* the abstract queue Fifo or leaves it alone (StepImplements): the        *)
(* compare-and-exchange that wins in post appends a message, the one that  *)
(* wins in fetch takes the first, the last access of fetch gives it up,    *)
(* and no other access is seen.                                            *)
(*                                                                         *)
(* FileInv does for the queue in a file what Inv does for one whose        *)
(* threads live: it survives them.                                         *)
(*                                                                         *)
(* BatchInv is about the batches of MsgQueue: what is on the queue or was  *)
(* taken from it is what the batches have posted (Accounts), the message   *)
(* that is on its way is the next of the running batch (ReactorPosts), and *)
(* the room that was found for this batch is still there (HasRoom), since  *)
(* nobody else posts.                                                      *)
(***************************************************************************)
EXTENDS MemQueueFile, MsgBatch, FiniteSetTheorems, SequenceTheorems, TLAPS

-----------------------------------------------------------------------------
(* Positions and elements: what pos & mask_ does. *)

\* Every position has an element (pos & mask_ is an index of the array).
LEMMA ElemType ==
    ASSUME NEW q \in Nat
    PROVE  Elem(q) \in Elems
  BY MemQueueAssumption DEF Elem, Elems

\* Division with remainder, as pos & mask_ uses it.
LEMMA DivMod ==
    ASSUME NEW q \in Nat, NEW n \in Nat, n > 0
    PROVE  /\ q \div n \in Nat
           /\ q % n \in 0..(n - 1)
           /\ q = n * (q \div n) + (q % n)
  OBVIOUS

\* Multiples of the capacity are a lap apart.
LEMMA Apart ==
    ASSUME NEW n \in Nat, NEW x \in Int, NEW y \in Int, x < y
    PROVE  n * y >= n * x + n
  OBVIOUS

\* A position and the one a lap later share an element: fetch hands the element
\* on to position pos + mask_ + 1.
LEMMA NextLap ==
    ASSUME NEW q \in Nat
    PROVE  Elem(q + Capacity) = Elem(q)
<1> DEFINE r == q + Capacity
           d == q \div Capacity
           e == r \div Capacity
<1>1. Capacity \in Nat /\ Capacity > 0 /\ r \in Nat
  BY MemQueueAssumption
<1>2. /\ d \in Nat /\ q % Capacity \in 0..(Capacity - 1)
      /\ q = Capacity * d + (q % Capacity)
  BY <1>1, DivMod
<1>3. /\ e \in Nat /\ r % Capacity \in 0..(Capacity - 1)
      /\ r = Capacity * e + (r % Capacity)
  BY <1>1, DivMod
<1>4. Capacity * (d + 1) = Capacity * d + Capacity
  BY <1>1, <1>2
<1>5. ~(e < d + 1)
  <2>1. e < d + 1 => Capacity * (d + 1) >= Capacity * e + Capacity
    BY <1>1, <1>2, <1>3, Apart
  <2> QED
    BY <2>1, <1>1, <1>2, <1>3, <1>4
<1>6. ~(d + 1 < e)
  <2>1. d + 1 < e => Capacity * e >= Capacity * (d + 1) + Capacity
    BY <1>1, <1>2, <1>3, Apart
  <2> QED
    BY <2>1, <1>1, <1>2, <1>3, <1>4
<1>7. e = d + 1
  BY <1>2, <1>3, <1>5, <1>6
<1> QED
  BY <1>1, <1>2, <1>3, <1>4, <1>7 DEF Elem

\* Positions less than a lap apart have different elements, so their posts and
\* fetches do not touch each other's values.
LEMMA DifferentElems ==
    ASSUME NEW q \in Nat, NEW r \in Nat, q < r, r < q + Capacity
    PROVE  Elem(q) # Elem(r)
<1> DEFINE d == q \div Capacity
           e == r \div Capacity
<1>1. Capacity \in Nat /\ Capacity > 0
  BY MemQueueAssumption
<1>2. d \in Nat /\ q = Capacity * d + (q % Capacity)
  BY <1>1, DivMod
<1>3. e \in Nat /\ r = Capacity * e + (r % Capacity)
  BY <1>1, DivMod
<1>4. q % Capacity \in Int /\ r % Capacity \in Int
  BY <1>1, DivMod
<1>5. d < e => Capacity * e >= Capacity * d + Capacity
  BY <1>1, <1>2, <1>3, Apart
<1>6. e < d => Capacity * d >= Capacity * e + Capacity
  BY <1>1, <1>2, <1>3, Apart
<1>7. Capacity * d \in Int /\ Capacity * e \in Int
  BY <1>1, <1>2, <1>3
<1>8. CASE d < e
  BY <1>1, <1>2, <1>3, <1>4, <1>5, <1>7, <1>8 DEF Elem
<1>9. CASE e < d
  BY <1>1, <1>2, <1>3, <1>4, <1>6, <1>7, <1>9 DEF Elem
<1>10. CASE d = e
  BY <1>1, <1>2, <1>3, <1>4, <1>7, <1>10 DEF Elem
<1> QED
  BY <1>2, <1>3, <1>8, <1>9, <1>10

\* In the first lap an element's index is its position, which is the sequence
\* number that the constructor gives it.
LEMMA FirstLap ==
    ASSUME NEW q \in Nat, q < Capacity
    PROVE  Elem(q) = q
<1> DEFINE d == q \div Capacity
<1>1. Capacity \in Nat /\ Capacity > 0
  BY MemQueueAssumption
<1>2. d \in Nat /\ q = Capacity * d + (q % Capacity) /\ q % Capacity \in Nat
  BY <1>1, DivMod
<1>3. 0 < d => Capacity * d >= Capacity * 0 + Capacity
  BY <1>1, <1>2, Apart
<1>4. d = 0
  BY <1>1, <1>2, <1>3
<1> QED
  BY <1>1, <1>2, <1>4 DEF Elem

-----------------------------------------------------------------------------
(* Type correctness. *)

\* Every load, compare-and-exchange and store keeps to the types.
LEMMA StepTypes == TypeOK /\ [Next]_vars => TypeOK'
<1> SUFFICES ASSUME TypeOK, [Next]_vars
             PROVE  TypeOK'
  OBVIOUS
<1>1. ASSUME NEW p \in Producers, NEW msg \in Msgs, Post(p, msg)
      PROVE  TypeOK'
  BY <1>1 DEF Post, TypeOK, Goto, Threads, Labels
<1>2. ASSUME NEW p \in Producers, PostSteps(p)
      PROVE  TypeOK'
  <2>1. pos[p] \in Nat /\ Elem(pos[p]) \in Elems
    BY ElemType DEF TypeOK, Threads
  <2>2. CASE PostLoad(p) \/ PostAgain(p) \/ PostLose(p)
    BY <2>2 DEF PostLoad, PostAgain, PostLose, TypeOK, Goto, Threads, Labels
  <2>3. CASE PostClaim(p) \/ PostAccess(p) \/ PostCommit(p)
    BY <2>1, <2>3 DEF PostClaim, PostAccess, PostCommit, TypeOK, Goto,
                      Threads, Labels
  <2> QED
    BY <1>2, <2>2, <2>3 DEF PostSteps
<1>3. ASSUME NEW c \in Consumers, FetchSteps(c)
      PROVE  TypeOK'
  <2>1. /\ pos[c] \in Nat /\ Elem(pos[c]) \in Elems
        /\ pos[c] + Capacity \in Nat
    BY ElemType, MemQueueAssumption DEF TypeOK, Threads
  <2>2. CASE Fetch(c) \/ FetchLoad(c) \/ FetchAgain(c) \/ FetchLose(c)
    BY <2>2 DEF Fetch, FetchLoad, FetchAgain, FetchLose, TypeOK, Goto,
                Threads, Labels
  <2>3. CASE FetchClaim(c) \/ FetchAccess(c) \/ FetchCommit(c)
    BY <2>1, <2>3 DEF FetchClaim, FetchAccess, FetchCommit, TypeOK, Goto,
                      Threads, Labels
  <2> QED
    BY <1>3, <2>2, <2>3 DEF FetchSteps
<1>4. CASE UNCHANGED vars
  BY <1>4 DEF vars, TypeOK
<1> QED
  BY <1>1, <1>2, <1>3, <1>4 DEF Next

\* The types hold whatever the threads, the capacity and the interleaving.
THEOREM TypeCorrect == Spec => []TypeOK
<1>1. Init => TypeOK
  BY MemQueueAssumption DEF Init, TypeOK, Elems, Labels
<1> QED
  BY <1>1, StepTypes, PTL DEF Spec

-----------------------------------------------------------------------------
(* The inductive invariant. *)

\* A claim is exclusive.
LEMMA InvNoRace == TypeOK /\ Inv => NoRace
<1> SUFFICES ASSUME TypeOK, Inv,
                    NEW s \in Threads, NEW t \in Threads,
                    s # t, Claimed(s), Claimed(t),
                    Elem(pos[s]) = Elem(pos[t])
             PROVE  FALSE
  BY DEF NoRace
<1> USE DEF Inv, ProducersOK, ConsumersOK, ClaimsDiffer
<1>1. ~(s \in Producers /\ t \in Producers)
  OBVIOUS
<1>2. ~(s \in Consumers /\ t \in Consumers)
  BY DEF TypeOK, Threads
<1>3. ASSUME NEW p \in Producers, NEW c \in Consumers,
             Claimed(p), Claimed(c), Elem(pos[p]) = Elem(pos[c])
      PROVE  FALSE
  <2>1. pos[p] \in Nat /\ pos[c] \in Nat
    BY DEF TypeOK, Threads
  <2>2. pos[p] = pos[c] + 1
    BY <1>3
  <2>3. pos[c] < pos[p] /\ pos[p] < pos[c] + Capacity
    BY <2>1, <2>2, MemQueueAssumption
  <2> QED
    BY <1>3, <2>1, <2>3, DifferentElems
<1> QED
  BY <1>1, <1>2, <1>3 DEF Threads

\* The same for the elements before a step, as the steps need it.
LEMMA OthersElems ==
    ASSUME TypeOK, Inv, NEW s \in Threads, NEW t \in Threads,
           s # t, Claimed(s), Claimed(t)
    PROVE  Elem(pos[s]) # Elem(pos[t])
  BY InvNoRace DEF NoRace

\* Elements of two positions in a window of one lap.
LEMMA OneLap ==
    ASSUME NEW w \in Nat,
           NEW q \in w..(w + Capacity - 1), NEW r \in w..(w + Capacity - 1),
           Elem(q) = Elem(r)
    PROVE  q = r
<1>1. q \in Nat /\ r \in Nat /\ Capacity \in Nat
  BY MemQueueAssumption
<1>2. ~(q < r) /\ ~(r < q)
  BY <1>1, DifferentElems
<1> QED
  BY <1>1, <1>2

\* Steps that change neither the positions, nor the sequence numbers, nor the
\* claims.
LEMMA QuietStep ==
    ASSUME Inv, UNCHANGED <<rpos, wpos, seq>>,
           \A t \in Threads : /\ Claimed(t)' <=> Claimed(t)
                              /\ Claimed(t) => pos'[t] = pos[t],
           \A p \in Producers :
                /\ pos'[p] =< wpos
                /\ pc'[p] = "claim" => seq[Elem(pos'[p])] >= pos'[p],
           \A c \in Consumers :
                /\ pos'[c] =< rpos
                /\ pc'[c] = "claim" => seq[Elem(pos'[c])] > pos'[c]
    PROVE  Inv'
<1> USE DEF Inv
<1>1. PositionsOK' /\ SeqNotBehind'
  BY DEF PositionsOK, SeqNotBehind, Elem
<1>2. ProducersOK'
  BY DEF ProducersOK, Threads, Elem
<1>3. ConsumersOK'
  BY DEF ConsumersOK, Threads, Elem
<1>4. ClaimsDiffer'
  BY DEF ClaimsDiffer, Threads
<1>5. ElemsOK'
  <2> SUFFICES ASSUME NEW q \in wpos..(wpos + Capacity - 1)
               PROVE  ElemOK(q)'
    BY DEF ElemsOK
  <2>1. ElemOK(q)
    BY DEF ElemsOK
  <2> QED
    BY <2>1 DEF ElemOK, Threads, Elem
<1> QED
  BY <1>1, <1>2, <1>3, <1>4, <1>5

\* A producer that wins the compare-and-exchange finds the element free: every
\* position that was posted a lap before has been fetched.
LEMMA ClaimedElemIsFree ==
    ASSUME TypeOK, Inv, NEW p \in Producers, pc[p] = "claim", wpos = pos[p]
    PROVE  /\ seq[Elem(wpos)] = wpos
           /\ wpos - Capacity < rpos
<1>1. wpos \in Nat /\ Capacity \in Nat /\ Capacity >= 2
  BY MemQueueAssumption DEF TypeOK
<1>2. seq[Elem(wpos)] >= wpos
  BY DEF Inv, ProducersOK
<1>3. ElemOK(wpos)
  BY <1>1 DEF Inv, ElemsOK
<1> QED
  BY <1>1, <1>2, <1>3 DEF ElemOK

\* post's compare-and-exchange on wpos preserves the invariant.
LEMMA PostClaimStep ==
    ASSUME TypeOK, Inv, NEW p \in Producers, PostClaim(p)
    PROVE  Inv'
<1> USE DEF Inv
<1>1. /\ wpos \in Nat /\ rpos \in Nat
      /\ Capacity \in Nat /\ Capacity >= 2
      /\ seq \in [Elems -> Nat]
      /\ \A t \in Threads : pos[t] \in Nat
  BY MemQueueAssumption DEF TypeOK
<1>2. /\ pc[p] = "claim" /\ wpos = pos[p] /\ wpos' = wpos + 1
      /\ UNCHANGED <<rpos, seq, pos>>
      /\ \A t \in Threads : Claimed(t)' <=> Claimed(t) \/ t = p
      /\ \A t \in Threads : pc'[t] = "claim" => pc[t] = "claim"
  BY DEF PostClaim, Goto, Claimed, TypeOK, Threads
<1>3. seq[Elem(wpos)] = wpos /\ wpos - Capacity < rpos
  BY <1>2, ClaimedElemIsFree
<1>4. PositionsOK'
  BY <1>1, <1>2, <1>3 DEF PositionsOK
<1>5. ProducersOK'
  BY <1>1, <1>2, <1>3 DEF ProducersOK, PositionsOK, Elem, Threads
<1>6. ConsumersOK'
  <2> SUFFICES ASSUME NEW c \in Consumers, Claimed(c)'
               PROVE  wpos' =< pos[c] + Capacity
    BY <1>1, <1>2, MemQueueAssumption DEF ConsumersOK, Elem, Threads
  <2>1. Claimed(c) /\ pos[c] \in Nat
    BY <1>1, <1>2, MemQueueAssumption DEF Threads
  <2>2. seq[Elem(pos[c])] = pos[c] + 1 /\ wpos =< pos[c] + Capacity
    BY <2>1 DEF ConsumersOK
  <2>3. wpos # pos[c] + Capacity
    BY <1>1, <1>3, <2>1, <2>2, NextLap
  <2> QED
    BY <1>1, <1>2, <2>1, <2>2, <2>3
<1>7. ClaimsDiffer'
  BY <1>1, <1>2, MemQueueAssumption DEF ClaimsDiffer, ProducersOK, Threads
<1>8. ElemsOK'
  <2> SUFFICES ASSUME NEW q \in wpos'..(wpos' + Capacity - 1)
               PROVE  ElemOK(q)'
    BY DEF ElemsOK
  <2>1. CASE q = wpos + Capacity
    <3>1. Elem(q) = Elem(wpos)
      BY <1>1, <2>1, NextLap
    <3>2. seq'[Elem(q)] = q - Capacity
      BY <1>1, <1>2, <1>3, <2>1, <3>1
    <3>3. Claimed(p)' /\ pos'[p] = q - Capacity
      BY <1>1, <1>2, <2>1 DEF Threads
    <3> QED
      BY <3>2, <3>3 DEF ElemOK, Elem
  <2>2. CASE q # wpos + Capacity
    <3>1. ElemOK(q)
      BY <1>1, <1>2, <2>2 DEF ElemsOK
    <3> QED
      BY <1>1, <1>2, <3>1 DEF ElemOK, Elem, Threads
  <2> QED
    BY <2>1, <2>2
<1>9. SeqNotBehind'
  BY <1>1, <1>2, <1>3 DEF SeqNotBehind, Elem
<1> QED
  BY <1>4, <1>5, <1>6, <1>7, <1>8, <1>9

\* A consumer that wins the compare-and-exchange finds the element full.
LEMMA ClaimedElemIsFull ==
    ASSUME TypeOK, Inv, NEW c \in Consumers, pc[c] = "claim", rpos = pos[c]
    PROVE  /\ seq[Elem(rpos)] = rpos + 1
           /\ rpos < wpos
<1>1. /\ wpos \in Nat /\ rpos \in Nat
      /\ Capacity \in Nat /\ Capacity >= 2
      /\ wpos - rpos \in 0..Capacity
  BY MemQueueAssumption DEF TypeOK, Inv, PositionsOK
<1>2. seq[Elem(rpos)] > rpos
  BY DEF Inv, ConsumersOK
<1>3. rpos # wpos
  <2>1. rpos = wpos => ElemOK(rpos)
    BY <1>1 DEF Inv, ElemsOK
  <2> QED
    BY <1>1, <1>2, <2>1 DEF ElemOK
<1>4. rpos + Capacity \in wpos..(wpos + Capacity - 1)
  BY <1>1, <1>3
<1>5. ElemOK(rpos + Capacity) /\ Elem(rpos + Capacity) = Elem(rpos)
  BY <1>1, <1>4, NextLap DEF Inv, ElemsOK
<1> QED
  BY <1>1, <1>2, <1>3, <1>5 DEF ElemOK

\* fetch's compare-and-exchange on rpos preserves the invariant.
LEMMA FetchClaimStep ==
    ASSUME TypeOK, Inv, NEW c \in Consumers, FetchClaim(c)
    PROVE  Inv'
<1> USE DEF Inv
<1>1. /\ wpos \in Nat /\ rpos \in Nat
      /\ Capacity \in Nat /\ Capacity >= 2
      /\ seq \in [Elems -> Nat]
      /\ \A t \in Threads : pos[t] \in Nat
  BY MemQueueAssumption DEF TypeOK
<1>2. /\ pc[c] = "claim" /\ rpos = pos[c] /\ rpos' = rpos + 1
      /\ UNCHANGED <<wpos, seq, pos>>
      /\ \A t \in Threads : Claimed(t)' <=> Claimed(t) \/ t = c
      /\ \A t \in Threads : pc'[t] = "claim" => pc[t] = "claim"
  BY DEF FetchClaim, Goto, Claimed, TypeOK, Threads
<1>3. seq[Elem(rpos)] = rpos + 1 /\ rpos < wpos
  BY <1>2, ClaimedElemIsFull
<1>4. PositionsOK'
  BY <1>1, <1>2, <1>3 DEF PositionsOK
<1>5. ProducersOK'
  <2> SUFFICES ASSUME NEW p \in Producers, Claimed(p)'
               PROVE  pos[p] >= rpos'
    BY <1>1, <1>2, MemQueueAssumption DEF ProducersOK, Elem, Threads
  <2>1. Claimed(p) /\ pos[p] \in Nat
    BY <1>1, <1>2, MemQueueAssumption DEF Threads
  <2>2. seq[Elem(pos[p])] = pos[p] /\ pos[p] >= rpos
    BY <2>1 DEF ProducersOK
  <2>3. pos[p] # rpos
    BY <1>1, <1>3, <2>1, <2>2
  <2> QED
    BY <1>1, <1>2, <2>1, <2>2, <2>3
<1>6. ConsumersOK'
  BY <1>1, <1>2, <1>3 DEF ConsumersOK, PositionsOK, Elem, Threads
<1>7. ClaimsDiffer'
  BY <1>1, <1>2, MemQueueAssumption DEF ClaimsDiffer, ConsumersOK, Threads
<1>8. ElemsOK'
  <2> SUFFICES ASSUME NEW q \in wpos..(wpos + Capacity - 1)
               PROVE  ElemOK(q)'
    BY <1>2 DEF ElemsOK
  <2>1. ElemOK(q)
    BY DEF ElemsOK
  <2> QED
    BY <1>1, <1>2, <2>1 DEF ElemOK, Elem, Threads
<1>9. SeqNotBehind'
  BY <1>1, <1>2, <1>3 DEF SeqNotBehind, Elem
<1> QED
  BY <1>4, <1>5, <1>6, <1>7, <1>8, <1>9

\* The two stores of post and fetch only raise sequence numbers, so no element
\* falls back behind a position that was claimed.
LEMMA SequencesGrow ==
    ASSUME SeqNotBehind,
           rpos \in Nat, wpos \in Nat, UNCHANGED <<rpos, wpos>>,
           seq \in [Elems -> Nat],
           \A i \in Elems : seq'[i] \in Nat /\ seq'[i] >= seq[i]
    PROVE  SeqNotBehind'
<1>1. ASSUME NEW q \in 0..(wpos - 1)
      PROVE  seq'[Elem(q)] >= q
  <2>1. q \in Nat /\ Elem(q) \in Elems
    BY <1>1, ElemType
  <2>2. seq[Elem(q)] \in Nat /\ seq[Elem(q)] >= q
    BY <1>1, <2>1 DEF SeqNotBehind
  <2>3. seq'[Elem(q)] \in Nat /\ seq'[Elem(q)] >= seq[Elem(q)]
    BY <2>1
  <2> QED
    BY <2>1, <2>2, <2>3
<1>2. ASSUME NEW q \in 0..(rpos - 1)
      PROVE  seq'[Elem(q)] > q
  <2>1. q \in Nat /\ Elem(q) \in Elems
    BY <1>2, ElemType
  <2>2. seq[Elem(q)] \in Nat /\ seq[Elem(q)] > q
    BY <1>2, <2>1 DEF SeqNotBehind
  <2>3. seq'[Elem(q)] \in Nat /\ seq'[Elem(q)] >= seq[Elem(q)]
    BY <2>1
  <2> QED
    BY <2>1, <2>2, <2>3
<1>3. \A q \in Nat : Elem(q)' = Elem(q)
  BY DEF Elem
<1>4. \A q \in 0..(wpos' - 1) : seq'[Elem(q)'] >= q
  BY <1>1, <1>3
<1>5. \A q \in 0..(rpos' - 1) : seq'[Elem(q)'] > q
  BY <1>2, <1>3
<1> QED
  BY <1>4, <1>5 DEF SeqNotBehind

\* The store with which post marks its element as full preserves the invariant.
LEMMA PostCommitStep ==
    ASSUME TypeOK, Inv, NEW p \in Producers, PostCommit(p)
    PROVE  Inv'
<1> USE DEF Inv
<1> DEFINE e == Elem(pos[p])
<1>1. /\ wpos \in Nat /\ rpos \in Nat
      /\ Capacity \in Nat /\ Capacity >= 2
      /\ seq \in [Elems -> Nat]
      /\ \A t \in Threads : pos[t] \in Nat
      /\ p \in Threads
      /\ e \in Elems
  BY MemQueueAssumption, ElemType DEF TypeOK, Threads
<1>2. /\ Claimed(p) /\ ~Claimed(p)'
      /\ seq' = [seq EXCEPT ![e] = pos[p] + 1]
      /\ UNCHANGED <<rpos, wpos, pos>>
      /\ \A t \in Threads \ {p} : Claimed(t)' <=> Claimed(t)
      /\ \A t \in Threads : pc'[t] = "claim" => pc[t] = "claim"
  BY DEF PostCommit, Goto, Claimed, TypeOK, Threads
<1>3. /\ seq[e] = pos[p]
      /\ pos[p] >= rpos /\ pos[p] < wpos /\ wpos =< pos[p] + Capacity
  BY <1>1, <1>2 DEF ProducersOK, PositionsOK
<1>4. \A i \in Elems : seq'[i] \in Nat /\ seq'[i] >= seq[i]
  BY <1>1, <1>2, <1>3
<1>5. \A t \in Threads : t # p /\ Claimed(t) => Elem(pos[t]) # e
  BY <1>1, <1>2, OthersElems
<1>6. \A q \in Nat : Elem(q) \in Elems
  BY ElemType
<1>7. PositionsOK'
  BY <1>2 DEF PositionsOK
<1>8. ProducersOK'
  BY <1>1, <1>2, <1>4, <1>5, <1>6 DEF ProducersOK, Elem, Threads
<1>9. ConsumersOK'
  BY <1>1, <1>2, <1>4, <1>5, <1>6, MemQueueAssumption
     DEF ConsumersOK, Elem, Threads
<1>10. ClaimsDiffer'
  BY <1>2 DEF ClaimsDiffer, Threads
<1>11. ElemsOK'
  <2> SUFFICES ASSUME NEW q \in wpos..(wpos + Capacity - 1)
               PROVE  ElemOK(q)'
    BY <1>2 DEF ElemsOK
  <2>1. q \in Nat /\ Elem(q) \in Elems /\ ElemOK(q)
    BY <1>1, <1>6 DEF ElemsOK
  <2>2. CASE Elem(q) = e
    <3>1. pos[p] + Capacity \in wpos..(wpos + Capacity - 1)
      BY <1>1, <1>3
    <3>2. q = pos[p] + Capacity
      BY <1>1, <2>2, <3>1, NextLap, OneLap
    <3>3. seq'[Elem(q)] = q - Capacity + 1 /\ q - Capacity >= rpos
      BY <1>1, <1>2, <1>3, <2>2, <3>2
    <3> QED
      BY <1>2, <3>3 DEF ElemOK, Elem
  <2>3. CASE Elem(q) # e
    <3>1. q - Capacity # pos[p]
      BY <1>1, <2>1, <2>3, NextLap
    <3>2. seq'[Elem(q)] = seq[Elem(q)]
      BY <1>1, <1>2, <2>1, <2>3
    <3> QED
      BY <1>1, <1>2, <2>1, <3>1, <3>2 DEF ElemOK, Elem, Threads
  <2> QED
    BY <2>2, <2>3
<1>12. SeqNotBehind'
  BY <1>1, <1>2, <1>4, SequencesGrow
<1> QED
  BY <1>7, <1>8, <1>9, <1>10, <1>11, <1>12

\* The store with which fetch frees its element for the next lap preserves the
\* invariant.
LEMMA FetchCommitStep ==
    ASSUME TypeOK, Inv, NEW c \in Consumers, FetchCommit(c)
    PROVE  Inv'
<1> USE DEF Inv
<1> DEFINE e == Elem(pos[c])
<1>1. /\ wpos \in Nat /\ rpos \in Nat
      /\ Capacity \in Nat /\ Capacity >= 2
      /\ seq \in [Elems -> Nat]
      /\ \A t \in Threads : pos[t] \in Nat
      /\ c \in Threads
      /\ e \in Elems
  BY MemQueueAssumption, ElemType DEF TypeOK, Threads
<1>2. /\ Claimed(c) /\ ~Claimed(c)'
      /\ seq' = [seq EXCEPT ![e] = pos[c] + Capacity]
      /\ UNCHANGED <<rpos, wpos, pos>>
      /\ \A t \in Threads \ {c} : Claimed(t)' <=> Claimed(t)
      /\ \A t \in Threads : pc'[t] = "claim" => pc[t] = "claim"
  BY DEF FetchCommit, Goto, Claimed, TypeOK, Threads
<1>3. /\ seq[e] = pos[c] + 1
      /\ pos[c] < rpos /\ rpos =< wpos /\ wpos =< pos[c] + Capacity
  BY <1>1, <1>2 DEF ConsumersOK, PositionsOK
<1>4. \A i \in Elems : seq'[i] \in Nat /\ seq'[i] >= seq[i]
  BY <1>1, <1>2, <1>3
<1>5. \A t \in Threads : t # c /\ Claimed(t) => Elem(pos[t]) # e
  BY <1>1, <1>2, OthersElems
<1>6. \A q \in Nat : Elem(q) \in Elems
  BY ElemType
<1>7. PositionsOK'
  BY <1>2 DEF PositionsOK
<1>8. ProducersOK'
  BY <1>1, <1>2, <1>4, <1>5, <1>6, MemQueueAssumption
     DEF ProducersOK, Elem, Threads
<1>9. ConsumersOK'
  BY <1>1, <1>2, <1>4, <1>5, <1>6 DEF ConsumersOK, Elem, Threads
<1>10. ClaimsDiffer'
  BY <1>2 DEF ClaimsDiffer, Threads
<1>11. ElemsOK'
  <2> SUFFICES ASSUME NEW q \in wpos..(wpos + Capacity - 1)
               PROVE  ElemOK(q)'
    BY <1>2 DEF ElemsOK
  <2>1. q \in Nat /\ Elem(q) \in Elems /\ ElemOK(q)
    BY <1>1, <1>6 DEF ElemsOK
  <2>2. CASE Elem(q) = e
    <3>1. pos[c] + Capacity \in wpos..(wpos + Capacity - 1)
      BY <1>1, <1>3
    <3>2. q = pos[c] + Capacity
      BY <1>1, <2>2, <3>1, NextLap, OneLap
    <3>3. seq'[Elem(q)] = q /\ q - Capacity < rpos
      BY <1>1, <1>2, <1>3, <2>2, <3>2
    <3> QED
      BY <1>2, <3>3 DEF ElemOK, Elem
  <2>3. CASE Elem(q) # e
    <3>1. q - Capacity # pos[c]
      BY <1>1, <2>1, <2>3, NextLap
    <3>2. seq'[Elem(q)] = seq[Elem(q)]
      BY <1>1, <1>2, <2>1, <2>3
    <3> QED
      BY <1>1, <1>2, <2>1, <3>1, <3>2 DEF ElemOK, Elem, Threads
  <2> QED
    BY <2>2, <2>3
<1>12. SeqNotBehind'
  BY <1>1, <1>2, <1>4, SequencesGrow
<1> QED
  BY <1>7, <1>8, <1>9, <1>10, <1>11, <1>12

\* The constructor establishes the invariant if it initialises every element.
LEMMA InitInv == Init /\ Initialised = Capacity => Inv
<1> SUFFICES ASSUME Init, Initialised = Capacity
             PROVE  Inv
  OBVIOUS
<1>1. Capacity \in Nat /\ Capacity >= 2 /\ rpos = 0 /\ wpos = 0
  BY MemQueueAssumption DEF Init
<1>2. \A t \in Threads : pc[t] = "idle" /\ pos[t] = 0 /\ ~Claimed(t)
  BY DEF Init, Claimed
<1>3. ElemsOK
  <2> SUFFICES ASSUME NEW q \in wpos..(wpos + Capacity - 1)
               PROVE  seq[Elem(q)] = q /\ q - Capacity < rpos
    BY DEF ElemsOK, ElemOK
  <2>1. q \in Elems /\ Elem(q) = q /\ q - Capacity < rpos
    BY <1>1, FirstLap DEF Elems
  <2> QED
    BY <1>1, <2>1 DEF Init, Elems
<1>4. PositionsOK /\ SeqNotBehind
  BY <1>1 DEF PositionsOK, SeqNotBehind
<1>5. ProducersOK /\ ConsumersOK /\ ClaimsDiffer
  BY <1>1, <1>2 DEF ProducersOK, ConsumersOK, ClaimsDiffer, Threads
<1> QED
  BY <1>3, <1>4, <1>5 DEF Inv

\* Every step of post and fetch preserves the invariant.
LEMMA StepInv == TypeOK /\ Inv /\ [Next]_vars => Inv'
<1> SUFFICES ASSUME TypeOK, Inv, [Next]_vars
             PROVE  Inv'
  OBVIOUS
<1>1. /\ rpos \in Nat /\ wpos \in Nat /\ rpos =< wpos
      /\ Producers \cap Consumers = {}
      /\ \A t \in Threads : pos[t] \in Nat /\ seq[Elem(pos[t])] \in Nat
      /\ \A p \in Producers :
            /\ pos[p] =< wpos
            /\ pc[p] = "claim" => seq[Elem(pos[p])] >= pos[p]
      /\ \A c \in Consumers :
            /\ pos[c] =< rpos
            /\ pc[c] = "claim" => seq[Elem(pos[c])] > pos[c]
  BY MemQueueAssumption, ElemType
     DEF TypeOK, Inv, PositionsOK, ProducersOK, ConsumersOK, Threads
<1>2. ASSUME NEW p \in Producers, NEW msg \in Msgs, Post(p, msg)
      PROVE  Inv'
  BY <1>1, <1>2, QuietStep DEF Post, Goto, Claimed, TypeOK, Threads
<1>3. ASSUME NEW p \in Producers, PostSteps(p)
      PROVE  Inv'
  <2>1. CASE PostLoad(p)
    BY <1>1, <2>1, QuietStep DEF PostLoad, Goto, Claimed, TypeOK, Threads
  <2>2. CASE PostAgain(p) \/ PostLose(p)
    BY <1>1, <2>2, QuietStep
       DEF PostAgain, PostLose, Goto, Claimed, TypeOK, Threads
  <2>3. CASE PostAccess(p)
    BY <1>1, <2>3, QuietStep DEF PostAccess, Goto, Claimed, TypeOK, Threads
  <2> QED
    BY <1>3, <2>1, <2>2, <2>3, PostClaimStep, PostCommitStep DEF PostSteps
<1>4. ASSUME NEW c \in Consumers, FetchSteps(c)
      PROVE  Inv'
  <2>1. CASE FetchLoad(c)
    BY <1>1, <2>1, QuietStep DEF FetchLoad, Goto, Claimed, TypeOK, Threads
  <2>2. CASE Fetch(c) \/ FetchAgain(c) \/ FetchLose(c)
    BY <1>1, <2>2, QuietStep
       DEF Fetch, FetchAgain, FetchLose, Goto, Claimed, TypeOK, Threads
  <2>3. CASE FetchAccess(c)
    BY <1>1, <2>3, QuietStep DEF FetchAccess, Goto, Claimed, TypeOK, Threads
  <2> QED
    BY <1>4, <2>1, <2>2, <2>3, FetchClaimStep, FetchCommitStep DEF FetchSteps
<1>5. CASE UNCHANGED vars
  BY <1>1, <1>5, QuietStep DEF vars, Claimed
<1> QED
  BY <1>2, <1>3, <1>4, <1>5 DEF Next

\* A queue whose constructor initialises every element keeps the invariant for
\* ever, for every number of threads and every capacity of at least two.
THEOREM Invariance ==
    ASSUME Initialised = Capacity
    PROVE  Spec => []Inv
<1>1. Init => Inv
  BY InitInv
<1> QED
  BY <1>1, StepInv, TypeCorrect, PTL DEF Spec

\* The plain accesses to the values, between compare-and-exchange and commit,
\* never race.
THEOREM AccessesAreExclusive ==
    ASSUME Initialised = Capacity
    PROVE  Spec => []NoRace
  BY Invariance, TypeCorrect, InvNoRace, PTL

-----------------------------------------------------------------------------
(* What a failure means. *)

\* A call that returns false does so when it looks at its element.
LEMMA FailingStep ==
    ASSUME TypeOK, [Next]_vars, NEW t \in Threads, pc[t] = "load", pc'[t] = "idle"
    PROVE  \/ t \in Producers /\ PostLoad(t) /\ seq[Elem(pos[t])] - pos[t] < 0
           \/ t \in Consumers /\ FetchLoad(t)
              /\ seq[Elem(pos[t])] - (pos[t] + 1) < 0
<1>1. ASSUME NEW p \in Producers, NEW msg \in Msgs, Post(p, msg)
      PROVE  FALSE
  BY <1>1 DEF Post, Goto, TypeOK, Threads
<1>2. ASSUME NEW p \in Producers, PostSteps(p)
      PROVE  p = t /\ PostLoad(p) /\ seq[Elem(pos[p])] - pos[p] < 0
  BY <1>2 DEF PostSteps, PostLoad, PostAgain, PostClaim, PostLose, PostAccess,
              PostCommit, Goto, TypeOK, Threads
<1>3. ASSUME NEW c \in Consumers, FetchSteps(c)
      PROVE  c = t /\ FetchLoad(c) /\ seq[Elem(pos[c])] - (pos[c] + 1) < 0
  BY <1>3 DEF FetchSteps, Fetch, FetchLoad, FetchAgain, FetchClaim, FetchLose,
              FetchAccess, FetchCommit, Goto, TypeOK, Threads
<1>4. CASE UNCHANGED vars
  BY <1>4 DEF vars
<1> QED
  BY <1>1, <1>2, <1>3, <1>4 DEF Next

\* A call of post that returns false finds the queue full, or the message that
\* stood one lap before still being read.
LEMMA FailingPost ==
    ASSUME TypeOK, Inv, [Next]_vars,
           NEW p \in Producers, pc[p] = "load", pc'[p] = "idle"
    PROVE  \/ wpos - rpos = Capacity
           \/ \E c \in Consumers : Claimed(c) /\ pos[c] = wpos - Capacity
<1>1. /\ wpos \in Nat /\ rpos \in Nat /\ wpos - rpos \in 0..Capacity
      /\ Capacity \in Nat /\ Capacity >= 2
      /\ pos[p] \in Nat /\ pos[p] =< wpos
      /\ seq[Elem(pos[p])] \in Nat
  BY MemQueueAssumption, ElemType
     DEF TypeOK, Inv, PositionsOK, ProducersOK, Threads
<1>2. seq[Elem(pos[p])] < pos[p]
  BY <1>1, FailingStep, MemQueueAssumption DEF Threads
<1>3. pos[p] = wpos
  BY <1>1, <1>2 DEF Inv, SeqNotBehind
<1>4. ElemOK(wpos)
  BY <1>1 DEF Inv, ElemsOK
<1>5. CASE wpos - Capacity >= rpos
  BY <1>1, <1>5
<1>6. ASSUME NEW q \in Producers, Claimed(q), pos[q] = wpos - Capacity
      PROVE  wpos - Capacity >= rpos
  BY <1>6 DEF Inv, ProducersOK
<1> QED
  BY <1>1, <1>2, <1>3, <1>4, <1>5, <1>6 DEF ElemOK

\* post gives up only if the queue is full, or if the message that stood one
\* lap before is still being read.
THEOREM PostFailure ==
    ASSUME Initialised = Capacity
    PROVE  Spec => PostFailsForLackOfRoom
<1>1. ASSUME TypeOK, Inv, [Next]_vars,
             NEW p \in Producers, pc[p] = "load", pc'[p] = "idle"
      PROVE  \/ wpos - rpos = Capacity
             \/ \E c \in Consumers : Claimed(c) /\ pos[c] = wpos - Capacity
  BY <1>1, FailingPost
<1>2. TypeOK /\ Inv /\ [Next]_vars =>
        [\A p \in Producers : pc[p] = "load" /\ pc'[p] = "idle" =>
            \/ wpos - rpos = Capacity
            \/ \E c \in Consumers :
                Claimed(c) /\ pos[c] = wpos - Capacity]_vars
  BY <1>1
<1> QED
  BY <1>2, Invariance, TypeCorrect, PTL DEF Spec, PostFailsForLackOfRoom

\* fetch gives up only if there is nothing to fetch, or if the next message is
\* still being written.
THEOREM FetchFailure ==
    ASSUME Initialised = Capacity
    PROVE  Spec => FetchFailsForLackOfMessages
<1>1. ASSUME TypeOK, Inv, [Next]_vars,
             NEW c \in Consumers, pc[c] = "load", pc'[c] = "idle"
      PROVE  \/ wpos = rpos
             \/ \E p \in Producers : Claimed(p) /\ pos[p] = rpos
  <2>1. /\ wpos \in Nat /\ rpos \in Nat /\ wpos - rpos \in 0..Capacity
        /\ Capacity \in Nat /\ Capacity >= 2
        /\ pos[c] \in Nat /\ pos[c] =< rpos
        /\ seq[Elem(pos[c])] \in Nat
    BY <1>1, MemQueueAssumption, ElemType
       DEF TypeOK, Inv, PositionsOK, ConsumersOK, Threads
  <2>2. seq[Elem(pos[c])] < pos[c] + 1
    BY <1>1, <2>1, FailingStep, MemQueueAssumption DEF Threads
  <2>3. pos[c] = rpos
    BY <1>1, <2>1, <2>2 DEF Inv, SeqNotBehind
  <2>4. CASE rpos # wpos
    <3>1. rpos + Capacity \in wpos..(wpos + Capacity - 1)
      BY <2>1, <2>4
    <3>2. ElemOK(rpos + Capacity) /\ Elem(rpos + Capacity) = Elem(rpos)
      BY <1>1, <2>1, <3>1, NextLap DEF Inv, ElemsOK
    <3> QED
      BY <2>1, <2>2, <2>3, <3>2 DEF ElemOK
  <2> QED
    BY <2>4
<1>2. TypeOK /\ Inv /\ [Next]_vars =>
        [\A c \in Consumers : pc[c] = "load" /\ pc'[c] = "idle" =>
            \/ wpos = rpos
            \/ \E p \in Producers : Claimed(p) /\ pos[p] = rpos]_vars
  BY <1>1
<1> QED
  BY <1>2, Invariance, TypeCorrect, PTL DEF Spec, FetchFailsForLackOfMessages

\* A call that returns false has a reason that its caller can wait for, for
\* every number of threads and every capacity of at least two.
THEOREM Failures ==
    ASSUME Initialised = Capacity
    PROVE  Spec => FailuresAreForLack
  BY PostFailure, FetchFailure DEF FailuresAreForLack

-----------------------------------------------------------------------------
(* The queue is first in, first out. *)

\* What is in the elements: a thread in post has a message to post, every
\* position that was posted and not fetched is being written or holds a message,
\* and so does what a consumer is reading (post, fetch).
ValuesOK ==
    /\ \A p \in Producers : pc[p] # "idle" => arg[p] \in Msgs
    /\ \A c \in Consumers :
        /\ pc[c] = "access" => val[Elem(pos[c])] \in Msgs
        /\ pc[c] = "commit" => arg[c] \in Msgs
    /\ \A q \in rpos..(wpos - 1) : Writing(q) # {} \/ val[Elem(q)] \in Msgs

\* Whoever writes position q is alone in it.
LEMMA WriterIsAlone ==
    ASSUME Inv, NEW q, NEW p \in Writing(q)
    PROVE  /\ p \in Producers /\ pc[p] = "access" /\ pos[p] = q
           /\ Writing(q) = {p}
           /\ Content(q) = arg[p]
<1>1. p \in Producers /\ pc[p] = "access" /\ pos[p] = q
  BY DEF Writing
<1>2. \A s \in Writing(q) : s = p
  BY <1>1 DEF Writing, Inv, ClaimsDiffer, Claimed
<1>3. Writing(q) = {p}
  BY <1>2
<1> QED
  BY <1>1, <1>3 DEF Content

\* An element that the next consumer may take is not being written.
LEMMA FullIsWritten ==
    ASSUME TypeOK, Inv, NEW c \in Consumers, pc[c] = "claim", rpos = pos[c]
    PROVE  Writing(rpos) = {}
<1>1. seq[Elem(rpos)] = rpos + 1 /\ rpos \in Nat
  BY ClaimedElemIsFull DEF TypeOK
<1>2. ASSUME NEW p \in Writing(rpos)
      PROVE  FALSE
  <2>1. p \in Producers /\ pc[p] = "access" /\ pos[p] = rpos
    BY <1>2 DEF Writing
  <2>2. seq[Elem(rpos)] = rpos
    BY <2>1 DEF Inv, ProducersOK, Claimed
  <2> QED
    BY <1>1, <2>2
<1> QED
  BY <1>2

\* Steps that neither move the positions, nor write a value, nor change what a
\* writer writes leave the contents alone.
LEMMA SameContents ==
    ASSUME TypeOK, Inv, UNCHANGED val,
           \A p \in Producers :
                /\ (pc'[p] = "access") <=> (pc[p] = "access")
                /\ pc[p] = "access" => pos'[p] = pos[p] /\ arg'[p] = arg[p],
           NEW q
    PROVE  Writing(q)' = Writing(q) /\ Content(q)' = Content(q)
<1>1. Writing(q)' = Writing(q)
  BY DEF Writing
<1>2. CASE Writing(q) = {}
  BY <1>1, <1>2 DEF Content, Elem
<1>3. ASSUME NEW p \in Writing(q)
      PROVE  Content(q)' = Content(q)
  <2>1. Writing(q) = {p} /\ Content(q) = arg[p] /\ arg'[p] = arg[p]
    BY WriterIsAlone
  <2> QED
    BY <1>1, <2>1 DEF Content
<1> QED
  BY <1>1, <1>2, <1>3

\* The constructor leaves nothing to be read.
LEMMA InitValues == Init => ValuesOK
<1> SUFFICES ASSUME Init
             PROVE  ValuesOK
  OBVIOUS
<1>1. \A t \in Threads : pc[t] = "idle"
  BY DEF Init
<1>2. rpos..(wpos - 1) = {}
  BY DEF Init
<1> QED
  BY <1>1, <1>2 DEF ValuesOK, Threads

\* Steps of post and fetch that touch no value keep it, as long as who writes
\* keeps writing.
LEMMA QuietValues ==
    ASSUME TypeOK, Inv, ValuesOK, UNCHANGED <<rpos, wpos, val>>,
           \A p \in Producers :
                /\ (pc'[p] = "access") <=> (pc[p] = "access")
                /\ pc[p] = "access" => pos'[p] = pos[p] /\ arg'[p] = arg[p]
                /\ pc'[p] # "idle" => arg'[p] \in Msgs,
           \A c \in Consumers :
                /\ pc'[c] = "access" => pc[c] = "access" /\ pos'[c] = pos[c]
                /\ pc'[c] = "commit" => arg'[c] \in Msgs
    PROVE  ValuesOK'
<1>1. \A q : Writing(q)' = Writing(q)
  BY SameContents
<1>2. \A c \in Consumers : pc'[c] = "access" => val'[Elem(pos[c])] \in Msgs
  BY DEF ValuesOK
<1>3. \A q \in rpos'..(wpos' - 1) : Writing(q)' # {} \/ val'[Elem(q)'] \in Msgs
  BY <1>1 DEF ValuesOK, Elem
<1> QED
  BY <1>2, <1>3 DEF ValuesOK, Elem

\* Every step keeps messages in the elements that are full or being read.
LEMMA StepValues == TypeOK /\ Inv /\ ValuesOK /\ [Next]_vars => ValuesOK'
<1> SUFFICES ASSUME TypeOK, Inv, ValuesOK, [Next]_vars
             PROVE  ValuesOK'
  OBVIOUS
<1>1. /\ rpos \in Nat /\ wpos \in Nat /\ wpos - rpos \in 0..Capacity
      /\ Capacity \in Nat /\ Capacity >= 2
      /\ Producers \cap Consumers = {}
      /\ \A t \in Threads : pos[t] \in Nat /\ Elem(pos[t]) \in Elems
  BY MemQueueAssumption, ElemType DEF TypeOK, Inv, PositionsOK, Threads
<1>2. /\ \A p \in Producers : pc[p] # "idle" => arg[p] \in Msgs
      /\ \A c \in Consumers : pc[c] = "commit" => arg[c] \in Msgs
      /\ \A c \in Consumers : pc[c] = "access" => val[Elem(pos[c])] \in Msgs
  BY DEF ValuesOK
<1>3. ASSUME NEW p \in Producers, NEW msg \in Msgs, Post(p, msg)
      PROVE  ValuesOK'
  BY <1>1, <1>2, <1>3, QuietValues DEF Post, Goto, TypeOK, Threads
<1>4. ASSUME NEW p \in Producers, PostSteps(p)
      PROVE  ValuesOK'
  <2>1. CASE PostLoad(p)
    BY <1>1, <1>2, <2>1, QuietValues DEF PostLoad, Goto, TypeOK, Threads
  <2>2. CASE PostAgain(p) \/ PostLose(p)
    BY <1>1, <1>2, <2>2, QuietValues
       DEF PostAgain, PostLose, Goto, TypeOK, Threads
  <2>3. CASE PostCommit(p)
    BY <1>1, <1>2, <2>3, QuietValues DEF PostCommit, Goto, TypeOK, Threads
  <2>4. CASE PostClaim(p)
    <3>1. /\ wpos' = wpos + 1 /\ pos[p] = wpos /\ pc[p] = "claim"
          /\ UNCHANGED <<rpos, val, pos, arg>>
          /\ pc' = [pc EXCEPT ![p] = "access"] /\ pc \in [Threads -> Labels]
      BY <2>4 DEF PostClaim, Goto, TypeOK
    <3>2. ASSUME NEW q \in rpos'..(wpos' - 1)
          PROVE  Writing(q)' # {} \/ val'[Elem(q)'] \in Msgs
      <4>1. CASE q = wpos
        BY <1>1, <3>1, <4>1 DEF Writing, Threads
      <4>2. CASE q # wpos
        <5>1. Writing(q) # {} \/ val[Elem(q)] \in Msgs
          BY <1>1, <3>1, <4>2 DEF ValuesOK
        <5>2. Writing(q) \subseteq Writing(q)'
          BY <3>1 DEF Writing, Threads
        <5> QED
          BY <3>1, <5>1, <5>2 DEF Elem
      <4> QED
        BY <4>1, <4>2
    <3> QED
      BY <1>1, <1>2, <3>1, <3>2 DEF ValuesOK, Elem, Threads
  <2>5. CASE PostAccess(p)
    <3>1. /\ pc[p] = "access" /\ val' = [val EXCEPT ![Elem(pos[p])] = arg[p]]
          /\ UNCHANGED <<rpos, wpos, pos, arg>>
          /\ pc' = [pc EXCEPT ![p] = "commit"] /\ pc \in [Threads -> Labels]
          /\ arg[p] \in Msgs /\ p \in Threads
          /\ DOMAIN val = Elems
      BY <1>2, <2>5 DEF PostAccess, Goto, TypeOK, Threads
    <3>2. ASSUME NEW q \in rpos..(wpos - 1)
          PROVE  Writing(q)' # {} \/ val'[Elem(q)] \in Msgs
      <4>1. CASE Elem(q) = Elem(pos[p])
        BY <1>1, <3>1, <4>1
      <4>2. CASE Elem(q) # Elem(pos[p])
        <5>1. Writing(q) # {} \/ val[Elem(q)] \in Msgs
          BY DEF ValuesOK
        <5>2. Writing(q) \subseteq Writing(q)'
          BY <3>1, <4>2 DEF Writing, Threads
        <5> QED
          BY <3>1, <4>2, <5>1, <5>2
      <4> QED
        BY <4>1, <4>2
    <3>3. ASSUME NEW c \in Consumers, pc[c] = "access"
          PROVE  val'[Elem(pos[c])] \in Msgs
      <4>1. Elem(pos[c]) # Elem(pos[p])
        BY <1>1, <3>1, <3>3, OthersElems DEF Claimed, Threads
      <4> QED
        BY <1>2, <3>1, <3>3, <4>1
    <3> QED
      BY <1>1, <1>2, <3>1, <3>2, <3>3 DEF ValuesOK, Elem, Threads
  <2> QED
    BY <1>4, <2>1, <2>2, <2>3, <2>4, <2>5 DEF PostSteps
<1>5. ASSUME NEW c \in Consumers, FetchSteps(c)
      PROVE  ValuesOK'
  <2>1. CASE FetchLoad(c)
    BY <1>1, <1>2, <2>1, QuietValues DEF FetchLoad, Goto, TypeOK, Threads
  <2>2. CASE Fetch(c) \/ FetchAgain(c) \/ FetchLose(c)
    BY <1>1, <1>2, <2>2, QuietValues
       DEF Fetch, FetchAgain, FetchLose, Goto, TypeOK, Threads
  <2>3. CASE FetchAccess(c) \/ FetchCommit(c)
    BY <1>1, <1>2, <2>3, QuietValues
       DEF FetchAccess, FetchCommit, Goto, TypeOK, Threads
  <2>4. CASE FetchClaim(c)
    <3>1. /\ rpos' = rpos + 1 /\ pos[c] = rpos /\ pc[c] = "claim"
          /\ UNCHANGED <<wpos, val, pos, arg>>
          /\ pc' = [pc EXCEPT ![c] = "access"] /\ pc \in [Threads -> Labels]
      BY <2>4 DEF FetchClaim, Goto, TypeOK
    <3>2. Writing(rpos) = {} /\ rpos < wpos
      BY <3>1, FullIsWritten, ClaimedElemIsFull
    <3>3. val[Elem(rpos)] \in Msgs
      BY <1>1, <3>2 DEF ValuesOK
    <3>4. \A q : Writing(q)' = Writing(q)
      BY <1>1, <3>1 DEF Writing, Threads
    <3>5. \A q \in rpos'..(wpos' - 1) : Writing(q)' # {} \/ val'[Elem(q)'] \in Msgs
      BY <1>1, <3>1, <3>4 DEF ValuesOK, Elem
    <3> QED
      BY <1>1, <1>2, <3>1, <3>3, <3>5 DEF ValuesOK, Elem, Threads
  <2> QED
    BY <1>5, <2>1, <2>2, <2>3, <2>4 DEF FetchSteps
<1>6. CASE UNCHANGED vars
  BY <1>2, <1>6, QuietValues DEF vars
<1> QED
  BY <1>3, <1>4, <1>5, <1>6 DEF Next

\* What the abstract queue sees of a consumer.
LEMMA HeldIs ==
    ASSUME NEW c \in Consumers
    PROVE  /\ pc[c] = "access" => Held[c] = val[Elem(pos[c])]
           /\ pc[c] = "commit" => Held[c] = arg[c]
           /\ ~Claimed(c) => Held[c] = NoMsg
  BY DEF Held, Claimed

\* A consumer holds a message from its compare-and-exchange to its commit.
LEMMA HoldingIsClaimed ==
    ASSUME ValuesOK
    PROVE  Abstract!Holding = {c \in Consumers : Claimed(c)}
<1>1. \A c \in Consumers : Held[c] # NoMsg <=> Claimed(c)
  BY HeldIs, MemQueueAssumption DEF ValuesOK, Claimed
<1> QED
  BY <1>1 DEF Abstract!Holding

\* When post claims an element there is room: the messages in the queue and
\* those being taken out of it together are fewer than the elements, because the
\* consumers have claimed different positions of the lap before.
LEMMA EnqueueRoom ==
    ASSUME TypeOK, Inv, ValuesOK,
           NEW p \in Producers, pc[p] = "claim", wpos = pos[p]
    PROVE  Len(Queued) + Cardinality(Abstract!Holding) < Capacity
<1> DEFINE H == {c \in Consumers : Claimed(c)}
           a == wpos - Capacity + 1
           b == rpos - 1
           f == [c \in H |-> pos[c]]
<1>1. /\ wpos \in Nat /\ rpos \in Nat /\ wpos - rpos \in 0..Capacity
      /\ Capacity \in Nat /\ Capacity >= 2
      /\ \A t \in Threads : pos[t] \in Nat
  BY MemQueueAssumption DEF TypeOK, Inv, PositionsOK
<1>2. seq[Elem(wpos)] = wpos /\ wpos - Capacity < rpos
  BY ClaimedElemIsFree
<1>3. ASSUME NEW c \in H
      PROVE  pos[c] \in a..b
  <2>1. /\ c \in Consumers /\ Claimed(c) /\ pos[c] \in Nat
        /\ pos[c] < rpos /\ wpos =< pos[c] + Capacity
        /\ seq[Elem(pos[c])] = pos[c] + 1
    BY <1>1 DEF Inv, ConsumersOK, Threads
  <2>2. wpos # pos[c] + Capacity
    BY <1>1, <1>2, <2>1, NextLap
  <2> QED
    BY <1>1, <2>1, <2>2
<1>4. f \in Injection(H, a..b)
  <2>1. f \in [H -> a..b]
    BY <1>3
  <2>2. \A c, d \in H : f[c] = f[d] => c = d
    BY DEF Inv, ClaimsDiffer
  <2> QED
    BY <2>1, <2>2 DEF Injection, IsInjective
<1>5. /\ IsFiniteSet(a..b)
      /\ Cardinality(a..b) = IF a > b THEN 0 ELSE b - a + 1
  <2>1. a \in Int /\ b \in Int
    BY <1>1
  <2> QED
    BY <2>1, FS_Interval
<1>6. IsFiniteSet(H) /\ Cardinality(H) =< Cardinality(a..b)
  BY <1>4, <1>5, FS_Injection
<1>7. Cardinality(H) \in Nat
  BY <1>6, FS_CardinalityType
<1>8. Len(Queued) = wpos - rpos
  BY <1>1 DEF Queued
<1>9. Len(Queued) + Cardinality(H) < Capacity
  BY <1>1, <1>2, <1>5, <1>6, <1>7, <1>8, SMTT(60)
<1> QED
  BY <1>9, HoldingIsClaimed

\* post's compare-and-exchange enqueues its message.
LEMMA PostClaimEnqueues ==
    ASSUME TypeOK, Inv, ValuesOK, NEW p \in Producers, PostClaim(p)
    PROVE  Abstract!Enqueue(arg[p])
<1>1. /\ wpos \in Nat /\ rpos \in Nat /\ wpos - rpos \in 0..Capacity
      /\ Producers \cap Consumers = {}
      /\ pc \in [Threads -> Labels]
  BY MemQueueAssumption DEF TypeOK, Inv, PositionsOK
<1>2. /\ wpos' = wpos + 1 /\ pos[p] = wpos /\ pc[p] = "claim" /\ p \in Threads
      /\ UNCHANGED <<rpos, val, pos, arg>>
      /\ pc' = [pc EXCEPT ![p] = "access"]
  BY DEF PostClaim, Goto, Threads
<1>3. Inv'
  BY PostClaimStep
<1>4. ASSUME NEW q, q = wpos
      PROVE  Content(q)' = arg[p]
  <2>1. p \in Writing(q)'
    BY <1>1, <1>2, <1>4 DEF Writing
  <2>2. \A s \in Writing(q)' : s = p
    BY <1>3, <2>1 DEF Writing, Inv, ClaimsDiffer, Claimed
  <2>3. Writing(q)' = {p}
    BY <2>1, <2>2
  <2> QED
    BY <1>2, <2>3 DEF Content
<1>5. ASSUME NEW q \in Nat, q < wpos
      PROVE  Content(q)' = Content(q)
  <2>1. Writing(q)' = Writing(q)
    BY <1>1, <1>2, <1>5 DEF Writing, Threads
  <2> QED
    BY <1>2, <2>1 DEF Content, Elem
<1>6. Queued' = Append(Queued, arg[p])
  <2> DEFINE n == wpos - rpos
  <2>1. n \in Nat /\ Len(Queued) = n /\ Queued \in Seq({Content(q) : q \in Nat})
    BY <1>1 DEF Queued
  <2>2. Queued' = [i \in 1..(n + 1) |-> Content(rpos + i - 1)']
    BY <1>1, <1>2 DEF Queued
  <2>3. Append(Queued, arg[p])
            = [i \in 1..(n + 1) |-> IF i = n + 1 THEN arg[p] ELSE Queued[i]]
    BY <2>1
  <2>4. ASSUME NEW i \in 1..(n + 1)
        PROVE  Content(rpos + i - 1)'
                = IF i = n + 1 THEN arg[p] ELSE Queued[i]
    <3>1. CASE i = n + 1
      <4>1. rpos + i - 1 = wpos
        BY <1>1, <3>1
      <4> QED
        BY <1>2, <1>4, <3>1, <4>1
    <3>2. CASE i # n + 1
      <4>1. rpos + i - 1 \in Nat /\ rpos + i - 1 < wpos /\ i \in 1..n
        BY <1>1, <3>2
      <4>2. Queued[i] = Content(rpos + i - 1)
        BY <4>1 DEF Queued
      <4> QED
        BY <1>2, <1>5, <3>2, <4>1, <4>2
    <3> QED
      BY <3>1, <3>2
  <2> QED
    BY <2>2, <2>3, <2>4
<1>7. Held' = Held
  BY <1>1, <1>2 DEF Held, Elem, Threads
<1>8. Len(Queued) + Cardinality(Abstract!Holding) < Capacity
  BY <1>2, EnqueueRoom DEF PostClaim
<1> QED
  BY <1>6, <1>7, <1>8 DEF Abstract!Enqueue, Abstract!Cardinality, Cardinality

\* fetch's compare-and-exchange dequeues the oldest message.
LEMMA FetchClaimDequeues ==
    ASSUME TypeOK, Inv, ValuesOK, NEW c \in Consumers, FetchClaim(c)
    PROVE  Abstract!Dequeue(c)
<1> DEFINE n == wpos - rpos
<1>1. /\ wpos \in Nat /\ rpos \in Nat /\ n \in 0..Capacity
      /\ Producers \cap Consumers = {}
      /\ pc \in [Threads -> Labels]
  BY MemQueueAssumption DEF TypeOK, Inv, PositionsOK
<1>2. /\ rpos' = rpos + 1 /\ pos[c] = rpos /\ pc[c] = "claim" /\ c \in Threads
      /\ UNCHANGED <<wpos, val, pos, arg>>
      /\ pc' = [pc EXCEPT ![c] = "access"]
  BY DEF FetchClaim, Goto, Threads
<1>3. Writing(rpos) = {} /\ rpos < wpos
  BY <1>2, FullIsWritten, ClaimedElemIsFull
<1>4. ASSUME NEW q \in Nat
      PROVE  Content(q)' = Content(q)
  <2>1. Writing(q)' = Writing(q)
    BY <1>1, <1>2 DEF Writing, Threads
  <2> QED
    BY <1>2, <2>1 DEF Content, Elem
<1>5. n \in Nat /\ n > 0 /\ Len(Queued) = n /\ Queued \in Seq({Content(q) : q \in Nat})
  BY <1>1, <1>3 DEF Queued
<1>6. Queued # <<>> /\ Head(Queued) = val[Elem(rpos)]
  <2>1. Queued[1] = Content(rpos)
    BY <1>1, <1>5 DEF Queued
  <2> QED
    BY <1>3, <1>5, <2>1 DEF Content
<1>7. Queued' = Tail(Queued)
  <2>1. Queued' = [i \in 1..(n - 1) |-> Content(rpos + i - 1)']
    <3>1. wpos' - rpos' = n - 1
      BY <1>1, <1>2
    <3> QED
      BY <3>1 DEF Queued
  <2>2. Tail(Queued) = [i \in 1..(n - 1) |-> Queued[i + 1]]
    <3> DEFINE S == {Content(q) : q \in Nat}
    <3>1. /\ Tail(Queued) \in Seq(S) /\ Len(Tail(Queued)) = n - 1
          /\ \A i \in 1..(n - 1) : Tail(Queued)[i] = Queued[i + 1]
      BY <1>5, <1>6, HeadTailProperties
    <3>2. Tail(Queued) \in [1..(n - 1) -> S]
      BY <3>1, LenProperties
    <3> QED
      BY <3>1, <3>2
  <2>3. ASSUME NEW i \in 1..(n - 1)
        PROVE  Content(rpos + i - 1)' = Queued[i + 1]
    <3>1. /\ rpos + i \in Nat /\ i + 1 \in 1..n
          /\ rpos + (i + 1) - 1 = rpos + i
          /\ rpos' + i - 1 = rpos + i
      BY <1>1, <1>2
    <3>2. Queued[i + 1] = Content(rpos + i)
      BY <3>1 DEF Queued
    <3>3. \A q \in Nat : q = rpos + i => Content(rpos + i - 1)' = Content(q)
      BY <1>4, <3>1
    <3> QED
      BY <3>1, <3>2, <3>3
  <2> QED
    BY <2>1, <2>2, <2>3
<1>8. Held[c] = NoMsg
  BY <1>2, HeldIs DEF Claimed
<1>9. Held' = [Held EXCEPT ![c] = val[Elem(rpos)]]
  BY <1>1, <1>2 DEF Held, Elem, Threads
<1> QED
  BY <1>6, <1>7, <1>8, <1>9 DEF Abstract!Dequeue

\* fetch's commit releases the element.
LEMMA FetchCommitReleases ==
    ASSUME TypeOK, Inv, ValuesOK, NEW c \in Consumers, FetchCommit(c)
    PROVE  Abstract!Release(c)
<1>1. /\ pc[c] = "commit" /\ c \in Threads /\ pc \in [Threads -> Labels]
      /\ arg \in [Threads -> Msgs \union {NoMsg}]
      /\ UNCHANGED <<rpos, wpos, val, pos>>
      /\ pc' = [pc EXCEPT ![c] = "idle"]
      /\ arg' = [arg EXCEPT ![c] = NoMsg]
      /\ Producers \cap Consumers = {}
  BY MemQueueAssumption DEF FetchCommit, Goto, TypeOK, Threads
<1>2. Held[c] # NoMsg
  BY <1>1, HeldIs, MemQueueAssumption DEF ValuesOK
<1>3. Held' = [Held EXCEPT ![c] = NoMsg]
  BY <1>1 DEF Held, Elem, Threads
<1>4. \A q : Content(q)' = Content(q)
  BY <1>1, SameContents DEF Threads
<1>5. Queued' = Queued
  BY <1>1, <1>4 DEF Queued
<1> QED
  BY <1>2, <1>3, <1>5 DEF Abstract!Release

\* The other steps of a call are invisible in the abstract queue.
LEMMA InvisibleStep ==
    ASSUME TypeOK, Inv, UNCHANGED <<rpos, wpos, val>>,
           \A p \in Producers :
                /\ (pc'[p] = "access") <=> (pc[p] = "access")
                /\ pc[p] = "access" => pos'[p] = pos[p] /\ arg'[p] = arg[p],
           \A c \in Consumers :
                /\ (pc'[c] = "access") <=> (pc[c] = "access")
                /\ (pc'[c] = "commit") <=> (pc[c] = "commit")
                /\ pc[c] = "access" => pos'[c] = pos[c]
                /\ pc[c] = "commit" => arg'[c] = arg[c]
    PROVE  UNCHANGED <<Queued, Held>>
<1>1. \A q : Content(q)' = Content(q)
  BY SameContents
<1>2. Queued' = Queued
  BY <1>1 DEF Queued
<1>3. Held' = Held
  BY DEF Held, Elem
<1> QED
  BY <1>2, <1>3

\* Nor is the copy of the message into the claimed element.
LEMMA PostAccessInvisible ==
    ASSUME TypeOK, Inv, NEW p \in Producers, PostAccess(p)
    PROVE  UNCHANGED <<Queued, Held>>
<1>1. /\ pc[p] = "access" /\ p \in Threads /\ pc \in [Threads -> Labels]
      /\ val' = [val EXCEPT ![Elem(pos[p])] = arg[p]] /\ DOMAIN val = Elems
      /\ UNCHANGED <<rpos, wpos, pos, arg>>
      /\ pc' = [pc EXCEPT ![p] = "commit"]
      /\ pos[p] \in Nat /\ pos[p] >= rpos /\ pos[p] < wpos
      /\ Elem(pos[p]) \in Elems
      /\ rpos \in Nat /\ wpos \in Nat /\ wpos - rpos \in 0..Capacity
      /\ Capacity \in Nat
      /\ Producers \cap Consumers = {}
  BY MemQueueAssumption, ElemType
     DEF PostAccess, Goto, TypeOK, Threads, Inv, ProducersOK, PositionsOK, Claimed
<1>2. ASSUME NEW q \in Nat, q >= rpos, q < wpos
      PROVE  Content(q)' = Content(q)
  <2>1. CASE q = pos[p]
    <3>1. p \in Writing(q)
      BY <1>1, <2>1 DEF Writing
    <3>2. Writing(q) = {p} /\ Content(q) = arg[p]
      BY <3>1, WriterIsAlone
    <3>3. Writing(q)' = {}
      BY <1>1, <3>2 DEF Writing, Threads
    <3> QED
      BY <1>1, <2>1, <3>2, <3>3 DEF Content, Elem
  <2>2. CASE q # pos[p]
    <3>1. Elem(q) # Elem(pos[p])
      BY <1>1, <1>2, <2>2, OneLap
    <3>2. Writing(q)' = Writing(q)
      BY <1>1, <2>2 DEF Writing, Threads
    <3> QED
      BY <1>1, <3>1, <3>2 DEF Content, Elem
  <2> QED
    BY <2>1, <2>2
<1>3. Queued' = Queued
  <2>1. \A i \in 1..(wpos - rpos) :
            rpos + i - 1 \in Nat /\ rpos + i - 1 >= rpos /\ rpos + i - 1 < wpos
    BY <1>1
  <2>2. \A i \in 1..(wpos - rpos) : Content(rpos + i - 1)' = Content(rpos + i - 1)
    BY <1>1, <1>2, <2>1
  <2> QED
    BY <1>1, <2>2 DEF Queued
<1>4. ASSUME NEW c \in Consumers, pc[c] = "access"
      PROVE  val'[Elem(pos[c])] = val[Elem(pos[c])]
  <2>1. Elem(pos[c]) # Elem(pos[p])
    BY <1>1, <1>4, OthersElems DEF Claimed, Threads
  <2> QED
    BY <1>1, <2>1
<1>5. Held' = Held
  BY <1>1, <1>4 DEF Held, Elem, Threads
<1> QED
  BY <1>3, <1>5

\* Every step of a call is a step of the abstract queue or invisible in it.
LEMMA StepImplements ==
    TypeOK /\ Inv /\ ValuesOK /\ [Next]_vars => [Abstract!Next]_<<Queued, Held>>
<1> SUFFICES ASSUME TypeOK, Inv, ValuesOK, [Next]_vars
             PROVE  Abstract!Next \/ UNCHANGED <<Queued, Held>>
  OBVIOUS
<1> USE DEF Abstract!Next
<1>1. /\ Producers \cap Consumers = {}
      /\ pc \in [Threads -> Labels] /\ pos \in [Threads -> Nat]
      /\ arg \in [Threads -> Msgs \union {NoMsg}]
  BY MemQueueAssumption DEF TypeOK
<1>2. ASSUME NEW p \in Producers, NEW msg \in Msgs, Post(p, msg)
      PROVE  UNCHANGED <<Queued, Held>>
  BY <1>1, <1>2, InvisibleStep DEF Post, Goto, Threads
<1>3. ASSUME NEW p \in Producers, PostSteps(p)
      PROVE  Abstract!Next \/ UNCHANGED <<Queued, Held>>
  <2>1. CASE PostLoad(p)
    BY <1>1, <2>1, InvisibleStep DEF PostLoad, Goto, Threads
  <2>2. CASE PostAgain(p) \/ PostLose(p)
    BY <1>1, <2>2, InvisibleStep DEF PostAgain, PostLose, Goto, Threads
  <2>3. CASE PostCommit(p)
    BY <1>1, <2>3, InvisibleStep DEF PostCommit, Goto, Threads
  <2>4. CASE PostClaim(p)
    <3>1. arg[p] \in Msgs
      BY <2>4 DEF ValuesOK, PostClaim
    <3> QED
      BY <2>4, <3>1, PostClaimEnqueues
  <2> QED
    BY <1>3, <2>1, <2>2, <2>3, <2>4, PostAccessInvisible DEF PostSteps
<1>4. ASSUME NEW c \in Consumers, FetchSteps(c)
      PROVE  Abstract!Next \/ UNCHANGED <<Queued, Held>>
  <2>1. CASE FetchLoad(c)
    BY <1>1, <2>1, InvisibleStep DEF FetchLoad, Goto, Threads
  <2>2. CASE Fetch(c) \/ FetchAgain(c) \/ FetchLose(c)
    BY <1>1, <2>2, InvisibleStep
       DEF Fetch, FetchAgain, FetchLose, Goto, Threads
  <2>3. CASE FetchAccess(c)
    <3>1. /\ pc[c] = "access" /\ UNCHANGED <<rpos, wpos, val, pos, seq>>
          /\ pc' = [pc EXCEPT ![c] = "commit"]
          /\ arg' = [arg EXCEPT ![c] = val[Elem(pos[c])]]
      BY <2>3 DEF FetchAccess, Goto
    <3>2. \A q : Content(q)' = Content(q)
      BY <1>1, <3>1, SameContents DEF Threads
    <3>3. Queued' = Queued
      BY <3>1, <3>2 DEF Queued
    <3>4. Held' = Held
      BY <1>1, <3>1 DEF Held, Elem, Threads
    <3> QED
      BY <3>3, <3>4
  <2> QED
    BY <1>4, <2>1, <2>2, <2>3, FetchClaimDequeues, FetchCommitReleases
       DEF FetchSteps
<1>5. CASE UNCHANGED vars
  BY <1>1, <1>5, InvisibleStep DEF vars
<1> QED
  BY <1>2, <1>3, <1>4, <1>5 DEF Next

\* The empty queue of the constructor is the empty abstract queue.
LEMMA InitImplements == Init => Abstract!Init
<1> SUFFICES ASSUME Init
             PROVE  Abstract!Init
  OBVIOUS
<1>1. 1..(wpos - rpos) = {}
  BY DEF Init
<1>2. Queued = <<>>
  BY <1>1 DEF Queued
<1>3. Held = [c \in Consumers |-> NoMsg]
  BY DEF Init, Held, Threads
<1> QED
  BY <1>2, <1>3 DEF Abstract!Init

\* However calls of post and fetch overlap, messages are fetched in the order in
\* which they were claimed, each once, for every number of threads and every
\* capacity of at least two.
THEOREM FifoImplemented ==
    ASSUME Initialised = Capacity
    PROVE  Spec => ImplementsFifo
<1>1. Init => Abstract!Init
  BY InitImplements
<1>2. Init => ValuesOK
  BY InitValues
<1> QED
  BY <1>1, <1>2, StepValues, StepImplements, Invariance, TypeCorrect, PTL
     DEF Spec, ImplementsFifo, Abstract!Spec, Abstract!vars

-----------------------------------------------------------------------------
(* The queue in a file, over deaths of the process.                        *)
(*                                                                         *)
(* Inv does not outlive the threads: an element that a dead producer had   *)
(* claimed is in none of the four phases.  What does is said element by    *)
(* element, with nothing about who claimed it, and it is enough.           *)

\* The element i is free for position q, or has been claimed for it.
FreeAt(i, q) == Elem(q) = i /\ seq[i] = q /\ q < rpos + Capacity

\* It holds the message that was posted at q.
FullAt(i, q) ==
    Elem(q) = i /\ seq[i] = q + 1 /\ q < wpos /\ <<q, val[i]>> \in posted

\* One that the constructor gave no sequence number stays as it is.
ElemPhase(i) ==
    \/ \E q \in Nat : FreeAt(i, q) \/ FullAt(i, q)
    \/ i # 0 /\ seq[i] = 0

LapOK == rpos =< wpos /\ wpos =< rpos + Capacity

PosterOK(p) ==
    /\ pc[p] = "claim" => seq[Elem(pos[p])] >= pos[p]
    /\ Claimed(p) => pos[p] < wpos /\ seq[Elem(pos[p])] = pos[p]
    /\ pc[p] = "commit" => val[Elem(pos[p])] = arg[p]

FetcherOK(c) ==
    /\ pc[c] = "claim" => seq[Elem(pos[c])] > pos[c]
    /\ Claimed(c) => pos[c] < rpos /\ seq[Elem(pos[c])] = pos[c] + 1
    /\ pc[c] = "commit" => <<pos[c], arg[c]>> \in posted

FileInv ==
    /\ LapOK
    /\ \A i \in Elems : ElemPhase(i)
    /\ \A p \in Producers : PosterOK(p)
    /\ \A c \in Consumers : FetcherOK(c)
    /\ ClaimsDiffer
    /\ NothingIsLost

\* Positions of one element are laps apart.
LEMMA SameElem ==
    ASSUME NEW q \in Nat, NEW r \in Nat, Elem(q) = Elem(r)
    PROVE  q = r \/ q + Capacity =< r \/ r + Capacity =< q
<1>1. Capacity \in Nat
  BY MemQueueAssumption
<1> QED
  BY <1>1, DifferentElems

\* An element is never both free for one position and full at another.
LEMMA NextElem ==
    ASSUME NEW q \in Nat
    PROVE  Elem(q + 1) # Elem(q)
<1>1. Capacity \in Nat /\ Capacity >= 2
  BY MemQueueAssumption
<1> QED
  BY <1>1, DifferentElems

\* A producer whose compare-and-exchange wins has seen the sequence number that
\* the element still has, and the queue has room.
LEMMA PostFindsFree ==
    ASSUME TypeOK, FileInv, NEW p \in Producers, PostClaim(p)
    PROVE  seq[Elem(pos[p])] = pos[p] /\ pos[p] < rpos + Capacity
<1> DEFINE e == Elem(pos[p])
<1>1. /\ pos[p] \in Nat /\ wpos = pos[p] /\ rpos \in Nat /\ Capacity \in Nat
      /\ Capacity >= 2
      /\ e \in Elems /\ seq[e] \in Nat
  BY ElemType, MemQueueAssumption DEF PostClaim, TypeOK, Threads
<1>2. seq[e] >= pos[p] /\ ElemPhase(e) /\ rpos =< wpos
  BY <1>1 DEF FileInv, PosterOK, PostClaim, LapOK
<1>3. ASSUME NEW q \in Nat, FreeAt(e, q)
      PROVE  seq[e] = pos[p] /\ pos[p] < rpos + Capacity
  <2>1. q = pos[p] \/ q + Capacity =< pos[p] \/ pos[p] + Capacity =< q
    BY <1>1, <1>3, SameElem DEF FreeAt
  <2> QED
    BY <1>1, <1>2, <1>3, <2>1 DEF FreeAt
<1>4. ASSUME NEW q \in Nat, FullAt(e, q)
      PROVE  FALSE
  <2>1. q = pos[p] \/ q + Capacity =< pos[p] \/ pos[p] + Capacity =< q
    BY <1>1, <1>4, SameElem DEF FullAt
  <2> QED
    BY <1>1, <1>2, <1>4, <2>1 DEF FullAt
<1>5. CASE e # 0 /\ seq[e] = 0
  <2>1. pos[p] = 0
    BY <1>1, <1>2, <1>5
  <2>2. Elem(0) = 0
    BY <1>1, FirstLap
  <2> QED
    BY <1>5, <2>1, <2>2
<1> QED
  BY <1>2, <1>3, <1>4, <1>5 DEF ElemPhase

\* A consumer whose compare-and-exchange wins has a message that was posted.
LEMMA FetchFindsFull ==
    ASSUME TypeOK, FileInv, NEW c \in Consumers, FetchClaim(c)
    PROVE  seq[Elem(pos[c])] = pos[c] + 1 /\ pos[c] < wpos
<1> DEFINE e == Elem(pos[c])
<1>1. /\ pos[c] \in Nat /\ rpos = pos[c] /\ wpos \in Nat /\ Capacity \in Nat
      /\ Capacity >= 2
      /\ e \in Elems /\ seq[e] \in Nat
  BY ElemType, MemQueueAssumption DEF FetchClaim, TypeOK, Threads
<1>2. seq[e] > pos[c] /\ ElemPhase(e) /\ wpos =< rpos + Capacity
  BY <1>1 DEF FileInv, FetcherOK, FetchClaim, LapOK
<1>3. ASSUME NEW q \in Nat, FreeAt(e, q)
      PROVE  FALSE
  <2>1. q = pos[c] \/ q + Capacity =< pos[c] \/ pos[c] + Capacity =< q
    BY <1>1, <1>3, SameElem DEF FreeAt
  <2> QED
    BY <1>1, <1>2, <1>3, <2>1 DEF FreeAt
<1>4. ASSUME NEW q \in Nat, FullAt(e, q)
      PROVE  seq[e] = pos[c] + 1 /\ pos[c] < wpos
  <2>1. q = pos[c] \/ q + Capacity =< pos[c] \/ pos[c] + Capacity =< q
    BY <1>1, <1>4, SameElem DEF FullAt
  <2> QED
    BY <1>1, <1>2, <1>4, <2>1 DEF FullAt
<1>5. ~(e # 0 /\ seq[e] = 0)
  BY <1>1, <1>2
<1> QED
  BY <1>2, <1>3, <1>4, <1>5 DEF ElemPhase

\* What a consumer reads between its claim and its commit was posted at its
\* position.
LEMMA ReadIsPosted ==
    ASSUME TypeOK, FileInv, NEW c \in Consumers, Claimed(c)
    PROVE  <<pos[c], val[Elem(pos[c])]>> \in posted
<1> DEFINE e == Elem(pos[c])
<1>1. pos[c] \in Nat /\ e \in Elems
  BY ElemType DEF TypeOK, Threads
<1>2. seq[e] = pos[c] + 1 /\ ElemPhase(e)
  BY <1>1 DEF FileInv, FetcherOK
<1>3. ASSUME NEW q \in Nat, FreeAt(e, q)
      PROVE  FALSE
  BY <1>1, <1>2, <1>3, NextElem DEF FreeAt
<1>4. ASSUME NEW q \in Nat, FullAt(e, q)
      PROVE  <<pos[c], val[e]>> \in posted
  BY <1>1, <1>2, <1>4 DEF FullAt
<1> QED
  BY <1>1, <1>2, <1>3, <1>4 DEF ElemPhase

\* Two threads that have claimed the same element are one.
LEMMA ClaimsOfElem ==
    ASSUME TypeOK, FileInv, NEW s \in Threads, NEW t \in Threads,
           Claimed(s), Claimed(t), Elem(pos[s]) = Elem(pos[t])
    PROVE  s = t
<1>1. pos[s] \in Nat /\ pos[t] \in Nat
  BY DEF TypeOK
<1>2. CASE s \in Producers /\ t \in Producers
  BY <1>2 DEF FileInv, PosterOK, ClaimsDiffer
<1>3. CASE s \in Consumers /\ t \in Consumers
  <2>1. seq[Elem(pos[s])] = pos[s] + 1 /\ seq[Elem(pos[t])] = pos[t] + 1
    BY <1>3 DEF FileInv, FetcherOK
  <2>2. pos[s] = pos[t]
    BY <1>1, <2>1
  <2> QED
    BY <1>3, <2>2 DEF FileInv, ClaimsDiffer
<1>4. CASE s \in Producers /\ t \in Consumers
  <2>1. pos[s] = pos[t] + 1
    BY <1>1, <1>4 DEF FileInv, PosterOK, FetcherOK
  <2> QED
    BY <1>1, <2>1, NextElem
<1>5. CASE s \in Consumers /\ t \in Producers
  <2>1. pos[t] = pos[s] + 1
    BY <1>1, <1>5 DEF FileInv, PosterOK, FetcherOK
  <2> QED
    BY <1>1, <2>1, NextElem
<1> QED
  BY <1>2, <1>3, <1>4, <1>5 DEF Threads

\* The constructor of a new file, however many elements it initialises.
LEMMA FileInitInv == FileInit => FileInv
<1> SUFFICES ASSUME FileInit
             PROVE  FileInv
  OBVIOUS
<1>1. /\ Capacity \in Nat /\ Capacity >= 2 /\ rpos = 0 /\ wpos = 0
      /\ posted = {}
      /\ \A t \in Threads : pc[t] = "idle"
  BY MemQueueAssumption DEF FileInit, Init
<1>2. ASSUME NEW i \in Elems
      PROVE  ElemPhase(i)
  <2>1. i \in Nat /\ i < Capacity /\ Elem(i) = i
    BY <1>1, FirstLap DEF Elems
  <2>2. seq[i] = i \/ seq[i] = 0
    BY <1>2 DEF FileInit, Init
  <2>3. CASE seq[i] = i
    <3>1. FreeAt(i, i)
      BY <1>1, <2>1, <2>3 DEF FreeAt
    <3> QED
      BY <2>1, <3>1 DEF ElemPhase
  <2>4. CASE seq[i] # i
    BY <2>2, <2>4 DEF ElemPhase
  <2> QED
    BY <2>3, <2>4
<1>3. LapOK /\ ClaimsDiffer /\ NothingIsLost
  BY <1>1 DEF LapOK, ClaimsDiffer, Claimed, NothingIsLost, Threads
<1>4. \A t \in Threads : PosterOK(t) /\ FetcherOK(t)
  BY <1>1 DEF PosterOK, FetcherOK, Claimed
<1> QED
  BY <1>2, <1>3, <1>4 DEF FileInv, Threads

\* A step that moves nothing but the threads, none of which claims an element.
LEMMA QuietFile ==
    ASSUME FileInv, UNCHANGED <<rpos, wpos, seq, val, posted>>,
           \A p \in Producers : PosterOK(p)',
           \A c \in Consumers : FetcherOK(c)',
           \A t \in Threads : Claimed(t)' => Claimed(t) /\ pos'[t] = pos[t]
    PROVE  FileInv'
<1>1. LapOK' /\ NothingIsLost'
  BY DEF FileInv, LapOK, NothingIsLost, Elem
<1>2. ClaimsDiffer'
  BY DEF FileInv, ClaimsDiffer, Threads
<1>3. \A i \in Elems : ElemPhase(i)'
  BY DEF FileInv, ElemPhase, FreeAt, FullAt, Elem
<1> QED
  BY <1>1, <1>2, <1>3 DEF FileInv

\* The dead have no claims.
LEMMA CrashFile == FileInv /\ Crash => FileInv'
<1> SUFFICES ASSUME FileInv, Crash
             PROVE  FileInv'
  OBVIOUS
<1>1. \A t \in Threads : pc'[t] = "idle"
  BY DEF Crash
<1>2. UNCHANGED <<rpos, wpos, seq, val, posted>>
  BY DEF Crash, Reopen
<1>3. \A t \in Threads : PosterOK(t)' /\ FetcherOK(t)' /\ ~Claimed(t)'
  BY <1>1 DEF PosterOK, FetcherOK, Claimed
<1> QED
  BY <1>2, <1>3, QuietFile DEF Threads

\* post takes the next position, whose element is free.
LEMMA PostClaimFile ==
    ASSUME TypeOK, FileInv, NEW p \in Producers, PostClaim(p), posted' = posted
    PROVE  FileInv'
<1>1. /\ rpos \in Nat /\ wpos \in Nat /\ Capacity \in Nat
      /\ \A t \in Threads : pos[t] \in Nat
      /\ Producers \cap Consumers = {}
  BY MemQueueAssumption DEF TypeOK
<1>2. /\ wpos = pos[p] /\ wpos' = wpos + 1
      /\ UNCHANGED <<rpos, seq, val, pos, arg>>
      /\ pc' = [pc EXCEPT ![p] = "access"]
      /\ pc \in [Threads -> Labels] /\ p \in Threads
  BY DEF PostClaim, Goto, TypeOK, Threads
<1>3. seq[Elem(pos[p])] = pos[p] /\ pos[p] < rpos + Capacity
  BY PostFindsFree
<1>4. LapOK'
  BY <1>1, <1>2, <1>3 DEF FileInv, LapOK
<1>5. ASSUME NEW i \in Elems
      PROVE  ElemPhase(i)'
  BY <1>1, <1>2, <1>5 DEF FileInv, ElemPhase, FreeAt, FullAt, Elem
<1>6. ASSUME NEW q \in Producers
      PROVE  PosterOK(q)'
  BY <1>1, <1>2, <1>3, <1>6 DEF FileInv, PosterOK, Claimed, Elem, Threads
<1>7. ASSUME NEW c \in Consumers
      PROVE  FetcherOK(c)'
  BY <1>1, <1>2, <1>7 DEF FileInv, FetcherOK, Claimed, Elem, Threads
<1>8. ClaimsDiffer'
  BY <1>1, <1>2 DEF FileInv, ClaimsDiffer, PosterOK, Claimed, Threads
<1>9. NothingIsLost'
  BY <1>2 DEF FileInv, NothingIsLost, Elem
<1> QED
  BY <1>4, <1>5, <1>6, <1>7, <1>8, <1>9 DEF FileInv

\* fetch takes the next position, whose element is full.
LEMMA FetchClaimFile ==
    ASSUME TypeOK, FileInv, NEW c \in Consumers, FetchClaim(c), posted' = posted,
           \A m \in posted : m[1] \in Nat
    PROVE  FileInv'
<1>1. /\ rpos \in Nat /\ wpos \in Nat /\ Capacity \in Nat
      /\ \A t \in Threads : pos[t] \in Nat
      /\ Producers \cap Consumers = {}
  BY MemQueueAssumption DEF TypeOK
<1>2. /\ rpos = pos[c] /\ rpos' = rpos + 1
      /\ UNCHANGED <<wpos, seq, val, pos, arg>>
      /\ pc' = [pc EXCEPT ![c] = "access"]
      /\ pc \in [Threads -> Labels] /\ c \in Threads
  BY DEF FetchClaim, Goto, TypeOK, Threads
<1>3. seq[Elem(pos[c])] = pos[c] + 1 /\ pos[c] < wpos
  BY FetchFindsFull
<1>4. LapOK'
  BY <1>1, <1>2, <1>3 DEF FileInv, LapOK
<1>5. ASSUME NEW i \in Elems
      PROVE  ElemPhase(i)'
  BY <1>1, <1>2, <1>5 DEF FileInv, ElemPhase, FreeAt, FullAt, Elem
<1>6. ASSUME NEW q \in Producers
      PROVE  PosterOK(q)'
  BY <1>1, <1>2, <1>6 DEF FileInv, PosterOK, Claimed, Elem, Threads
<1>7. ASSUME NEW d \in Consumers
      PROVE  FetcherOK(d)'
  BY <1>1, <1>2, <1>3, <1>7 DEF FileInv, FetcherOK, Claimed, Elem, Threads
<1>8. ClaimsDiffer'
  <2>1. \A d \in Consumers : Claimed(d) => pos[d] < pos[c]
    BY <1>2 DEF FileInv, FetcherOK
  <2>2. \A t \in Threads : t # c => (Claimed(t)' <=> Claimed(t))
    BY <1>2 DEF Claimed
  <2>3. c \notin Producers
    BY <1>1
  <2> QED
    BY <1>1, <1>2, <2>1, <2>2, <2>3 DEF FileInv, ClaimsDiffer, Threads
<1>9. NothingIsLost'
  BY <1>1, <1>2 DEF FileInv, NothingIsLost, Elem
<1> QED
  BY <1>4, <1>5, <1>6, <1>7, <1>8, <1>9 DEF FileInv

\* The value is written while nobody else has the element, so that what was posted
\* in other elements stays and what was posted in this one has been fetched.
LEMMA PostAccessFile ==
    ASSUME TypeOK, FileInv, NEW p \in Producers, PostAccess(p), posted' = posted,
           \A m \in posted : m[1] \in Nat
    PROVE  FileInv'
<1> DEFINE e == Elem(pos[p])
<1>1. /\ rpos \in Nat /\ wpos \in Nat /\ Capacity \in Nat
      /\ \A t \in Threads : pos[t] \in Nat /\ Elem(pos[t]) \in Elems
      /\ p \in Threads
  BY ElemType, MemQueueAssumption DEF TypeOK, Threads
<1>2. /\ UNCHANGED <<rpos, wpos, seq, pos, arg>>
      /\ val' = [val EXCEPT ![e] = arg[p]]
      /\ pc' = [pc EXCEPT ![p] = "commit"]
      /\ val \in [Elems -> Msgs \union {NoMsg}] /\ pc \in [Threads -> Labels]
      /\ Claimed(p)
  BY DEF PostAccess, Goto, TypeOK, Claimed
<1>3. seq[e] = pos[p] /\ pos[p] < wpos
  BY <1>2 DEF FileInv, PosterOK
<1>4. \A t \in Threads : Claimed(t) /\ t # p => Elem(pos[t]) # e
  BY <1>1, <1>2, ClaimsOfElem
<1>5. /\ \A i \in Elems : i # e => val'[i] = val[i]
      /\ val'[e] = arg[p]
  BY <1>1, <1>2
<1>6. \A q \in Nat : ~FullAt(e, q)
  BY <1>1, <1>3, NextElem DEF FullAt
<1>7. ASSUME NEW i \in Elems
      PROVE  ElemPhase(i)'
  <2>1. ElemPhase(i)
    BY <1>7 DEF FileInv
  <2>2. CASE i = e
    BY <1>2, <1>6, <2>1, <2>2 DEF ElemPhase, FreeAt, Elem
  <2>3. CASE i # e
    BY <1>2, <1>5, <1>7, <2>1, <2>3 DEF ElemPhase, FreeAt, FullAt, Elem
  <2> QED
    BY <2>2, <2>3
<1>8. ASSUME NEW q \in Producers
      PROVE  PosterOK(q)'
  <2>1. q \in Threads
    BY DEF Threads
  <2>2. CASE q = p
    BY <1>1, <1>2, <1>3, <1>5, <2>2 DEF PosterOK, Claimed, Elem
  <2>3. CASE q # p
    <3>1. pc'[q] = pc[q] /\ PosterOK(q)
      BY <1>2, <2>1, <2>3 DEF FileInv
    <3>2. Claimed(q) => val'[Elem(pos[q])] = val[Elem(pos[q])]
      BY <1>1, <1>4, <1>5, <2>1, <2>3
    <3> QED
      BY <1>2, <3>1, <3>2 DEF PosterOK, Claimed, Elem
  <2> QED
    BY <2>2, <2>3
<1>9. ASSUME NEW c \in Consumers
      PROVE  FetcherOK(c)'
  <2>1. c \in Threads /\ c # p
    BY MemQueueAssumption DEF Threads
  <2>2. pc'[c] = pc[c] /\ FetcherOK(c)
    BY <1>2, <2>1 DEF FileInv
  <2> QED
    BY <1>2, <2>2 DEF FetcherOK, Claimed, Elem
<1>10. ClaimsDiffer'
  BY <1>1, <1>2 DEF FileInv, ClaimsDiffer, Claimed, Threads
<1>11. ASSUME NEW m \in posted, m[1] >= rpos
       PROVE  seq[Elem(m[1])] = m[1] + 1 /\ val'[Elem(m[1])] = m[2]
  <2>1. m[1] \in Nat /\ Elem(m[1]) \in Elems
    BY <1>11, ElemType
  <2>2. seq[Elem(m[1])] = m[1] + 1 /\ val[Elem(m[1])] = m[2]
    BY <1>11 DEF FileInv, NothingIsLost
  <2>3. Elem(m[1]) # e
    BY <1>3, <2>1, <2>2, NextElem
  <2> QED
    BY <1>5, <2>1, <2>2, <2>3
<1>12. NothingIsLost'
  BY <1>2, <1>11 DEF NothingIsLost, Elem
<1>13. LapOK'
  BY <1>2 DEF FileInv, LapOK
<1> QED
  BY <1>7, <1>8, <1>9, <1>10, <1>12, <1>13 DEF FileInv

\* A committed message is in its element from then on, until it is claimed.
LEMMA PostCommitFile ==
    ASSUME TypeOK, FileInv, NEW p \in Producers, PostCommit(p),
           posted' = posted \union {<<pos[p], arg[p]>>},
           \A m \in posted : m[1] \in Nat
    PROVE  FileInv'
<1> DEFINE e == Elem(pos[p])
           new == <<pos[p], arg[p]>>
<1>1. /\ rpos \in Nat /\ wpos \in Nat /\ Capacity \in Nat
      /\ \A t \in Threads : pos[t] \in Nat /\ Elem(pos[t]) \in Elems
      /\ p \in Threads
  BY ElemType, MemQueueAssumption DEF TypeOK, Threads
<1>2. /\ UNCHANGED <<rpos, wpos, val, pos>>
      /\ seq' = [seq EXCEPT ![e] = pos[p] + 1]
      /\ arg' = [arg EXCEPT ![p] = NoMsg]
      /\ pc' = [pc EXCEPT ![p] = "idle"]
      /\ seq \in [Elems -> Nat] /\ pc \in [Threads -> Labels]
      /\ arg \in [Threads -> Msgs \union {NoMsg}]
      /\ Claimed(p)
  BY DEF PostCommit, Goto, TypeOK, Claimed
<1>3. seq[e] = pos[p] /\ pos[p] < wpos /\ val[e] = arg[p]
  BY <1>2 DEF FileInv, PosterOK, PostCommit
<1>4. \A t \in Threads : Claimed(t) /\ t # p => Elem(pos[t]) # e
  BY <1>1, <1>2, ClaimsOfElem
<1>5. /\ \A i \in Elems : i # e => seq'[i] = seq[i]
      /\ seq'[e] = pos[p] + 1
      /\ \A t \in Threads : seq'[Elem(pos[t])] >= seq[Elem(pos[t])]
  BY <1>1, <1>2, <1>3
<1>6. \A t \in Threads : t # p => pc'[t] = pc[t] /\ arg'[t] = arg[t]
  BY <1>2
<1>7. LapOK'
  BY <1>2 DEF FileInv, LapOK
<1>8. ASSUME NEW i \in Elems
      PROVE  ElemPhase(i)'
  <2>1. CASE i = e
    <3>1. FullAt(i, pos[p])'
      BY <1>1, <1>2, <1>3, <1>5, <2>1 DEF FullAt, Elem
    <3> QED
      BY <1>1, <1>2, <3>1 DEF ElemPhase
  <2>2. CASE i # e
    BY <1>2, <1>5, <1>8, <2>2 DEF FileInv, ElemPhase, FreeAt, FullAt, Elem
  <2> QED
    BY <2>1, <2>2
<1>9. ASSUME NEW q \in Producers
      PROVE  PosterOK(q)'
  <2>1. q \in Threads
    BY DEF Threads
  <2>2. CASE q = p
    BY <1>2, <2>2 DEF PosterOK, Claimed, Threads
  <2>3. CASE q # p
    <3>1. pc'[q] = pc[q] /\ arg'[q] = arg[q] /\ pos'[q] = pos[q] /\ PosterOK(q)
      BY <1>2, <1>6, <2>1, <2>3 DEF FileInv
    <3>2. Claimed(q) => seq'[Elem(pos[q])] = seq[Elem(pos[q])]
      BY <1>1, <1>4, <1>5, <2>1, <2>3
    <3>3. seq'[Elem(pos[q])] >= seq[Elem(pos[q])] /\ seq'[Elem(pos[q])] \in Nat
          /\ seq[Elem(pos[q])] \in Nat /\ pos[q] \in Nat
      BY <1>1, <1>2, <1>5, <2>1
    <3> QED
      BY <1>2, <3>1, <3>2, <3>3 DEF PosterOK, Claimed, Elem
  <2> QED
    BY <2>2, <2>3
<1>10. ASSUME NEW c \in Consumers
       PROVE  FetcherOK(c)'
  <2>1. c \in Threads /\ c # p
    BY MemQueueAssumption DEF Threads
  <2>2. pc'[c] = pc[c] /\ arg'[c] = arg[c] /\ pos'[c] = pos[c] /\ FetcherOK(c)
    BY <1>2, <1>6, <2>1 DEF FileInv
  <2>3. Claimed(c) => seq'[Elem(pos[c])] = seq[Elem(pos[c])]
    BY <1>1, <1>4, <1>5, <2>1
  <2>4. seq'[Elem(pos[c])] >= seq[Elem(pos[c])] /\ seq'[Elem(pos[c])] \in Nat
        /\ seq[Elem(pos[c])] \in Nat /\ pos[c] \in Nat
    BY <1>1, <1>2, <1>5, <2>1
  <2> QED
    BY <1>2, <2>2, <2>3, <2>4 DEF FetcherOK, Claimed, Elem
<1>11. ClaimsDiffer'
  BY <1>2 DEF FileInv, ClaimsDiffer, Claimed, Threads
<1>12. ASSUME NEW m \in posted', m[1] >= rpos'
       PROVE  seq'[Elem(m[1])] = m[1] + 1 /\ val'[Elem(m[1])] = m[2]
  <2>1. CASE m = new
    BY <1>1, <1>2, <1>3, <1>5, <2>1
  <2>2. CASE m \in posted
    <3>1. m[1] \in Nat /\ Elem(m[1]) \in Elems
      BY <2>2, ElemType
    <3>2. seq[Elem(m[1])] = m[1] + 1 /\ val[Elem(m[1])] = m[2]
      BY <1>2, <1>12, <2>2 DEF FileInv, NothingIsLost
    <3>3. Elem(m[1]) # e
      <4>1. SUFFICES ASSUME Elem(m[1]) = e PROVE FALSE
        OBVIOUS
      <4>2. pos[p] = m[1] + 1
        BY <1>3, <3>2, <4>1
      <4> QED
        BY <3>1, <4>1, <4>2, NextElem
    <3> QED
      BY <1>2, <1>5, <3>1, <3>2, <3>3
  <2> QED
    BY <1>12, <2>1, <2>2
<1>13. NothingIsLost'
  BY <1>12 DEF NothingIsLost, Elem
<1> QED
  BY <1>7, <1>8, <1>9, <1>10, <1>11, <1>13 DEF FileInv

\* An element that has been read is free for the next lap.
LEMMA FetchCommitFile ==
    ASSUME TypeOK, FileInv, NEW c \in Consumers, FetchCommit(c), posted' = posted,
           \A m \in posted : m[1] \in Nat
    PROVE  FileInv'
<1> DEFINE e == Elem(pos[c])
<1>1. /\ rpos \in Nat /\ wpos \in Nat /\ Capacity \in Nat /\ Capacity >= 2
      /\ \A t \in Threads : pos[t] \in Nat /\ Elem(pos[t]) \in Elems
      /\ c \in Threads
  BY ElemType, MemQueueAssumption DEF TypeOK, Threads
<1>2. /\ UNCHANGED <<rpos, wpos, val, pos>>
      /\ seq' = [seq EXCEPT ![e] = pos[c] + Capacity]
      /\ arg' = [arg EXCEPT ![c] = NoMsg]
      /\ pc' = [pc EXCEPT ![c] = "idle"]
      /\ seq \in [Elems -> Nat] /\ pc \in [Threads -> Labels]
      /\ arg \in [Threads -> Msgs \union {NoMsg}]
      /\ Claimed(c)
  BY DEF FetchCommit, Goto, TypeOK, Claimed
<1>3. seq[e] = pos[c] + 1 /\ pos[c] < rpos
  BY <1>2 DEF FileInv, FetcherOK
<1>4. \A t \in Threads : Claimed(t) /\ t # c => Elem(pos[t]) # e
  BY <1>1, <1>2, ClaimsOfElem
<1>5. /\ \A i \in Elems : i # e => seq'[i] = seq[i]
      /\ seq'[e] = pos[c] + Capacity
      /\ \A t \in Threads : seq'[Elem(pos[t])] >= seq[Elem(pos[t])]
  BY <1>1, <1>2, <1>3
<1>6. \A t \in Threads : t # c => pc'[t] = pc[t] /\ arg'[t] = arg[t]
  BY <1>2
<1>7. LapOK'
  BY <1>2 DEF FileInv, LapOK
<1>8. ASSUME NEW i \in Elems
      PROVE  ElemPhase(i)'
  <2>1. CASE i = e
    <3>1. pos[c] + Capacity \in Nat /\ Elem(pos[c] + Capacity) = e
      BY <1>1, NextLap
    <3>2. FreeAt(i, pos[c] + Capacity)'
      BY <1>1, <1>2, <1>3, <1>5, <2>1, <3>1 DEF FreeAt, Elem
    <3> QED
      BY <1>2, <3>1, <3>2 DEF ElemPhase
  <2>2. CASE i # e
    BY <1>2, <1>5, <1>8, <2>2 DEF FileInv, ElemPhase, FreeAt, FullAt, Elem
  <2> QED
    BY <2>1, <2>2
<1>9. ASSUME NEW q \in Producers
      PROVE  PosterOK(q)'
  <2>1. q \in Threads /\ q # c
    BY MemQueueAssumption DEF Threads
  <2>2. pc'[q] = pc[q] /\ arg'[q] = arg[q] /\ pos'[q] = pos[q] /\ PosterOK(q)
    BY <1>2, <1>6, <2>1 DEF FileInv
  <2>3. Claimed(q) => seq'[Elem(pos[q])] = seq[Elem(pos[q])]
    BY <1>1, <1>4, <1>5, <2>1
  <2>4. seq'[Elem(pos[q])] >= seq[Elem(pos[q])] /\ seq'[Elem(pos[q])] \in Nat
        /\ seq[Elem(pos[q])] \in Nat /\ pos[q] \in Nat
    BY <1>1, <1>2, <1>5, <2>1
  <2> QED
    BY <1>2, <2>2, <2>3, <2>4 DEF PosterOK, Claimed, Elem
<1>10. ASSUME NEW d \in Consumers
       PROVE  FetcherOK(d)'
  <2>1. d \in Threads
    BY DEF Threads
  <2>2. CASE d = c
    BY <1>2, <2>2 DEF FetcherOK, Claimed, Threads
  <2>3. CASE d # c
    <3>1. pc'[d] = pc[d] /\ arg'[d] = arg[d] /\ pos'[d] = pos[d] /\ FetcherOK(d)
      BY <1>2, <1>6, <2>1, <2>3 DEF FileInv
    <3>2. Claimed(d) => seq'[Elem(pos[d])] = seq[Elem(pos[d])]
      BY <1>1, <1>4, <1>5, <2>1, <2>3
    <3>3. seq'[Elem(pos[d])] >= seq[Elem(pos[d])] /\ seq'[Elem(pos[d])] \in Nat
          /\ seq[Elem(pos[d])] \in Nat /\ pos[d] \in Nat
      BY <1>1, <1>2, <1>5, <2>1
    <3> QED
      BY <1>2, <3>1, <3>2, <3>3 DEF FetcherOK, Claimed, Elem
  <2> QED
    BY <2>2, <2>3
<1>11. ClaimsDiffer'
  BY <1>2 DEF FileInv, ClaimsDiffer, Claimed, Threads
<1>12. ASSUME NEW m \in posted, m[1] >= rpos
       PROVE  seq'[Elem(m[1])] = m[1] + 1 /\ val'[Elem(m[1])] = m[2]
  <2>1. m[1] \in Nat /\ Elem(m[1]) \in Elems
    BY <1>12, ElemType
  <2>2. seq[Elem(m[1])] = m[1] + 1 /\ val[Elem(m[1])] = m[2]
    BY <1>12 DEF FileInv, NothingIsLost
  <2>3. Elem(m[1]) # e
    BY <1>1, <1>3, <1>12, <2>1, <2>2
  <2> QED
    BY <1>2, <1>5, <2>1, <2>2, <2>3
<1>13. NothingIsLost'
  BY <1>2, <1>12 DEF NothingIsLost, Elem
<1> QED
  BY <1>7, <1>8, <1>9, <1>10, <1>11, <1>13 DEF FileInv

PostedOK == \A m \in posted : m[1] \in Nat

\* A step that ends no call of post posts nothing.
LEMMA NothingPosted ==
    ASSUME Run, \A p \in Producers : ~(pc[p] = "commit" /\ pc'[p] = "idle")
    PROVE  posted' = posted
  BY DEF Run

\* Steps of post, alive or dead as the other threads may be.
LEMMA PostFile ==
    ASSUME TypeOK, FileInv, PostedOK, Run, NEW p \in Producers,
           PostSteps(p) \/ \E msg \in Msgs : Post(p, msg)
    PROVE  FileInv' /\ PostedOK'
<1>1. /\ p \in Threads /\ pos[p] \in Nat /\ Elem(pos[p]) \in Elems
      /\ rpos \in Nat /\ wpos \in Nat /\ seq \in [Elems -> Nat]
      /\ pc \in [Threads -> Labels] /\ pos \in [Threads -> Nat]
      /\ arg \in [Threads -> Msgs \union {NoMsg}]
      /\ val \in [Elems -> Msgs \union {NoMsg}]
      /\ Producers \cap Consumers = {}
      /\ \A t \in Threads : pos[t] \in Nat /\ Elem(pos[t]) \in Elems
      /\ \A q \in Producers : PosterOK(q)
      /\ \A c \in Consumers : FetcherOK(c)
  BY ElemType, MemQueueAssumption DEF TypeOK, Threads, FileInv
<1>2. ASSUME NEW msg \in Msgs, Post(p, msg)
      PROVE  FileInv' /\ PostedOK'
  <2>1. posted' = posted
    BY <1>1, <1>2, NothingPosted DEF Post, Goto, Threads
  <2> QED
    BY <1>1, <1>2, <2>1, QuietFile
       DEF Post, Goto, PosterOK, FetcherOK, Claimed, Elem, Threads, PostedOK
<1>3. CASE PostLoad(p)
  <2>1. posted' = posted
    BY <1>1, <1>3, NothingPosted DEF PostLoad, Goto, Threads
  <2> QED
    BY <1>1, <1>3, <2>1, QuietFile
       DEF PostLoad, Goto, PosterOK, FetcherOK, Claimed, Elem, Threads, PostedOK
<1>4. CASE PostAgain(p) \/ PostLose(p)
  <2>1. posted' = posted
    BY <1>1, <1>4, NothingPosted DEF PostAgain, PostLose, Goto, Threads
  <2> QED
    BY <1>1, <1>4, <2>1, QuietFile
       DEF PostAgain, PostLose, Goto, PosterOK, FetcherOK, Claimed, Elem, Threads,
           PostedOK
<1>5. CASE PostClaim(p)
  <2>1. posted' = posted
    BY <1>1, <1>5, NothingPosted DEF PostClaim, Goto, Threads
  <2> QED
    BY <1>5, <2>1, PostClaimFile DEF PostedOK
<1>6. CASE PostAccess(p)
  <2>1. posted' = posted
    BY <1>1, <1>6, NothingPosted DEF PostAccess, Goto, Threads
  <2> QED
    BY <1>6, <2>1, PostAccessFile DEF PostedOK
<1>7. CASE PostCommit(p)
  <2>1. \A q \in Producers : pc[q] = "commit" /\ pc'[q] = "idle" <=> q = p
    BY <1>1, <1>7 DEF PostCommit, Goto, Threads
  <2>2. posted' = posted \union {<<pos[p], arg[p]>>}
    BY <2>1 DEF Run
  <2> QED
    BY <1>1, <1>7, <2>2, PostCommitFile DEF PostedOK
<1> QED
  BY <1>2, <1>3, <1>4, <1>5, <1>6, <1>7 DEF PostSteps

\* Steps of fetch.
LEMMA FetchFile ==
    ASSUME TypeOK, FileInv, PostedOK, Run, NEW c \in Consumers, FetchSteps(c)
    PROVE  FileInv' /\ PostedOK'
<1>1. /\ c \in Threads /\ pos[c] \in Nat /\ Elem(pos[c]) \in Elems
      /\ rpos \in Nat /\ wpos \in Nat /\ seq \in [Elems -> Nat]
      /\ pc \in [Threads -> Labels] /\ pos \in [Threads -> Nat]
      /\ arg \in [Threads -> Msgs \union {NoMsg}]
      /\ c \notin Producers
      /\ \A t \in Threads : pos[t] \in Nat /\ Elem(pos[t]) \in Elems
      /\ \A q \in Producers : PosterOK(q)
      /\ \A d \in Consumers : FetcherOK(d)
  BY ElemType, MemQueueAssumption DEF TypeOK, Threads, FileInv
<1>2. \A t \in Threads \ {c} : pc'[t] = pc[t] /\ pos'[t] = pos[t] /\ arg'[t] = arg[t]
  BY <1>1 DEF FetchSteps, Fetch, FetchLoad, FetchAgain, FetchClaim, FetchLose,
              FetchAccess, FetchCommit, Goto
<1>3. posted' = posted
  <2>1. \A p \in Producers : p \in Threads \ {c}
    BY <1>1 DEF Threads
  <2> QED
    BY <1>2, <2>1, NothingPosted
<1>4. PostedOK'
  BY <1>3 DEF PostedOK
<1>5. ASSUME UNCHANGED <<rpos, wpos, seq, val>>, FetcherOK(c)',
             Claimed(c)' => Claimed(c) /\ pos'[c] = pos[c]
      PROVE  FileInv'
  <2>1. ASSUME NEW p \in Producers
        PROVE  PosterOK(p)'
    <3>1. PosterOK(p) /\ p \in Threads \ {c}
      BY <1>1 DEF Threads
    <3> QED
      BY <1>2, <1>5, <3>1 DEF PosterOK, Claimed, Elem
  <2>2. ASSUME NEW d \in Consumers, d # c
        PROVE  FetcherOK(d)'
    <3>1. FetcherOK(d) /\ d \in Threads \ {c}
      BY <1>1, <2>2 DEF Threads
    <3> QED
      BY <1>2, <1>3, <1>5, <3>1 DEF FetcherOK, Claimed, Elem
  <2>3. \A t \in Threads : Claimed(t)' => Claimed(t) /\ pos'[t] = pos[t]
    BY <1>2, <1>5 DEF Claimed
  <2> QED
    BY <1>3, <1>5, <2>1, <2>2, <2>3, QuietFile
<1>6. ASSUME UNCHANGED <<rpos, wpos, seq, val>>, pc'[c] \in {"idle", "load", "again"}
      PROVE  FileInv'
  <2>1. FetcherOK(c)' /\ ~Claimed(c)'
    BY <1>6 DEF FetcherOK, Claimed
  <2> QED
    BY <1>5, <1>6, <2>1
<1>7. CASE Fetch(c) \/ FetchAgain(c) \/ FetchLose(c)
  BY <1>1, <1>4, <1>6, <1>7 DEF Fetch, FetchAgain, FetchLose, Goto
<1>8. CASE FetchLoad(c)
  <2>1. UNCHANGED <<rpos, wpos, seq, val, pos>>
    BY <1>8 DEF FetchLoad
  <2>2. CASE pc'[c] = "claim"
    <3>1. seq[Elem(pos[c])] - (pos[c] + 1) = 0
      BY <1>1, <1>8, <2>2 DEF FetchLoad, Goto
    <3>2. seq[Elem(pos[c])] > pos[c]
      BY <1>1, <3>1
    <3>3. seq'[Elem(pos'[c])] > pos'[c]
      BY <2>1, <3>2
    <3>4. FetcherOK(c)' /\ ~Claimed(c)'
      BY <2>2, <3>3 DEF FetcherOK, Claimed, Elem
    <3> QED
      BY <1>4, <1>5, <2>1, <3>4
  <2>3. CASE pc'[c] # "claim"
    BY <1>1, <1>4, <1>6, <1>8, <2>1, <2>3 DEF FetchLoad, Goto
  <2> QED
    BY <2>2, <2>3
<1>9. CASE FetchAccess(c)
  <2>1. <<pos[c], val[Elem(pos[c])]>> \in posted /\ FetcherOK(c) /\ Claimed(c)
    BY <1>1, <1>9, ReadIsPosted DEF FetchAccess, Claimed
  <2>2. /\ UNCHANGED <<rpos, wpos, seq, val, pos>>
        /\ pc'[c] = "commit" /\ arg'[c] = val[Elem(pos[c])]
    BY <1>1, <1>9 DEF FetchAccess, Goto
  <2>3. pos[c] < rpos /\ seq[Elem(pos[c])] = pos[c] + 1
    BY <2>1 DEF FetcherOK
  <2>4. <<pos'[c], arg'[c]>> \in posted'
    BY <1>3, <2>1, <2>2
  <2>5. pos'[c] < rpos' /\ seq'[Elem(pos'[c])] = pos'[c] + 1
    BY <2>2, <2>3
  <2>6. FetcherOK(c)'
    BY <2>2, <2>4, <2>5 DEF FetcherOK, Claimed, Elem
  <2> QED
    BY <1>4, <1>5, <2>1, <2>2, <2>6
<1>10. CASE FetchClaim(c)
  BY <1>3, <1>4, <1>10, FetchClaimFile DEF PostedOK
<1>11. CASE FetchCommit(c)
  BY <1>3, <1>4, <1>11, FetchCommitFile DEF PostedOK
<1> QED
  BY <1>4, <1>7, <1>10, <1>11, <1>8, <1>9 DEF FetchSteps

FileKept == TypeOK /\ FileInv /\ PostedOK

\* A new file.
LEMMA FileInitKept ==
    ASSUME FileInit
    PROVE  FileKept
  BY FileInitInv, MemQueueAssumption
     DEF FileKept, FileInit, Init, TypeOK, Elems, Labels, PostedOK

\* Every step of a thread, and every death of the process.
LEMMA FileStepKept ==
    ASSUME FileKept, [FileNext]_fileVars
    PROVE  FileKept'
<1>1. CASE Run
  <2>1. TypeOK'
    BY <1>1, StepTypes DEF FileKept, Run
  <2> QED
    BY <1>1, <2>1, PostFile, FetchFile DEF FileKept, Run, Next
<1>2. CASE Crash
  <2>1. TypeOK'
    BY <1>2 DEF Crash, Reopen, FileKept, TypeOK, Labels
  <2>2. PostedOK'
    BY <1>2 DEF Crash, FileKept, PostedOK
  <2> QED
    BY <1>2, <2>1, <2>2, CrashFile DEF FileKept
<1>3. CASE UNCHANGED fileVars
  <2>1. TypeOK' /\ PostedOK'
    BY <1>3 DEF fileVars, vars, FileKept, TypeOK, PostedOK
  <2>2. FileInv'
    BY <1>3, QuietFile
       DEF fileVars, vars, FileKept, FileInv, PosterOK, FetcherOK, Claimed, Elem
  <2> QED
    BY <2>1, <2>2 DEF FileKept
<1> QED
  BY <1>1, <1>2, <1>3 DEF FileNext

\* What the invariant is for.
LEMMA FileKeptSays ==
    ASSUME FileKept
    PROVE  TypeOK /\ NothingIsLost /\ DeliversWhatWasPosted
  BY DEF FileKept, FileInv, FetcherOK, DeliversWhatWasPosted

\* The queue in a file keeps its invariant over any number of deaths of the
\* process, at any points of any calls, and however many elements the constructor
\* gave a sequence number (MemQueue(const char* path)).
THEOREM FileKeptAlways == FileSpec => []FileKept
<1>1. FileInit => FileKept
  BY FileInitKept
<1>2. FileKept /\ [FileNext]_fileVars => FileKept'
  BY FileStepKept
<1> QED
  BY <1>1, <1>2, PTL DEF FileSpec

\* What was committed and not claimed by a consumer is in the file, whenever the
\* process died and however often.
THEOREM FileLosesNothing == FileSpec => []NothingIsLost
  BY FileKeptAlways, FileKeptSays, PTL

\* What fetch returns was committed at this very position, and is never what a dead
\* producer was writing.
THEOREM FileDelivers == FileSpec => []DeliversWhatWasPosted
  BY FileKeptAlways, FileKeptSays, PTL

\* Nor do the threads of one process race for what those of another left behind.
THEOREM FileAccessesAreExclusive == FileSpec => []NoRace
<1>1. FileKept => NoRace
  BY ClaimsOfElem DEF FileKept, NoRace
<1> QED
  BY <1>1, FileKeptAlways, PTL

-----------------------------------------------------------------------------
(* Batches of messages. *)

\* The messages that the elements of a queue hold, with their positions.
Stored(w, s, v) ==
    {<<q, v[Elem(q)]>> : q \in {p \in 0..w - 1 : s[Elem(p)] = p + 1}}

\* What is on the queue is what its elements hold below the position of post.
LEMMA CommittedIs == Committed = got \union Stored(wpos, seq, val)
  BY DEF Committed, Stored

\* A position is stored or it is not: what changes at other positions does not
\* matter.
LEMMA SameStored ==
    ASSUME NEW w, NEW s, NEW v, NEW w2, NEW s2, NEW v2,
           \A q \in Int :
                /\ q \in 0..w - 1 /\ s[Elem(q)] = q + 1 <=>
                    q \in 0..w2 - 1 /\ s2[Elem(q)] = q + 1
                /\ q \in 0..w - 1 /\ s[Elem(q)] = q + 1 => v2[Elem(q)] = v[Elem(q)]
    PROVE  Stored(w2, s2, v2) = Stored(w, s, v)
<1> DEFINE P == {p \in 0..w - 1 : s[Elem(p)] = p + 1}
           Q == {p \in 0..w2 - 1 : s2[Elem(p)] = p + 1}
<1>1. P = Q /\ \A q \in P : v2[Elem(q)] = v[Elem(q)]
  OBVIOUS
<1> QED
  BY <1>1 DEF Stored

\* A position that is claimed by post holds nothing yet.
LEMMA ClaimStored ==
    ASSUME TypeOK, Inv, NEW p \in Producers, PostClaim(p)
    PROVE  Stored(wpos, seq, val)' = Stored(wpos, seq, val)
<1>1. /\ wpos \in Nat /\ wpos' = wpos + 1 /\ seq' = seq /\ val' = val
      /\ pc[p] = "claim" /\ wpos = pos[p]
  BY DEF PostClaim, TypeOK
<1>2. seq[Elem(wpos)] = wpos
  BY <1>1, ClaimedElemIsFree
<1>3. \A q \in Int :
        q \in 0..wpos - 1 /\ seq[Elem(q)] = q + 1 <=>
            q \in 0..wpos' - 1 /\ seq'[Elem(q)] = q + 1
  BY <1>1, <1>2
<1>4. Stored(wpos', seq', val') = Stored(wpos, seq, val)
  BY <1>1, <1>3, SameStored
<1> QED
  BY <1>4 DEF Stored, Elem

\* A value is written where nothing is stored.
LEMMA AccessStored ==
    ASSUME TypeOK, Inv, NEW p \in Producers, PostAccess(p)
    PROVE  Stored(wpos, seq, val)' = Stored(wpos, seq, val)
<1> DEFINE e == Elem(pos[p])
<1>1. /\ wpos \in Nat /\ wpos' = wpos /\ seq' = seq /\ pos[p] \in Nat
      /\ val \in [Elems -> Msgs \union {NoMsg}] /\ val' = [val EXCEPT ![e] = arg[p]]
  BY DEF PostAccess, TypeOK, Threads
<1>2. seq[e] = pos[p]
  BY DEF PostAccess, Inv, ProducersOK, Claimed
<1>3. ASSUME NEW q \in Int, q \in 0..wpos - 1, seq[Elem(q)] = q + 1
      PROVE  val'[Elem(q)] = val[Elem(q)]
  <2>1. q \in Nat /\ Elem(q) \in Elems
    BY <1>1, <1>3, ElemType
  <2>2. Elem(q) # e
    <3>1. SUFFICES ASSUME Elem(q) = e
                   PROVE  FALSE
      OBVIOUS
    <3>2. pos[p] = q + 1
      BY <1>2, <1>3, <3>1
    <3> QED
      BY <2>1, <3>1, <3>2, NextElem
  <2> QED
    BY <1>1, <2>1, <2>2
<1>4. \A q \in Int :
        /\ q \in 0..wpos - 1 /\ seq[Elem(q)] = q + 1 <=>
            q \in 0..wpos' - 1 /\ seq'[Elem(q)] = q + 1
        /\ q \in 0..wpos - 1 /\ seq[Elem(q)] = q + 1 => val'[Elem(q)] = val[Elem(q)]
  BY <1>1, <1>3
<1>5. Stored(wpos', seq', val') = Stored(wpos, seq, val)
  BY <1>4, SameStored
<1> QED
  BY <1>5 DEF Stored, Elem

\* The store with which post marks its element as full puts its message on the
\* queue.
LEMMA CommitStored ==
    ASSUME TypeOK, Inv, NEW p \in Producers, PostCommit(p), val[Elem(pos[p])] = arg[p]
    PROVE  Stored(wpos, seq, val)' =
            Stored(wpos, seq, val) \union {<<pos[p], arg[p]>>}
<1> DEFINE e == Elem(pos[p])
<1>1. /\ wpos \in Nat /\ wpos' = wpos /\ val' = val /\ pos[p] \in Nat /\ pos[p] < wpos
      /\ e \in Elems /\ seq \in [Elems -> Nat] /\ seq' = [seq EXCEPT ![e] = pos[p] + 1]
      /\ seq[e] = pos[p]
  BY ElemType DEF PostCommit, TypeOK, Threads, Inv, ProducersOK, Claimed
<1> DEFINE P == {q \in 0..wpos - 1 : seq[Elem(q)] = q + 1}
           Q == {q \in 0..wpos - 1 : seq'[Elem(q)] = q + 1}
<1>2. ASSUME NEW q \in 0..wpos - 1
      PROVE  q \in Q <=> q \in P \/ q = pos[p]
  <2>1. q \in Nat /\ Elem(q) \in Elems
    BY <1>1, ElemType
  <2>2. CASE Elem(q) # e
    BY <1>1, <2>1, <2>2
  <2>3. CASE Elem(q) = e
    <3>1. q \in Q <=> q = pos[p]
      BY <1>1, <2>1, <2>3
    <3>2. q \notin P
      <4>1. SUFFICES ASSUME q \in P
                     PROVE  FALSE
        OBVIOUS
      <4>2. pos[p] = q + 1
        BY <1>1, <2>3, <4>1
      <4> QED
        BY <2>1, <2>3, <4>2, NextElem
    <3> QED
      BY <3>1, <3>2
  <2> QED
    BY <2>2, <2>3
<1>3. Q = P \union {pos[p]}
  BY <1>1, <1>2
<1> HIDE DEF P, Q
<1>4. {<<q, val[Elem(q)]>> : q \in Q} =
        {<<q, val[Elem(q)]>> : q \in P} \union {<<pos[p], arg[p]>>}
  BY <1>3
<1>5. Stored(wpos', seq', val') =  Stored(wpos, seq, val) \union {<<pos[p], arg[p]>>}
  BY <1>1, <1>4 DEF Stored, P, Q
<1> QED
  BY <1>5 DEF Stored, Elem

\* The store with which fetch frees its element takes its message off the queue,
\* and no other.
LEMMA FetchStored ==
    ASSUME TypeOK, Inv, NEW c \in Consumers, FetchCommit(c)
    PROVE  Stored(wpos, seq, val) =
            Stored(wpos, seq, val)' \union {<<pos[c], val[Elem(pos[c])]>>}
<1> DEFINE e == Elem(pos[c])
<1>1. /\ wpos \in Nat /\ rpos \in Nat /\ wpos' = wpos /\ val' = val
      /\ pos[c] \in Nat /\ pos[c] < rpos
      /\ e \in Elems /\ seq \in [Elems -> Nat] /\ seq' = [seq EXCEPT ![e] = pos[c] + Capacity]
      /\ seq[e] = pos[c] + 1
      /\ Capacity \in Nat /\ Capacity >= 2
      /\ wpos - rpos \in 0..Capacity
  BY ElemType, MemQueueAssumption
     DEF FetchCommit, TypeOK, Threads, Inv, ConsumersOK, PositionsOK, Claimed
<1> DEFINE P == {q \in 0..wpos - 1 : seq[Elem(q)] = q + 1}
           Q == {q \in 0..wpos - 1 : seq'[Elem(q)] = q + 1}
<1>2. ASSUME NEW q \in 0..wpos - 1
      PROVE  q \in P <=> q \in Q \/ q = pos[c]
  <2>1. q \in Nat /\ Elem(q) \in Elems
    BY <1>1, ElemType
  <2>2. CASE Elem(q) # e
    BY <1>1, <2>1, <2>2
  <2>3. CASE Elem(q) = e
    <3>1. q \in P <=> q = pos[c]
      BY <1>1, <2>1, <2>3
    <3>2. q \notin Q
      <4>1. SUFFICES ASSUME q \in Q
                     PROVE  FALSE
        OBVIOUS
      <4>2. q + 1 = pos[c] + Capacity
        BY <1>1, <2>3, <4>1
      <4>3. Elem(pos[c] + Capacity) = e /\ pos[c] + Capacity = q + 1
        BY <1>1, <4>2, NextLap
      <4> QED
        BY <2>1, <2>3, <4>3, NextElem
    <3> QED
      BY <3>1, <3>2
  <2> QED
    BY <2>2, <2>3
<1>3. P = Q \union {pos[c]}
  BY <1>1, <1>2
<1> HIDE DEF P, Q
<1>4. {<<q, val[Elem(q)]>> : q \in P} =
        {<<q, val[Elem(q)]>> : q \in Q} \union {<<pos[c], val[e]>>}
  BY <1>3
<1>5. Stored(wpos, seq, val) =  Stored(wpos', seq', val') \union {<<pos[c], val[e]>>}
  BY <1>1, <1>4 DEF Stored, P, Q
<1> QED
  BY <1>5 DEF Stored, Elem

-----------------------------------------------------------------------------
(* Batches: the part of them that was posted. *)

BatchRecords ==
    [size : 1..MaxItems, step : Nat \ {0}, offset : Nat,
     res : {"running", "ok", "cut", "refused"}]

\* A batch as archive_trade and create_exec leave it at any point of their loops.
BatchOK(b) ==
    /\ b \in BatchRecords
    /\ b.offset =< b.size
    /\ b.res = "running" => b.offset < b.size
    /\ b.res = "ok" => b.offset = b.size
    /\ b.res = "refused" => b.offset = 0

BatchesOK(bs) ==
    /\ bs \in Seq(BatchRecords) /\ Len(bs) =< MaxBatches
    /\ \A i \in DOMAIN bs : BatchOK(bs[i]) /\ (bs[i].res = "running" => i = Len(bs))

Active(bs) == bs # <<>> /\ Last(bs).res = "running"

\* What the next step of the last batch posts.
Message(bs) ==
    [batch |-> Len(bs), first |-> Last(bs).offset + 1,
     last |-> Last(bs).offset + StepSize(Last(bs))]

\* The batch after this step.
Stepped(b) ==
    [b EXCEPT !.offset = b.offset + StepSize(b),
              !.res = IF b.offset + StepSize(b) >= b.size THEN "ok" ELSE "running"]

\* Each batch has left the items that were posted of it, each in one message.
Accounts(C, bs) ==
    /\ \A m \in C : m[2] \in Msgs /\ m[2].batch \in DOMAIN bs
    /\ \A i \in DOMAIN bs, x \in Int :
        x \in 1..bs[i].offset <=> \E m \in C : m[2].batch = i /\ x \in Items(m[2])
    /\ \A m, n \in C :
        m # n /\ m[2].batch = n[2].batch => Items(m[2]) \cap Items(n[2]) = {}

HasRoom(bs, n) == Active(bs) => Steps(Last(bs)) =< n

LastCut(bs) ==
    (\A c, d \in Consumers : c = d) =>
        \A i \in DOMAIN bs : bs[i].res = "cut" => Steps(bs[i]) = 1

\* Division is unique.
LEMMA DivUnique ==
    ASSUME NEW n \in Nat, n > 0, NEW k \in Nat, NEW j \in 0..n - 1,
           NEW q \in Nat, q = n * k + j
    PROVE  q \div n = k
<1> DEFINE d == q \div n
<1>1. d \in Nat /\ q % n \in 0..(n - 1) /\ q = n * d + (q % n)
  BY DivMod
<1>2. n * d \in Nat /\ n * k \in Nat
  BY <1>1
<1>3. d < k => n * k >= n * d + n
  BY <1>1, Apart
<1>4. k < d => n * d >= n * k + n
  BY <1>1, Apart
<1>5. ~(d < k)
  BY <1>1, <1>2, <1>3
<1>6. ~(k < d)
  BY <1>1, <1>2, <1>4
<1> QED
  BY <1>1, <1>5, <1>6

\* The number of messages that so many items take (Range::steps).
LEMMA StepsOf ==
    ASSUME NEW n \in Nat, n > 0, NEW r \in Nat, r > 0
    PROVE  /\ (r + n - 1) \div n \in Nat
           /\ (r + n - 1) \div n >= 1
           /\ r =< n => (r + n - 1) \div n = 1
           /\ r > n => ((r - n) + n - 1) \div n = (r + n - 1) \div n - 1
<1> DEFINE q == r + n - 1
           d == q \div n
<1>1. q \in Nat /\ q >= n
  OBVIOUS
<1>2. d \in Nat /\ q % n \in 0..(n - 1) /\ q = n * d + (q % n)
  BY <1>1, DivMod
<1>3. d # 0
  <2>1. n * 0 = 0
    OBVIOUS
  <2> QED
    BY <1>1, <1>2, <2>1
<1>4. d >= 1 /\ n * d = n * (d - 1) + n
  BY <1>2, <1>3
<1>5. ASSUME r =< n
      PROVE  d = 1
  <2>1. q = n * 1 + (r - 1) /\ r - 1 \in 0..n - 1
    BY <1>5
  <2> QED
    BY <1>1, <2>1, DivUnique
<1>6. ASSUME r > n
      PROVE  ((r - n) + n - 1) \div n = d - 1
  <2>1. (r - n) + n - 1 = q - n /\ q - n \in Nat
    BY <1>6
  <2>2. q - n = n * (d - 1) + (q % n) /\ d - 1 \in Nat /\ n * (d - 1) \in Nat
    BY <1>2, <1>4
  <2>3. (q - n) \div n = d - 1
    BY <1>2, <2>1, <2>2, DivUnique
  <2> QED
    BY <2>1, <2>3
<1> HIDE DEF d
<1>7. d \in Nat
  BY <1>2
<1> QED
  BY <1>4, <1>5, <1>6, <1>7 DEF d

\* A running batch has a step to take; it is the last one or the next batch has one
\* less.
LEMMA StepsLeft ==
    ASSUME NEW b, BatchOK(b), b.res = "running"
    PROVE  /\ StepSize(b) \in Nat /\ StepSize(b) >= 1
           /\ b.offset + StepSize(b) =< b.size
           /\ Steps(b) \in Nat /\ Steps(b) >= 1
           /\ b.offset + StepSize(b) < b.size => Steps(Stepped(b)) = Steps(b) - 1
<1> DEFINE r == b.size - b.offset
           n == b.step
<1>1. /\ b.size \in Nat /\ b.offset \in Nat /\ n \in Nat /\ n > 0 /\ b.offset < b.size
      /\ b \in BatchRecords
  BY DEF BatchOK, BatchRecords
<1>2. r \in Nat /\ r > 0 /\ b.offset + r = b.size
  BY <1>1
<1>3. Steps(b) = (r + n - 1) \div n /\ StepSize(b) = IF r < n THEN r ELSE n
  BY DEF Steps, StepSize
<1>4. /\ StepSize(b) \in Nat /\ StepSize(b) >= 1
      /\ b.offset + StepSize(b) =< b.size
  BY <1>1, <1>2, <1>3
<1>5. /\ Steps(b) \in Nat /\ Steps(b) >= 1
  BY <1>1, <1>2, <1>3, StepsOf
<1>6. ASSUME b.offset + StepSize(b) < b.size
      PROVE  Steps(Stepped(b)) = Steps(b) - 1
  <2>1. StepSize(b) = n /\ r > n
    BY <1>1, <1>2, <1>3, <1>6
  <2>2. /\ Stepped(b).size = b.size /\ Stepped(b).step = n
        /\ Stepped(b).offset = b.offset + n
    BY <1>1, <2>1 DEF Stepped, BatchRecords
  <2>3. Steps(Stepped(b)) = (b.size - (b.offset + n) + n - 1) \div n
    BY <2>2 DEF Steps
  <2>4. b.size - (b.offset + n) = r - n
    BY <1>1
  <2> QED
    BY <1>1, <1>2, <1>3, <2>1, <2>3, <2>4, StepsOf
<1> QED
  BY <1>4, <1>5, <1>6

\* The batch after a step is one of these again.
LEMMA SteppedOK ==
    ASSUME NEW b, BatchOK(b), b.res = "running"
    PROVE  /\ BatchOK(Stepped(b))
           /\ Stepped(b).offset = b.offset + StepSize(b)
           /\ Stepped(b).res \in {"running", "ok"}
<1>1. /\ b \in BatchRecords /\ b.size \in Nat /\ b.offset \in Nat
      /\ StepSize(b) \in Nat /\ b.offset + StepSize(b) =< b.size
  BY StepsLeft DEF BatchOK, BatchRecords
<1>2. /\ Stepped(b).size = b.size
      /\ Stepped(b).offset = b.offset + StepSize(b)
      /\ Stepped(b).res = IF b.offset + StepSize(b) >= b.size THEN "ok" ELSE "running"
  BY <1>1 DEF Stepped, BatchRecords
<1>3. Stepped(b) \in BatchRecords
  <2>1. /\ b.offset + StepSize(b) \in Nat
        /\ (IF b.offset + StepSize(b) >= b.size THEN "ok" ELSE "running") \in
            {"running", "ok", "cut", "refused"}
    BY <1>1
  <2> QED
    BY <1>1, <2>1 DEF Stepped, BatchRecords
<1> QED
  BY <1>1, <1>2, <1>3 DEF BatchOK

\* The message of a step is one that the queue carries.
LEMMA MessageOK ==
    ASSUME MsgBatchAssumption, NEW bs, BatchesOK(bs), Active(bs)
    PROVE  Message(bs) \in Msgs
<1>1. Len(bs) \in DOMAIN bs /\ Len(bs) \in 1..MaxBatches
  BY DEF BatchesOK, Active, MsgBatchAssumption
<1>2. BatchOK(Last(bs)) /\ Last(bs).res = "running"
  BY <1>1 DEF BatchesOK, Active, Last
<1>3. /\ Last(bs).size \in 1..MaxItems /\ Last(bs).offset \in Nat
      /\ StepSize(Last(bs)) \in Nat /\ StepSize(Last(bs)) >= 1
      /\ Last(bs).offset + StepSize(Last(bs)) =< Last(bs).size
  BY <1>2, StepsLeft DEF BatchOK, BatchRecords
<1>4. /\ Last(bs).offset + 1 \in 1..MaxItems
      /\ Last(bs).offset + StepSize(Last(bs)) \in 1..MaxItems
  BY <1>3 DEF MsgBatchAssumption
<1> QED
  BY <1>1, <1>4 DEF Message, MsgBatchAssumption

\* A sequence of batches whose last is replaced.
LEMMA ReplaceLast ==
    ASSUME NEW bs, BatchesOK(bs), Active(bs), NEW b, BatchOK(b)
    PROVE  LET n == Len(bs)
               new == [bs EXCEPT ![n] = b]
           IN  /\ BatchesOK(new)
               /\ Len(new) = n /\ DOMAIN new = DOMAIN bs /\ n \in DOMAIN bs
               /\ new # <<>> /\ Last(new) = b
               /\ \A i \in DOMAIN bs : new[i] = IF i = n THEN b ELSE bs[i]
<1> DEFINE n == Len(bs)
           new == [bs EXCEPT ![n] = b]
<1>1. bs \in Seq(BatchRecords) /\ b \in BatchRecords /\ n \in Nat /\ n > 0
  BY DEF BatchesOK, BatchOK, Active
<1>2. n \in DOMAIN bs /\ DOMAIN bs = 1..n
  BY <1>1
<1>3. new \in Seq(BatchRecords) /\ Len(new) = n /\ DOMAIN new = DOMAIN bs
  BY <1>1, <1>2
<1>4. \A i \in DOMAIN bs : new[i] = IF i = n THEN b ELSE bs[i]
  BY <1>1, <1>2
<1>5. new # <<>> /\ Last(new) = b
  BY <1>2, <1>3, <1>4 DEF Last
<1>6. BatchesOK(new)
  BY <1>2, <1>3, <1>4 DEF BatchesOK
<1> QED
  BY <1>2, <1>3, <1>4, <1>5, <1>6

\* A new batch has left nothing.
LEMMA AppendBatch ==
    ASSUME NEW bs, BatchesOK(bs), ~Active(bs), Len(bs) < MaxBatches, MaxBatches \in Nat,
           NEW b, BatchOK(b), b.offset = 0, b.res \in {"running", "refused"},
           NEW C, Accounts(C, bs), LastCut(bs)
    PROVE  LET new == Append(bs, b)
           IN  /\ BatchesOK(new) /\ Accounts(C, new) /\ LastCut(new)
               /\ Last(new) = b
<1> DEFINE n == Len(bs)
           new == Append(bs, b)
<1>1. /\ bs \in Seq(BatchRecords) /\ b \in BatchRecords /\ n \in Nat
      /\ DOMAIN bs = 1..n
  BY DEF BatchesOK, BatchOK
<1>2. /\ new \in Seq(BatchRecords) /\ Len(new) = n + 1 /\ DOMAIN new = 1..(n + 1)
      /\ new[n + 1] = b /\ \A i \in 1..n : new[i] = bs[i]
  BY <1>1
<1>3. ASSUME NEW i \in DOMAIN bs
      PROVE  BatchOK(bs[i]) /\ bs[i].res # "running"
  <2>1. BatchOK(bs[i]) /\ (bs[i].res = "running" => i = n)
    BY <1>3 DEF BatchesOK
  <2>2. bs # <<>>
    BY <1>1, <1>3
  <2> QED
    BY <2>1, <2>2 DEF Active, Last
<1>4. BatchesOK(new)
  <2>1. ASSUME NEW i \in DOMAIN new
        PROVE  BatchOK(new[i]) /\ (new[i].res = "running" => i = Len(new))
    BY <1>1, <1>2, <1>3
  <2> QED
    BY <1>1, <1>2, <2>1 DEF BatchesOK
<1>5. Last(new) = b
  BY <1>2 DEF Last
<1>6. Accounts(C, new)
  <2>1. \A m \in C : m[2] \in Msgs /\ m[2].batch \in 1..n /\ m[2].batch \in DOMAIN new
    BY <1>1, <1>2 DEF Accounts
  <2>2. ASSUME NEW i \in DOMAIN new, NEW x \in Int
        PROVE  x \in 1..new[i].offset <=> \E m \in C : m[2].batch = i /\ x \in Items(m[2])
    <3>1. CASE i = n + 1
      <4>1. new[i].offset = 0
        BY <1>2, <3>1
      <4>2. ~ \E m \in C : m[2].batch = i
        BY <1>1, <2>1, <3>1
      <4> QED
        BY <4>1, <4>2
    <3>2. CASE i # n + 1
      <4>1. i \in DOMAIN bs /\ new[i] = bs[i]
        BY <1>1, <1>2, <3>2
      <4> QED
        BY <4>1 DEF Accounts
    <3> QED
      BY <3>1, <3>2
  <2>3. \A i \in DOMAIN new, x \in Int :
            x \in 1..new[i].offset <=> \E m \in C : m[2].batch = i /\ x \in Items(m[2])
    BY <2>2
  <2> HIDE DEF new
  <2> QED
    BY <2>1, <2>3 DEF Accounts
<1>7. LastCut(new)
  <2>1. ASSUME NEW i \in DOMAIN new, new[i].res = "cut"
        PROVE  i \in DOMAIN bs /\ new[i] = bs[i]
    BY <1>1, <1>2, <2>1
  <2> HIDE DEF new
  <2> QED
    BY <2>1 DEF LastCut
<1> QED
  BY <1>4, <1>5, <1>6, <1>7

\* A message that was posted takes the batch one step on.
LEMMA PostAccounts ==
    ASSUME MsgBatchAssumption, NEW bs, BatchesOK(bs), Active(bs), NEW C, Accounts(C, bs), NEW q
    PROVE  Accounts(C \union {<<q, Message(bs)>>}, [bs EXCEPT ![Len(bs)] = Stepped(Last(bs))])
<1> DEFINE n == Len(bs)
           b == Last(bs)
           k == StepSize(b)
           msg == Message(bs)
           D == C \union {<<q, msg>>}
           new == [bs EXCEPT ![n] = Stepped(b)]
<1>1. n \in DOMAIN bs /\ b = bs[n] /\ BatchOK(b) /\ b.res = "running"
  <2>1. n \in DOMAIN bs
    BY DEF BatchesOK, Active
  <2> QED
    BY <2>1 DEF BatchesOK, Active, Last
<1>2. /\ k \in Nat /\ k >= 1 /\ b.offset \in Nat
      /\ BatchOK(Stepped(b)) /\ Stepped(b).offset = b.offset + k
  BY <1>1, StepsLeft, SteppedOK DEF BatchOK, BatchRecords
<1>3. DOMAIN new = DOMAIN bs /\ \A i \in DOMAIN bs : new[i] = IF i = n THEN Stepped(b) ELSE bs[i]
  BY <1>1, <1>2, ReplaceLast
<1>4. /\ msg \in Msgs /\ msg.batch = n
      /\ \A x \in Int : x \in Items(msg) <=> x \in (b.offset + 1)..(b.offset + k)
      /\ Items(msg) \subseteq Int
  BY MessageOK DEF Message, Items
<1>5. \A m \in D : m \in C \/ m = <<q, msg>>
  OBVIOUS
<1> HIDE DEF n, b, k, msg, new
<1>6. \A m \in D : m[2] \in Msgs /\ m[2].batch \in DOMAIN new
  BY <1>1, <1>3, <1>4, <1>5 DEF Accounts
<1>7. ASSUME NEW m \in C, m[2].batch = n
      PROVE  Items(m[2]) \cap Items(msg) = {}
  <2>1. ASSUME NEW x \in Items(m[2]), x \in Items(msg)
        PROVE  FALSE
    <3>1. x \in Int
      BY <1>4, <2>1
    <3>2. x \in 1..b.offset
      BY <1>1, <1>7, <2>1, <3>1 DEF Accounts
    <3> QED
      BY <1>2, <1>4, <2>1, <3>1, <3>2
  <2> QED
    BY <2>1
<1>8. ASSUME NEW i \in DOMAIN new, NEW x \in Int
      PROVE  x \in 1..new[i].offset <=> \E m \in D : m[2].batch = i /\ x \in Items(m[2])
  <2>1. i \in DOMAIN bs
    BY <1>3
  <2>2. x \in 1..bs[i].offset <=> \E m \in C : m[2].batch = i /\ x \in Items(m[2])
    BY <2>1 DEF Accounts
  <2>3. (\E m \in D : m[2].batch = i /\ x \in Items(m[2])) <=>
            (\E m \in C : m[2].batch = i /\ x \in Items(m[2])) \/ (i = n /\ x \in Items(msg))
    <3>1. <<q, msg>> \in D /\ C \subseteq D /\ <<q, msg>>[2] = msg
      OBVIOUS
    <3> HIDE DEF D
    <3> QED
      BY <1>4, <1>5, <3>1
  <2>4. x \in 1..new[i].offset <=>
            x \in 1..bs[i].offset \/ (i = n /\ x \in (b.offset + 1)..(b.offset + k))
    <3>1. CASE i = n
      BY <1>1, <1>2, <1>3, <2>1, <3>1
    <3>2. CASE i # n
      BY <1>3, <2>1, <3>2
    <3> QED
      BY <3>1, <3>2
  <2> QED
    BY <1>4, <2>2, <2>3, <2>4
<1>9. ASSUME NEW l \in D, NEW m \in D, l # m, l[2].batch = m[2].batch
      PROVE  Items(l[2]) \cap Items(m[2]) = {}
  <2>1. CASE l \in C /\ m \in C
    BY <1>9, <2>1 DEF Accounts
  <2>2. CASE l \in C /\ m = <<q, msg>>
    BY <1>4, <1>7, <1>9, <2>2
  <2>3. CASE m \in C /\ l = <<q, msg>>
    BY <1>4, <1>7, <1>9, <2>3
  <2> QED
    BY <1>5, <1>9, <2>1, <2>2, <2>3
<1> HIDE DEF D
<1>10. Accounts(D, new)
  BY <1>6, <1>8, <1>9 DEF Accounts
<1> QED
  BY <1>10 DEF D, msg, new, n, b

-----------------------------------------------------------------------------
(* The invariant of the batches. *)

\* The room that the reactor may count on: what consumers took since only adds to it.
Room == IF Claimed(reactor) THEN reserve + 1 ELSE reserve

\* The call of post that is under way posts the next step of the running batch.
ReactorPosts ==
    /\ pc[reactor] # "idle" => Active(batches) /\ arg[reactor] = Message(batches)
    /\ pc[reactor] = "commit" => val[Elem(pos[reactor])] = arg[reactor]

ConsumersGot ==
    /\ \A c \in Consumers : pc[c] = "commit" => arg[c] = val[Elem(pos[c])]
    /\ \A m \in got : m[1] \in Nat /\ m[1] < rpos

\* A consumer that is alone has claimed the position before the next.
Alone ==
    (\A c, d \in Consumers : c = d) =>
        \A c \in Consumers : Claimed(c) => rpos = pos[c] + 1

BatchInv ==
    /\ BatchesOK(batches)
    /\ Accounts(Committed, batches)
    /\ LastCut(batches)
    /\ HasRoom(batches, Room)
    /\ ReactorPosts
    /\ ConsumersGot
    /\ Alone

\* Steps of one thread leave the others where they are.
LEMMA OtherThreads ==
    ASSUME TypeOK, NEW t \in Threads,
           \/ t \in Producers /\ (PostSteps(t) \/ \E msg \in Msgs : Post(t, msg))
           \/ t \in Consumers /\ FetchSteps(t),
           NEW s \in Threads, s # t
    PROVE  pc'[s] = pc[s] /\ pos'[s] = pos[s] /\ arg'[s] = arg[s]
<1>1. /\ pc \in [Threads -> Labels] /\ pos \in [Threads -> Nat]
      /\ arg \in [Threads -> Msgs \union {NoMsg}]
  BY DEF TypeOK
<1>2. CASE PostSteps(t)
  BY <1>1, <1>2 DEF PostSteps, PostLoad, PostAgain, PostClaim, PostLose, PostAccess,
                    PostCommit, Goto
<1>3. ASSUME NEW msg \in Msgs, Post(t, msg)
      PROVE  pc'[s] = pc[s] /\ pos'[s] = pos[s] /\ arg'[s] = arg[s]
  BY <1>1, <1>3 DEF Post, Goto
<1>4. CASE FetchSteps(t)
  BY <1>1, <1>4 DEF FetchSteps, Fetch, FetchLoad, FetchAgain, FetchClaim, FetchLose,
                    FetchAccess, FetchCommit, Goto
<1> QED
  BY <1>2, <1>3, <1>4

\* A step of a consumer: what is committed stays, and the room grows.
LEMMA FetchingStep ==
    ASSUME MsgBatchAssumption, TypeOK, Inv, BatchInv, NEW c \in Consumers, Fetching(c)
    PROVE  BatchInv'
<1>1. /\ c \in Threads /\ reactor \in Threads /\ reactor # c
      /\ pc \in [Threads -> Labels] /\ pos \in [Threads -> Nat]
      /\ arg \in [Threads -> Msgs \union {NoMsg}]
      /\ rpos \in Nat /\ wpos \in Nat /\ Capacity \in Nat
  BY MemQueueAssumption DEF MsgBatchAssumption, Threads, TypeOK
<1>2. /\ FetchSteps(c) /\ batches' = batches
      /\ got' = IF pc[c] = "commit" THEN got \union {<<pos[c], arg[c]>>} ELSE got
  BY DEF Fetching
<1>3. \A s \in Threads : s # c => pc'[s] = pc[s] /\ pos'[s] = pos[s] /\ arg'[s] = arg[s]
  BY <1>1, <1>2, OtherThreads
<1>4. wpos' = wpos /\ val' = val
  BY <1>2 DEF FetchSteps, Fetch, FetchLoad, FetchAgain, FetchClaim, FetchLose,
              FetchAccess, FetchCommit
<1>5. /\ (rpos' = rpos \/ rpos' = rpos + 1)
      /\ Claimed(c)' => \/ Claimed(c) /\ pos'[c] = pos[c] /\ rpos' = rpos
                        \/ pos'[c] = rpos /\ rpos' = rpos + 1
      /\ pc'[c] = "commit" => arg'[c] = val[Elem(pos[c])] /\ pos'[c] = pos[c]
  BY <1>1, <1>2 DEF FetchSteps, Fetch, FetchLoad, FetchAgain, FetchClaim, FetchLose,
              FetchAccess, FetchCommit, Goto, Claimed
<1>6. Committed' = Committed
  <2>1. CASE FetchCommit(c)
    <3>1. pc[c] = "commit" /\ arg[c] = val[Elem(pos[c])]
      BY <2>1 DEF FetchCommit, BatchInv, ConsumersGot
    <3>2. Stored(wpos, seq, val) =
            Stored(wpos, seq, val)' \union {<<pos[c], val[Elem(pos[c])]>>}
      BY <2>1, FetchStored
    <3>3. Committed = got \union Stored(wpos, seq, val)
      BY CommittedIs
    <3>4. Committed' = got' \union Stored(wpos, seq, val)'
      BY DEF Committed, Stored
    <3> QED
      BY <1>2, <3>1, <3>2, <3>3, <3>4
  <2>2. CASE ~FetchCommit(c)
    <3>1. pc[c] # "commit" /\ seq' = seq
      BY <1>2, <2>2 DEF FetchSteps, Fetch, FetchLoad, FetchAgain, FetchClaim, FetchLose,
              FetchAccess, FetchCommit
    <3>2. got' = got
      BY <1>2, <3>1
    <3> QED
      BY <1>4, <3>1, <3>2 DEF Committed, Elem
  <2> QED
    BY <2>1, <2>2
<1>7. BatchesOK(batches)'
  BY <1>2 DEF BatchInv, BatchesOK, BatchOK
<1>8. Accounts(Committed, batches)'
  <2>1. Accounts(Committed', batches')
    BY <1>2, <1>6 DEF BatchInv
  <2> QED
    BY <2>1 DEF Accounts, Items
<1>9. LastCut(batches)'
  BY <1>2 DEF BatchInv, LastCut, Steps
<1>10. HasRoom(batches, Room)'
  <2>1. Room' >= Room /\ Room' \in Int /\ Room \in Int
    BY <1>1, <1>3, <1>4, <1>5 DEF Room, reserve, Claimed
  <2>2. ASSUME Active(batches)
        PROVE  Steps(Last(batches)) =< Room'
    <3>1. BatchOK(Last(batches)) /\ Last(batches).res = "running"
      BY <2>2 DEF BatchInv, BatchesOK, Active, Last
    <3>2. Steps(Last(batches)) \in Nat
      BY <3>1, StepsLeft
    <3>3. Steps(Last(batches)) =< Room
      BY <2>2 DEF BatchInv, HasRoom
    <3> QED
      BY <2>1, <3>2, <3>3
  <2>3. HasRoom(batches', Room')
    BY <1>2, <2>2 DEF HasRoom
  <2> QED
    BY <2>3 DEF HasRoom, Active, Steps, Last
<1>11. ReactorPosts'
  <2>1. pc'[reactor] = pc[reactor] /\ pos'[reactor] = pos[reactor] /\ arg'[reactor] = arg[reactor]
    BY <1>1, <1>3
  <2> QED
    BY <1>2, <1>4, <2>1 DEF BatchInv, ReactorPosts, Active, Message, StepSize, Last, Elem
<1>12. ConsumersGot'
  <2>1. ASSUME NEW d \in Consumers, pc'[d] = "commit"
        PROVE  arg'[d] = val'[Elem(pos'[d])]
    <3>1. CASE d = c
      BY <1>4, <1>5, <2>1, <3>1
    <3>2. CASE d # c
      BY <1>3, <1>4, <2>1, <3>2 DEF BatchInv, ConsumersGot, Threads
    <3> QED
      BY <3>1, <3>2
  <2>2. ASSUME NEW m \in got'
        PROVE  m[1] \in Nat /\ m[1] < rpos'
    <3>1. m \in got => m[1] \in Nat /\ m[1] < rpos'
      <4>1. ASSUME m \in got
            PROVE  m[1] \in Nat /\ m[1] < rpos
        BY <4>1 DEF BatchInv, ConsumersGot
      <4> QED
        BY <1>1, <1>5, <4>1
    <3>2. ASSUME pc[c] = "commit"
          PROVE  pos[c] \in Nat /\ pos[c] < rpos'
      <4>1. pos[c] < rpos /\ pos[c] \in Nat
        BY <1>1, <3>2 DEF Inv, ConsumersOK, Claimed
      <4> QED
        BY <1>1, <1>5, <4>1
    <3> QED
      BY <1>2, <2>2, <3>1, <3>2
  <2> QED
    BY <2>1, <2>2 DEF ConsumersGot, Elem
<1>13. Alone'
  <2>1. ASSUME \A d, e \in Consumers : d = e, NEW d \in Consumers, Claimed(d)'
        PROVE  rpos' = pos'[d] + 1
    <3>1. d = c
      BY <2>1
    <3>2. CASE Claimed(c) /\ pos'[c] = pos[c] /\ rpos' = rpos
      BY <2>1, <3>1, <3>2 DEF BatchInv, Alone
    <3>3. CASE pos'[c] = rpos /\ rpos' = rpos + 1
      BY <3>1, <3>3
    <3> QED
      BY <1>5, <2>1, <3>1, <3>2, <3>3
  <2> QED
    BY <2>1 DEF Alone, Claimed
<1> QED
  BY <1>7, <1>8, <1>9, <1>10, <1>11, <1>12, <1>13 DEF BatchInv

\* Steps of the reactor leave the consumers as they are.
LEMMA ReactorAlone ==
    ASSUME MsgBatchAssumption, TypeOK, Inv, BatchInv,
           PostSteps(reactor) \/ \E msg \in Msgs : Post(reactor, msg), got' = got
    PROVE  ConsumersGot' /\ Alone'
<1>1. /\ reactor \in Threads /\ reactor \in Producers /\ reactor \notin Consumers
      /\ \A c \in Consumers : c \in Threads
      /\ pc \in [Threads -> Labels] /\ pos \in [Threads -> Nat]
      /\ val \in [Elems -> Msgs \union {NoMsg}]
  BY MemQueueAssumption DEF MsgBatchAssumption, Threads, TypeOK
<1>2. \A c \in Consumers : pc'[c] = pc[c] /\ pos'[c] = pos[c] /\ arg'[c] = arg[c]
  BY <1>1, OtherThreads
<1>3. rpos' = rpos
  BY DEF PostSteps, PostLoad, PostAgain, PostClaim, PostLose, PostAccess, PostCommit, Post
<1>4. ASSUME NEW c \in Consumers, pc[c] = "commit"
      PROVE  val'[Elem(pos[c])] = val[Elem(pos[c])]
  <2>1. CASE PostAccess(reactor)
    <3>1. Claimed(reactor) /\ Claimed(c)
      BY <1>4, <2>1 DEF PostAccess, Claimed
    <3>2. Elem(pos[c]) # Elem(pos[reactor]) /\ Elem(pos[c]) \in Elems
      BY <1>1, <3>1, OthersElems, ElemType
    <3> QED
      BY <1>1, <2>1, <3>2 DEF PostAccess
  <2>2. CASE ~PostAccess(reactor)
    BY <2>2 DEF PostSteps, PostLoad, PostAgain, PostClaim, PostLose, PostCommit, Post
  <2> QED
    BY <2>1, <2>2
<1>5. ConsumersGot'
  BY <1>2, <1>3, <1>4 DEF BatchInv, ConsumersGot, Elem
<1>6. Alone'
  BY <1>2, <1>3 DEF BatchInv, Alone, Claimed
<1> QED
  BY <1>5, <1>6

\* Batches and messages are what they were, and there is as much room.
LEMMA BatchesStay ==
    ASSUME MsgBatchAssumption, TypeOK, BatchInv, UNCHANGED batches,
           Committed' = Committed, Room \in Int, Room' \in Int, Room' >= Room,
           ReactorPosts', ConsumersGot', Alone'
    PROVE  BatchInv'
<1>1. BatchesOK(batches)'
  BY DEF BatchInv, BatchesOK, BatchOK
<1>2. Accounts(Committed, batches)'
  <2>1. Accounts(Committed', batches')
    BY DEF BatchInv
  <2> QED
    BY <2>1 DEF Accounts, Items
<1>3. LastCut(batches)'
  BY DEF BatchInv, LastCut, Steps
<1>4. HasRoom(batches, Room)'
  <2>1. ASSUME Active(batches)
        PROVE  Steps(Last(batches)) =< Room'
    <3>1. BatchOK(Last(batches)) /\ Last(batches).res = "running"
      BY <2>1 DEF BatchInv, BatchesOK, Active, Last
    <3>2. Steps(Last(batches)) \in Nat
      BY <3>1, StepsLeft
    <3>3. Steps(Last(batches)) =< Room
      BY <2>1 DEF BatchInv, HasRoom
    <3> QED
      BY <3>2, <3>3
  <2>2. HasRoom(batches', Room')
    BY <2>1 DEF HasRoom
  <2> QED
    BY <2>2 DEF HasRoom, Active, Steps, Last
<1> QED
  BY <1>1, <1>2, <1>3, <1>4 DEF BatchInv

\* archive_trade or create_exec begins.
LEMMA CallStep ==
    ASSUME MsgBatchAssumption, TypeOK, Inv, BatchInv,
           NEW size \in 1..MaxItems, NEW step \in {1, MaxIds}, Call(size, step)
    PROVE  BatchInv'
<1> DEFINE b == [size |-> size, step |-> step, offset |-> 0, res |-> "running"]
           new == IF reserve < Steps(b) THEN [b EXCEPT !.res = "refused"] ELSE b
<1>1. /\ step \in Nat \ {0} /\ size \in Nat /\ size > 0 /\ MaxBatches \in Nat
      /\ ~Active(batches) /\ Len(batches) < MaxBatches
      /\ batches' = Append(batches, new) /\ UNCHANGED <<vars, got>>
      /\ rpos \in Nat /\ wpos \in Nat /\ Capacity \in Nat
  BY MemQueueAssumption DEF MsgBatchAssumption, Call, Running, Batch, Active, TypeOK
<1>2. BatchOK(b) /\ b.res = "running" /\ b.offset = 0
  BY <1>1 DEF BatchOK, BatchRecords
<1>3. BatchOK([b EXCEPT !.res = "refused"])
  BY <1>1 DEF BatchOK, BatchRecords
<1>4. BatchOK(new) /\ new.offset = 0 /\ new.res \in {"running", "refused"}
      /\ (new.res = "running" => new = b /\ ~(reserve < Steps(b)))
  BY <1>2, <1>3
<1>5. Steps(b) \in Nat
  BY <1>2, StepsLeft
<1> HIDE DEF new, b
<1>6. pc[reactor] = "idle" /\ pc' = pc /\ pos' = pos /\ arg' = arg /\ val' = val
      /\ rpos' = rpos /\ wpos' = wpos /\ seq' = seq /\ got' = got
  BY <1>1 DEF BatchInv, ReactorPosts, vars
<1>7. Committed' = Committed
  BY <1>6 DEF Committed, Elem
<1>8. /\ BatchesOK(batches') /\ Accounts(Committed, batches') /\ LastCut(batches')
      /\ Last(batches') = new
  BY <1>1, <1>4, AppendBatch DEF BatchInv
<1>9. Accounts(Committed', batches')
  BY <1>7, <1>8
<1>10. HasRoom(batches', Room')
  <2>1. Room' = reserve /\ reserve \in Int
    BY <1>1, <1>6 DEF Room, reserve, Claimed
  <2>2. Last(batches').res = "running" => Steps(Last(batches')) =< Room'
    BY <1>4, <1>5, <1>8, <2>1
  <2> QED
    BY <2>2 DEF HasRoom, Active
<1>11. ReactorPosts' /\ ConsumersGot' /\ Alone'
  BY <1>6 DEF BatchInv, ReactorPosts, ConsumersGot, Alone, Claimed, Elem
<1>12. BatchesOK(batches)'
  BY <1>8 DEF BatchesOK, BatchOK
<1>13. Accounts(Committed, batches)'
  BY <1>9 DEF Accounts, Items
<1>14. LastCut(batches)'
  BY <1>8 DEF LastCut, Steps
<1>15. HasRoom(batches, Room)'
  BY <1>10 DEF HasRoom, Active, Steps, Last
<1> QED
  BY <1>11, <1>12, <1>13, <1>14, <1>15 DEF BatchInv

\* The reactor calls post.
LEMMA PostStepStep ==
    ASSUME MsgBatchAssumption, TypeOK, Inv, BatchInv, PostStep
    PROVE  BatchInv' /\ Message(batches) \in Msgs /\ Post(reactor, Message(batches))
<1>1. /\ reactor \in Threads /\ reactor \in Producers
      /\ pc \in [Threads -> Labels] /\ arg \in [Threads -> Msgs \union {NoMsg}]
      /\ rpos \in Nat /\ wpos \in Nat /\ Capacity \in Nat
  BY MemQueueAssumption DEF MsgBatchAssumption, Threads, TypeOK
<1>2. Active(batches) /\ Post(reactor, Message(batches)) /\ batches' = batches /\ got' = got
  BY DEF PostStep, Running, Batch, Active, Message
<1>3. Message(batches) \in Msgs
  BY <1>2, MessageOK DEF BatchInv
<1>4. /\ rpos' = rpos /\ wpos' = wpos /\ seq' = seq /\ val' = val
      /\ pc[reactor] = "idle" /\ pc'[reactor] = "load" /\ arg'[reactor] = Message(batches)
  BY <1>1, <1>2 DEF Post, Goto
<1>5. Committed' = Committed
  BY <1>2, <1>4 DEF Committed, Elem
<1>6. Room' = Room /\ Room \in Int
  BY <1>1, <1>4 DEF Room, reserve, Claimed
<1>7. ReactorPosts'
  BY <1>2, <1>4 DEF ReactorPosts, Active, Message, StepSize, Last
<1>8. ConsumersGot' /\ Alone'
  BY <1>2, <1>3, ReactorAlone
<1> QED
  BY <1>2, <1>3, <1>5, <1>6, <1>7, <1>8, BatchesStay

\* A call of post that goes on and has not come to its end.
LEMMA PostGoesOn ==
    ASSUME MsgBatchAssumption, TypeOK, Inv, BatchInv, PostSteps(reactor),
           UNCHANGED <<batches, got>>, ~PostCommit(reactor), pc'[reactor] # "idle"
    PROVE  BatchInv'
<1>1. /\ reactor \in Threads /\ reactor \in Producers
      /\ pc \in [Threads -> Labels] /\ arg \in [Threads -> Msgs \union {NoMsg}]
      /\ pos \in [Threads -> Nat] /\ pos[reactor] \in Nat
      /\ rpos \in Nat /\ wpos \in Nat /\ Capacity \in Nat
      /\ val \in [Elems -> Msgs \union {NoMsg}] /\ Elem(pos[reactor]) \in Elems
  BY MemQueueAssumption, ElemType DEF MsgBatchAssumption, Threads, TypeOK
<1>2. Stored(wpos, seq, val)' = Stored(wpos, seq, val)
  <2>1. CASE PostClaim(reactor)
    BY <1>1, <2>1, ClaimStored
  <2>2. CASE PostAccess(reactor)
    BY <1>1, <2>2, AccessStored
  <2>3. CASE ~PostClaim(reactor) /\ ~PostAccess(reactor)
    <3>1. UNCHANGED <<wpos, seq, val>>
      BY <2>3 DEF PostSteps, PostLoad, PostAgain, PostLose
    <3> QED
      BY <3>1 DEF Stored, Elem
  <2> QED
    BY <2>1, <2>2, <2>3
<1>3. Committed' = Committed
  <2>1. Committed = got \union Stored(wpos, seq, val)
    BY CommittedIs
  <2>2. Committed' = got' \union Stored(wpos, seq, val)'
    BY DEF Committed, Stored
  <2> QED
    BY <1>2, <2>1, <2>2
<1>4. Room' = Room /\ Room \in Int
  BY <1>1 DEF Room, reserve, Claimed, PostSteps, PostLoad, PostAgain, PostClaim, PostLose,
              PostAccess, Goto
<1>5. ReactorPosts'
  <2>1. Active(batches) /\ arg[reactor] = Message(batches)
    BY DEF BatchInv, ReactorPosts, PostSteps, PostLoad, PostAgain, PostClaim, PostLose,
           PostAccess
  <2>2. arg'[reactor] = arg[reactor]
    BY <1>1 DEF PostSteps, PostLoad, PostAgain, PostClaim, PostLose, PostAccess, Goto
  <2>3. pc'[reactor] = "commit" => val'[Elem(pos'[reactor])] = arg'[reactor]
    <3>1. pc'[reactor] = "commit" => PostAccess(reactor)
      BY <1>1 DEF PostSteps, PostLoad, PostAgain, PostClaim, PostLose, Goto
    <3>2. PostAccess(reactor) => val'[Elem(pos'[reactor])] = arg'[reactor]
      BY <1>1 DEF PostAccess
    <3> QED
      BY <3>1, <3>2
  <2>4. Active(batches') /\ arg'[reactor] = Message(batches')
    BY <2>1, <2>2
  <2> QED
    BY <2>3, <2>4 DEF ReactorPosts, Active, Message, StepSize, Last, Elem
<1>6. ConsumersGot' /\ Alone'
  BY ReactorAlone
<1> QED
  BY <1>3, <1>4, <1>5, <1>6, BatchesStay

\* A message is on the queue, and the loop goes on with the next.
LEMMA CommitGoesOn ==
    ASSUME MsgBatchAssumption, TypeOK, Inv, BatchInv, Posting, PostCommit(reactor)
    PROVE  BatchInv'
<1> DEFINE n == Len(batches)
           b == Last(batches)
           new == [batches EXCEPT ![n] = Stepped(b)]
<1>1. /\ reactor \in Threads /\ reactor \in Producers
      /\ pc \in [Threads -> Labels] /\ arg \in [Threads -> Msgs \union {NoMsg}]
      /\ rpos \in Nat /\ wpos \in Nat /\ Capacity \in Nat
  BY MemQueueAssumption DEF MsgBatchAssumption, Threads, TypeOK
<1>2. /\ pc[reactor] = "commit" /\ pc'[reactor] = "idle"
      /\ rpos' = rpos /\ wpos' = wpos /\ val' = val
      /\ PostSteps(reactor) /\ got' = got
  BY <1>1 DEF PostCommit, Goto, PostSteps, Posting
<1>3. /\ Active(batches) /\ arg[reactor] = Message(batches)
      /\ val[Elem(pos[reactor])] = arg[reactor]
      /\ BatchesOK(batches) /\ Accounts(Committed, batches)
  BY <1>2 DEF BatchInv, ReactorPosts
<1>4. batches' = new
  <2>1. Stepped(b) = [Batch EXCEPT !.offset = Batch.offset + StepSize(Batch),
            !.res = IF Batch.offset + StepSize(Batch) >= Batch.size THEN "ok" ELSE "running"]
    BY DEF Stepped, Batch
  <2> QED
    BY <1>2, <2>1 DEF Posting
<1>5. Committed' = Committed \union {<<pos[reactor], Message(batches)>>}
  <2>1. Committed = got \union Stored(wpos, seq, val)
    BY CommittedIs
  <2>2. Committed' = got' \union Stored(wpos, seq, val)'
    BY DEF Committed, Stored
  <2>3. Stored(wpos, seq, val)' = Stored(wpos, seq, val) \union {<<pos[reactor], arg[reactor]>>}
    BY <1>1, <1>3, CommitStored
  <2> QED
    BY <1>2, <1>3, <2>1, <2>2, <2>3
<1>6. n \in DOMAIN batches /\ b = batches[n] /\ BatchOK(b) /\ b.res = "running"
  <2>1. n \in DOMAIN batches
    BY <1>3 DEF BatchesOK, Active
  <2> QED
    BY <1>3, <2>1 DEF BatchesOK, Active, Last
<1>7. BatchOK(Stepped(b)) /\ Stepped(b).res \in {"running", "ok"}
  BY <1>6, SteppedOK
<1>8. /\ BatchesOK(new) /\ DOMAIN new = DOMAIN batches /\ Last(new) = Stepped(b)
      /\ \A i \in DOMAIN batches : new[i] = IF i = n THEN Stepped(b) ELSE batches[i]
  BY <1>3, <1>7, ReplaceLast
<1>9. Accounts(Committed', new)
  BY <1>3, <1>5, PostAccounts
<1> HIDE DEF new
<1>10. LastCut(new)
  <2>1. \A i \in DOMAIN new : new[i].res = "cut" => i \in DOMAIN batches /\ new[i] = batches[i]
    BY <1>7, <1>8
  <2> QED
    BY <2>1 DEF BatchInv, LastCut
<1>11. HasRoom(new, Room')
  <2>1. Room' = Room - 1 /\ Room \in Int
    BY <1>1, <1>2 DEF Room, reserve, Claimed
  <2>2. ASSUME Stepped(b).res = "running"
        PROVE  Steps(Stepped(b)) =< Room'
    <3>1. b.offset + StepSize(b) < b.size
      <4>1. b \in BatchRecords /\ b.offset \in Int /\ b.size \in Int /\ StepSize(b) \in Int
        BY <1>6, StepsLeft DEF BatchOK, BatchRecords
      <4>2. Stepped(b).res = IF b.offset + StepSize(b) >= b.size THEN "ok" ELSE "running"
        BY <4>1 DEF Stepped, BatchRecords
      <4> QED
        BY <2>2, <4>1, <4>2
    <3>2. Steps(Stepped(b)) = Steps(b) - 1 /\ Steps(b) \in Nat
      BY <1>6, <3>1, StepsLeft
    <3>3. Steps(b) =< Room
      BY <1>3 DEF BatchInv, HasRoom
    <3> QED
      BY <2>1, <3>2, <3>3
  <2> QED
    BY <1>8, <2>2 DEF HasRoom, Active
<1>12. ReactorPosts'
  BY <1>2 DEF ReactorPosts
<1>13. ConsumersGot' /\ Alone'
  BY <1>2, ReactorAlone
<1>14. BatchesOK(batches)'
  BY <1>4, <1>8 DEF BatchesOK, BatchOK
<1>15. Accounts(Committed, batches)'
  BY <1>4, <1>9 DEF Accounts, Items
<1>16. LastCut(batches)'
  BY <1>4, <1>10 DEF LastCut, Steps
<1>17. HasRoom(batches, Room)'
  BY <1>4, <1>11 DEF HasRoom, Active, Steps, Last
<1> QED
  BY <1>12, <1>13, <1>14, <1>15, <1>16, <1>17 DEF BatchInv

\* When post fails, the batch has no more than one message left to post if there is
\* one consumer: the queue had room for the batch, and that consumer is in the way.
LEMMA CutIsLast ==
    ASSUME MsgBatchAssumption, TypeOK, Inv, BatchInv, PostSteps(reactor),
           pc[reactor] = "load", pc'[reactor] = "idle", \A c, d \in Consumers : c = d
    PROVE  Steps(Last(batches)) = 1
<1>1. /\ reactor \in Producers /\ rpos \in Nat /\ wpos \in Nat /\ Capacity \in Nat
      /\ \A c \in Consumers : pos[c] \in Nat
  BY MemQueueAssumption DEF MsgBatchAssumption, TypeOK, Threads
<1>2. \/ wpos - rpos = Capacity
      \/ \E c \in Consumers : Claimed(c) /\ pos[c] = wpos - Capacity
  <2>1. [Next]_vars
    BY <1>1 DEF Next
  <2> QED
    BY <1>1, <2>1, FailingPost
<1>3. Active(batches)
  BY DEF BatchInv, ReactorPosts
<1>4. BatchOK(Last(batches)) /\ Last(batches).res = "running"
  BY <1>3 DEF BatchInv, BatchesOK, Active, Last
<1>5. Steps(Last(batches)) \in Nat /\ Steps(Last(batches)) >= 1
  BY <1>4, StepsLeft
<1>6. Steps(Last(batches)) =< Room /\ Room = Capacity - (wpos - rpos)
  BY <1>3 DEF BatchInv, HasRoom, Room, reserve, Claimed
<1>7. ~(wpos - rpos = Capacity)
  BY <1>1, <1>5, <1>6
<1>8. PICK c \in Consumers : Claimed(c) /\ pos[c] = wpos - Capacity
  BY <1>2, <1>7
<1>9. rpos = pos[c] + 1
  BY <1>8 DEF BatchInv, Alone
<1> QED
  BY <1>1, <1>5, <1>6, <1>8, <1>9

\* post fails: its failure is thrown, and what has been posted stays.
LEMMA PostCuts ==
    ASSUME MsgBatchAssumption, TypeOK, Inv, BatchInv, Posting,
           pc[reactor] = "load", pc'[reactor] = "idle"
    PROVE  BatchInv'
<1> DEFINE n == Len(batches)
           b == Last(batches)
           cut == [b EXCEPT !.res = "cut"]
           new == [batches EXCEPT ![n] = cut]
<1>1. /\ PostSteps(reactor) /\ got' = got
      /\ UNCHANGED <<rpos, wpos, seq, val>>
  BY DEF Posting, PostSteps, PostLoad, PostAgain, PostClaim, PostLose, PostAccess, PostCommit
<1>2. Active(batches) /\ BatchesOK(batches) /\ Accounts(Committed, batches)
  BY DEF BatchInv, ReactorPosts
<1>3. n \in DOMAIN batches /\ b = batches[n] /\ BatchOK(b) /\ b.res = "running"
  <2>1. n \in DOMAIN batches
    BY <1>2 DEF BatchesOK, Active
  <2> QED
    BY <1>2, <2>1 DEF BatchesOK, Active, Last
<1>4. batches' = new
  <2>1. batches' = [batches EXCEPT ![n].res = "cut"]
    BY DEF Posting
  <2> QED
    BY <1>3, <2>1
<1>5. /\ BatchOK(cut) /\ cut.res = "cut" /\ cut.offset = b.offset
      /\ cut.size = b.size /\ cut.step = b.step
  BY <1>3 DEF BatchOK, BatchRecords
<1>6. Committed' = Committed
  BY <1>1 DEF Committed, Elem
<1>7. /\ BatchesOK(new) /\ DOMAIN new = DOMAIN batches /\ Last(new) = cut
      /\ \A i \in DOMAIN batches : new[i] = IF i = n THEN cut ELSE batches[i]
  BY <1>2, <1>5, ReplaceLast
<1> HIDE DEF new, cut
<1>8. \A i \in DOMAIN batches : new[i].offset = batches[i].offset
  BY <1>3, <1>5, <1>7
<1>9. Accounts(Committed', new)
  <2>1. Accounts(Committed, new)
    <3>1. \A i \in DOMAIN new, x \in Int :
            x \in 1..new[i].offset <=>
                \E m \in Committed : m[2].batch = i /\ x \in Items(m[2])
      BY <1>2, <1>7, <1>8 DEF Accounts
    <3> QED
      BY <1>2, <1>7, <3>1 DEF Accounts
  <2> QED
    BY <1>6, <2>1
<1>10. LastCut(new)
  <2> SUFFICES ASSUME \A c, d \in Consumers : c = d, NEW i \in DOMAIN new, new[i].res = "cut"
               PROVE  Steps(new[i]) = 1
    BY DEF LastCut
  <2>1. CASE i = n
    <3>1. Steps(cut) = Steps(b)
      BY <1>5 DEF Steps
    <3>2. Steps(b) = 1
      BY <1>1, CutIsLast
    <3> QED
      BY <1>7, <2>1, <3>1, <3>2
  <2>2. CASE i # n
    <3>1. i \in DOMAIN batches /\ new[i] = batches[i]
      BY <1>7, <2>2
    <3> QED
      BY <3>1 DEF BatchInv, LastCut
  <2> QED
    BY <2>1, <2>2
<1>11. HasRoom(new, Room')
  BY <1>5, <1>7 DEF HasRoom, Active
<1>12. ReactorPosts'
  BY DEF ReactorPosts
<1>13. ConsumersGot' /\ Alone'
  BY <1>1, ReactorAlone
<1>14. BatchesOK(batches)'
  BY <1>4, <1>7 DEF BatchesOK, BatchOK
<1>15. Accounts(Committed, batches)'
  BY <1>4, <1>9 DEF Accounts, Items
<1>16. LastCut(batches)'
  BY <1>4, <1>10 DEF LastCut, Steps
<1>17. HasRoom(batches, Room)'
  BY <1>4, <1>11 DEF HasRoom, Active, Steps, Last
<1> QED
  BY <1>12, <1>13, <1>14, <1>15, <1>16, <1>17 DEF BatchInv

\* What the invariant is for.
LEMMA BatchInvSays ==
    ASSUME MsgBatchAssumption, TypeOK, BatchInv
    PROVE  BatchTypeOK /\ ItemsAreAccounted /\ OnlyTheLastIsCut
<1>1. BatchTypeOK
  <2>1. ASSUME NEW i \in DOMAIN batches
        PROVE  /\ batches[i].offset \in 0..batches[i].size
               /\ batches[i].res \in {"running", "ok", "cut", "refused"}
               /\ batches[i].res = "running" => i = Len(batches)
    BY DEF BatchInv, BatchesOK, BatchOK, BatchRecords
  <2> QED
    BY <2>1 DEF BatchTypeOK, BatchInv, ConsumersGot
<1>2. ItemsAreAccounted
  <2>1. ASSUME NEW i \in DOMAIN batches
        PROVE  UNION {Items(m[2]) : m \in {n \in Committed : n[2].batch = i}} =
                1..(CASE batches[i].res = "ok" -> batches[i].size
                      [] batches[i].res = "refused" -> 0
                      [] OTHER -> batches[i].offset)
    <3> DEFINE U == UNION {Items(m[2]) : m \in {n \in Committed : n[2].batch = i}}
    <3>1. \A x \in Int : x \in 1..batches[i].offset <=> x \in U
      <4>1. \A x : x \in U <=> \E m \in Committed : m[2].batch = i /\ x \in Items(m[2])
        OBVIOUS
      <4> QED
        BY <2>1, <4>1 DEF BatchInv, Accounts
    <3>2. U \subseteq Int
      <4>1. \A m \in Committed : Items(m[2]) \subseteq Int
        BY DEF BatchInv, Accounts, Items, MsgBatchAssumption
      <4> QED
        BY <4>1
    <3>3. U = 1..batches[i].offset
      BY <3>1, <3>2
    <3>4. batches[i].offset = (CASE batches[i].res = "ok" -> batches[i].size
                      [] batches[i].res = "refused" -> 0
                      [] OTHER -> batches[i].offset)
      BY <2>1 DEF BatchInv, BatchesOK, BatchOK
    <3> QED
      BY <3>3, <3>4
  <2>2. \A m, n \in Committed :
            m # n /\ m[2].batch = n[2].batch => Items(m[2]) \cap Items(n[2]) = {}
    BY DEF BatchInv, Accounts
  <2> QED
    BY <2>1, <2>2 DEF ItemsAreAccounted
<1>3. OnlyTheLastIsCut
  <2>1. ASSUME Cardinality(Consumers) = 1
        PROVE  \A c, d \in Consumers : c = d
    <3>1. \E x : Consumers = {x}
      BY <2>1, FS_Singleton DEF MsgBatchAssumption
    <3> QED
      BY <3>1
  <2> QED
    BY <2>1 DEF OnlyTheLastIsCut, BatchInv, LastCut
<1> QED
  BY <1>1, <1>2, <1>3

BatchKept == TypeOK /\ Inv /\ BatchInv

\* Nothing is posted at the start.
LEMMA BatchInitKept ==
    ASSUME MsgBatchAssumption, Initialised = Capacity, BatchInit
    PROVE  BatchKept
<1>1. TypeOK /\ Inv
  BY InitInv, MemQueueAssumption DEF BatchInit, Init, TypeOK, Elems, Labels
<1>2. batches = <<>> /\ got = {} /\ wpos = 0 /\ \A t \in Threads : pc[t] = "idle"
  BY DEF BatchInit, Init
<1>3. Committed = {}
  BY <1>2 DEF Committed
<1>4. BatchesOK(batches) /\ LastCut(batches) /\ Accounts(Committed, batches)
  BY <1>2, <1>3 DEF BatchesOK, LastCut, Accounts, MsgBatchAssumption
<1>5. HasRoom(batches, Room)
  BY <1>2 DEF HasRoom, Active
<1>6. ReactorPosts /\ ConsumersGot /\ Alone
  BY <1>2 DEF ReactorPosts, ConsumersGot, Alone, Claimed, Threads, MsgBatchAssumption
<1> QED
  BY <1>1, <1>4, <1>5, <1>6 DEF BatchKept, BatchInv

\* Every step of the reactor and of the consumers.
LEMMA BatchStepKept ==
    ASSUME MsgBatchAssumption, BatchKept, [BatchNext]_batchVars
    PROVE  BatchKept'
<1> USE DEF BatchKept
<1>1. ASSUME [Next]_vars, BatchInv'
      PROVE  BatchKept'
  BY <1>1, StepTypes, StepInv
<1>2. reactor \in Producers
  BY DEF MsgBatchAssumption
<1>3. ASSUME NEW size \in 1..MaxItems, NEW step \in {1, MaxIds}, Call(size, step)
      PROVE  BatchKept'
  <2>1. [Next]_vars
    BY <1>3 DEF Call
  <2> QED
    BY <1>1, <1>3, <2>1, CallStep
<1>4. CASE PostStep
  <2>1. BatchInv' /\ Message(batches) \in Msgs /\ Post(reactor, Message(batches))
    BY <1>4, PostStepStep
  <2>2. [Next]_vars
    BY <1>2, <2>1 DEF Next
  <2> QED
    BY <1>1, <2>1, <2>2
<1>5. CASE Posting
  <2>1. PostSteps(reactor)
    BY <1>5 DEF Posting
  <2>2. [Next]_vars
    BY <1>2, <2>1 DEF Next
  <2>3. CASE PostCommit(reactor)
    BY <1>1, <1>5, <2>2, <2>3, CommitGoesOn
  <2>4. CASE pc[reactor] = "load" /\ pc'[reactor] = "idle"
    BY <1>1, <1>5, <2>2, <2>4, PostCuts
  <2>5. CASE ~PostCommit(reactor) /\ ~(pc[reactor] = "load" /\ pc'[reactor] = "idle")
    <3>1. reactor \in Threads /\ pc \in [Threads -> Labels]
      BY <1>2 DEF Threads, TypeOK
    <3>2. pc[reactor] # "commit" /\ pc'[reactor] # "idle"
      BY <2>1, <2>5, <3>1 DEF PostSteps, PostLoad, PostAgain, PostClaim, PostLose, PostAccess,
                              PostCommit, Goto
    <3>3. UNCHANGED <<batches, got>>
      BY <1>5, <2>5, <3>2 DEF Posting
    <3> QED
      BY <1>1, <2>1, <2>2, <2>5, <3>2, <3>3, PostGoesOn
  <2> QED
    BY <2>3, <2>4, <2>5
<1>6. ASSUME NEW c \in Consumers, Fetching(c)
      PROVE  BatchKept'
  <2>1. [Next]_vars
    BY <1>6 DEF Fetching, Next
  <2> QED
    BY <1>1, <1>6, <2>1, FetchingStep
<1>7. CASE UNCHANGED batchVars
  <2>1. /\ UNCHANGED <<rpos, wpos, seq, val, pc, pos, arg, batches, got>>
        /\ [Next]_vars
    BY <1>7 DEF batchVars, vars
  <2>2. BatchInv'
    BY <2>1 DEF BatchInv, BatchesOK, BatchOK, Accounts, Items, LastCut, HasRoom, Active, Steps,
        Last, Room, reserve, Claimed, ReactorPosts, Message, StepSize, ConsumersGot, Alone,
        Committed, Elem
  <2> QED
    BY <1>1, <2>1, <2>2
<1> QED
  BY <1>3, <1>4, <1>5, <1>6, <1>7 DEF BatchNext

\* For every capacity, number of consumers and sequence of batches: a batch leaves
\* each of its items on the queue once, those that were posted, and when it is cut
\* short with one consumer reading, it lacks its last message and no more
\* (MsgQueue::archive_trade and create_exec, MemQueue).
THEOREM BatchesAreKept ==
    ASSUME MsgBatchAssumption, Initialised = Capacity
    PROVE  BatchSpec => [](BatchTypeOK /\ ItemsAreAccounted /\ OnlyTheLastIsCut)
<1>1. BatchInit => BatchKept
  BY BatchInitKept
<1>2. BatchKept /\ [BatchNext]_batchVars => BatchKept'
  BY BatchStepKept
<1>3. BatchKept => BatchTypeOK /\ ItemsAreAccounted /\ OnlyTheLastIsCut
  BY BatchInvSays DEF BatchKept
<1> QED
  BY <1>1, <1>2, <1>3, PTL DEF BatchSpec
=============================================================================
