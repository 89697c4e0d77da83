------------------------------ MODULE SysProofs ------------------------------
(***************************************************************************)
(* Proofs about MemPool for any number of threads, any sizes of objects    *)
(* and any size of the pool, about Reactor for any users and descriptors,  *)
(* and about the two queues as SysMC composes them.                        *)
(*                                                                         *)
(* The free blocks of a class are told by following links through memory   *)
(* that threads write to at any time.  The invariant says instead that     *)
(* there are piles of links, one for each stack, that memory agrees with:  *)
(* the head is the top, and a block in a pile links to the one below       *)
(* (Linked).  A thread that pops holds the link that was the head, and     *)
(* what it read in that node may be anything; but if the link is in the    *)
(* pile, what was read is the link below it (KnownBelow).  A link leaves   *)
(* the pile for good, since each push makes one with a tag that nobody has *)
(* seen (Unseen): this is what the tags are for, and why an exchange that  *)
(* compares whole words is safe from a node that comes back (ABA).         *)
(*                                                                         *)
(* FreeOnce, OwnRelease and NoneLost give each block its one owner,        *)
(* BlocksApart its room.                                                   *)
(*                                                                         *)
(* Of the reactor, ReactorInv says how the entries, epoll, the handles,    *)
(* the sockets and the events that were reported agree.  The identity      *)
(* grows with each use of a descriptor, so that what has an old one can    *)
(* be told (EventsAgree, HandlesAgree).                                    *)
(***************************************************************************)
EXTENDS SysMC, FiniteSetTheorems, WellFoundedInduction, TLAPS

-----------------------------------------------------------------------------
(* Numbers. *)

\* What holds at zero and is handed on by every number holds of all of them.
LEMMA NumberInduction ==
    ASSUME NEW S \in SUBSET Nat, 0 \in S, \A i \in S : i + 1 \in S
    PROVE  S = Nat
<1> DEFINE R == {p \in Nat \X Nat : p[1] < p[2]}
           T == Nat \ S
<1>1. OpToRel(<, Nat) = R
  BY DEF OpToRel
<1>2. IsWellFoundedOn(R, Nat)
  BY <1>1, NatLessThanWellFounded
<1>3. ASSUME T # {} PROVE FALSE
  <2>1. PICK x \in T : \A y \in T : <<y, x>> \notin R
    BY <1>2, <1>3, WFMin
  <2>2. x - 1 \in Nat /\ <<x - 1, x>> \in R
    BY <2>1
  <2> QED
    BY <2>1, <2>2
<1> QED
  BY <1>3

\* A class is the smallest that is as large as asked for.
LEMMA ClassOfFits ==
    ASSUME NEW lines \in 0..32
    PROVE  /\ ClassOf(lines) \in Classes /\ ClassOf(lines) >= lines
           /\ \A d \in Classes : d >= lines => ClassOf(lines) =< d
<1>1. \E c \in Classes : /\ c >= lines
                         /\ \A d \in Classes : d >= lines => c =< d
  <2> USE DEF Classes
  <2>1. CASE lines =< 1
    <3> WITNESS 1 \in Classes
    <3> QED
      BY <2>1
  <2>2. CASE lines = 2
    <3> WITNESS 2 \in Classes
    <3> QED
      BY <2>2
  <2>3. CASE lines = 3
    <3> WITNESS 3 \in Classes
    <3> QED
      BY <2>3
  <2>4. CASE lines = 4
    <3> WITNESS 4 \in Classes
    <3> QED
      BY <2>4
  <2>5. CASE lines \in 5..8
    <3> WITNESS 8 \in Classes
    <3> QED
      BY <2>5
  <2>6. CASE lines \in 9..16
    <3> WITNESS 16 \in Classes
    <3> QED
      BY <2>6
  <2>7. CASE lines \in 17..32
    <3> WITNESS 32 \in Classes
    <3> QED
      BY <2>7
  <2> QED
    BY <2>1, <2>2, <2>3, <2>4, <2>5, <2>6, <2>7
<1> QED
  BY <1>1 DEF ClassOf

\* Allocation gives every object the lines it needs; release gives a block of e
\* lines to a class no larger than it (MemCtx::Impl::alloc and dealloc).
LEMMA ClassesFit ==
    ASSUME NEW size \in Sizes
    PROVE  /\ AllocClass(size) \in Stacks /\ DeallocClass(size) \in Stacks
           /\ size =< LineSize * AllocClass(size)
           /\ \A e \in Classes : size =< LineSize * e => DeallocClass(size) =< e
<1>1. AllocClass(size) \in Stacks /\ DeallocClass(size) \in Stacks
  BY DEF Stacks
<1>2. size \in 1..2048
  BY MemPoolAssumption DEF LineSize
<1> DEFINE up == (size + 63) \div 64
           down == size \div 64
<1>3. /\ up \in 0..32 /\ down \in 0..32
      /\ size =< 64 * up
      /\ 64 * down =< size
  BY <1>2
<1>4. AllocClass(size) = ClassOf(up) /\ DeallocClass(size) = ClassOf(down)
  BY <1>2 DEF AllocClass, DeallocClass, LineSize
<1> HIDE DEF up, down
<1>5. Classes \subseteq Nat
  BY DEF Classes
<1>6. size =< LineSize * AllocClass(size)
  <2>1. ClassOf(up) \in Nat /\ ClassOf(up) >= up
    BY <1>3, <1>5, ClassOfFits
  <2> QED
    BY <1>2, <1>3, <1>4, <2>1 DEF LineSize
<1>7. ASSUME NEW e \in Classes, size =< LineSize * e
      PROVE  DeallocClass(size) =< e
  <2>1. down =< e
    BY <1>2, <1>3, <1>5, <1>7 DEF LineSize
  <2> QED
    BY <1>3, <1>4, <2>1, ClassOfFits
<1> QED
  BY <1>1, <1>6, <1>7

\* Stacks are of classes, and these are positive numbers.
LEMMA StackType ==
    Stacks \subseteq Classes /\ Classes \subseteq Nat \ {0}
<1>1. Classes \subseteq Nat \ {0}
  BY DEF Classes
<1>2. ASSUME NEW z \in Sizes
      PROVE  AllocClass(z) \in Classes /\ DeallocClass(z) \in Classes
  <2>1. z \in 1..2048
    BY MemPoolAssumption DEF LineSize
  <2>2. (z + LineSize - 1) \div LineSize \in 0..32 /\ z \div LineSize \in 0..32
    BY <2>1 DEF LineSize
  <2> QED
    BY <2>2, ClassOfFits DEF AllocClass, DeallocClass
<1> QED
  BY <1>1, <1>2 DEF Stacks

-----------------------------------------------------------------------------
(* The inductive invariant. *)

\* The local variables of a thread.
Locals == [pc : {"idle", "next", "pop", "bump", "link", "push"},
           size : {0} \union Sizes, stack : {0} \union Stacks,
           node : 0..MaxSize, tag : 0..MaxTag, old : Links, nxt : Links]

\* The links that a push makes.
Pushes == (1..MaxTag) \X Addrs

Popping(t) == at[t].pc \in {"next", "pop"}
Releasing(t) == at[t].pc \in {"link", "push"}

\* z[s] is the pile of links of stack s, from the bottom, and n[s] its height; what
\* lies above are links that were popped.  A pile stands on a null link.
Piles(z, n) ==
    /\ z \in [Stacks -> [Nat -> Links]]
    /\ n \in [Stacks -> Nat]
    /\ \A s \in Stacks : z[s][0] = Null

\* The head is the top of the pile and each block links to the one below it.
Linked(z, n) ==
    \A s \in Stacks :
        /\ head[s] = z[s][n[s]]
        /\ \A i \in 1..n[s] :
            /\ z[s][i] \in Pushes /\ z[s][i][1] =< tag[s]
            /\ next[z[s][i][2]] = z[s][i - 1]

\* A block is in a pile once, nobody uses it, and it is large enough.
FreeOnce(z, n) ==
    /\ \A s, r \in Stacks : \A i \in 1..n[s], j \in 1..n[r] :
        z[s][i][2] = z[r][j][2] => s = r /\ i = j
    /\ \A s \in Stacks : \A i \in 1..n[s] :
        used[z[s][i][2]] = 0 /\ extent[z[s][i][2]] >= s

\* A block that is released is its thread's own, and so is the tag of its link:
\* no other thread has seen it, and no pile has it.
Owns(z, n, r) ==
    /\ r.stack \in Stacks /\ r.node \in Addrs /\ r.tag \in 1..tag[r.stack]
    /\ used[r.node] = 0 /\ extent[r.node] >= r.stack
    /\ r.old # Junk
    /\ r.pc = "push" => next[r.node] = r.old
    /\ \A s \in Stacks : \A i \in 1..n[s] : z[s][i][2] # r.node
    /\ \A i \in 1..n[r.stack] : z[r.stack][i][1] # r.tag

OwnRelease(z, n) == \A t \in Workers : Releasing(t) => Owns(z, n, at[t])

Unseen ==
    \A t, u \in Workers : Releasing(t) /\ t # u =>
        /\ Releasing(u) => at[u].node # at[t].node
        /\ (Releasing(u) \/ Popping(u)) /\ at[u].stack = at[t].stack =>
            IF Releasing(u) THEN at[u].tag # at[t].tag ELSE at[u].old[1] # at[t].tag

\* The link that a thread pops was the head at some time.  If it is in the pile when
\* it is read, the link below it was read with it: so it is when the exchange finds
\* it at the top.
Knows(z, n, r) ==
    /\ r.size \in Sizes /\ r.stack = AllocClass(r.size)
    /\ r.old \in Pushes /\ r.old[1] =< tag[r.stack]
    /\ r.node = r.old[2]
    /\ r.pc = "pop" => \A i \in 1..n[r.stack] :
                        z[r.stack][i] = r.old => r.nxt = z[r.stack][i - 1]

KnownBelow(z, n) == \A t \in Workers : Popping(t) => Knows(z, n, at[t])

Reserving ==
    \A t \in Workers : at[t].pc = "bump" =>
        at[t].size \in Sizes /\ at[t].stack = AllocClass(at[t].size)

\* Blocks do not overlap, end below the offset, and hold what is in them.
BlocksApart ==
    /\ \A a \in Addrs : extent[a] # 0 => a + extent[a] =< offset
    /\ \A a, b \in Addrs :
        a < b /\ extent[a] # 0 /\ extent[b] # 0 => a + extent[a] =< b
    /\ \A a \in Addrs : used[a] =< LineSize * extent[a]

\* No block is lost.
NoneLost(z, n) ==
    \A a \in Addrs : extent[a] # 0 =>
        \/ used[a] # 0
        \/ \E s \in Stacks : \E i \in 1..n[s] : z[s][i][2] = a
        \/ \E t \in Workers : Releasing(t) /\ at[t].node = a

Fit(z, n) ==
    /\ Piles(z, n) /\ Linked(z, n) /\ FreeOnce(z, n)
    /\ OwnRelease(z, n) /\ Unseen /\ KnownBelow(z, n) /\ Reserving
    /\ BlocksApart /\ NoneLost(z, n)

PoolInv == TypeOK /\ \E z, n : Fit(z, n)

-----------------------------------------------------------------------------
(* Links and steps. *)

\* A link of a push is neither null nor junk.
LEMMA LinkKinds ==
    /\ MaxTag \in Nat /\ MaxSize \in Nat /\ Addrs \subseteq Nat
    /\ Links = {Null, Junk} \union Pushes
    /\ Null # Junk /\ Null \notin Pushes /\ Junk \notin Pushes
    /\ \A h \in Pushes : h[1] \in 1..MaxTag /\ h[2] \in Addrs /\ h = <<h[1], h[2]>>
  BY MemPoolAssumption DEF Links, Pushes, Null, Junk, Addrs

\* The types, with a name for those of the local variables.
LEMMA Types ==
    TypeOK <=> /\ head \in [Stacks -> Links \ {Junk}]
               /\ tag \in [Stacks -> 0..MaxTag]
               /\ next \in [Addrs -> Links]
               /\ offset \in 0..MaxSize
               /\ used \in [Addrs -> {0} \union Sizes]
               /\ extent \in [Addrs -> {0} \union Stacks]
               /\ at \in [Workers -> Locals]
  BY DEF TypeOK, Locals

\* The sizes of objects and blocks are numbers.
LEMMA SizesType ==
    Sizes \subseteq Nat \ {0} /\ Stacks \subseteq Nat \ {0}
  BY MemPoolAssumption, StackType DEF LineSize

\* What is noted of a block are numbers.
LEMMA BlockNumbers ==
    ASSUME TypeOK
    PROVE  \A a \in Addrs : a \in Nat /\ used[a] \in Nat /\ extent[a] \in Nat
<1>1. \A a \in Addrs : used[a] \in {0} \union Sizes /\ extent[a] \in {0} \union Stacks
  BY Types
<1>2. {0} \union Sizes \subseteq Nat /\ {0} \union Stacks \subseteq Nat
  BY SizesType
<1> QED
  BY <1>1, <1>2, LinkKinds

\* Nothing is allocated at first.
LEMMA InitKeeps ==
    Init => PoolInv
<1> SUFFICES ASSUME Init PROVE PoolInv
  OBVIOUS
<1> DEFINE z == [s \in Stacks |-> [i \in Nat |-> Null]]
           n == [s \in Stacks |-> 0]
<1>1. Idle \in Locals
  BY LinkKinds DEF Idle, Locals
<1>2. TypeOK
  BY <1>1, LinkKinds, Types DEF Init
<1>3. Piles(z, n)
  BY LinkKinds DEF Piles
<1>4. \A t \in Workers : at[t].pc = "idle"
  BY DEF Init, Idle
<1>5. Linked(z, n) /\ FreeOnce(z, n)
  BY DEF Init, Linked, FreeOnce
<1>6. OwnRelease(z, n) /\ Unseen /\ KnownBelow(z, n) /\ Reserving
  BY <1>4 DEF OwnRelease, Unseen, KnownBelow, Reserving, Popping, Releasing
<1>7. BlocksApart /\ NoneLost(z, n)
  BY DEF Init, BlocksApart, NoneLost, LineSize
<1> HIDE DEF z, n
<1> QED
  BY <1>2, <1>3, <1>5, <1>6, <1>7 DEF PoolInv, Fit

\* A step that only changes the local variables of a thread that releases nothing,
\* before or after it.
LEMMA QuietStep ==
    ASSUME TypeOK, NEW z, NEW n, Fit(z, n), NEW t \in Workers, NEW r \in Locals,
           UNCHANGED <<head, tag, next, offset, used, extent>>,
           at' = [at EXCEPT ![t] = r],
           ~Releasing(t), r.pc \in {"idle", "next", "pop", "bump"},
           r.pc \in {"next", "pop"} =>
              /\ Knows(z, n, r)
              /\ \A u \in Workers : Releasing(u) /\ at[u].stack = r.stack =>
                                        r.old[1] # at[u].tag,
           r.pc = "bump" => r.size \in Sizes /\ r.stack = AllocClass(r.size)
    PROVE  PoolInv'
<1>1. /\ at' \in [Workers -> Locals] /\ at'[t] = r
      /\ \A u \in Workers : u # t => at'[u] = at[u]
  BY Types
<1>2. TypeOK'
  <2>1. Links' = Links /\ Stacks' = Stacks /\ Addrs' = Addrs
    OBVIOUS
  <2> QED
    BY <1>1, Types DEF TypeOK, Locals
<1>3. \A u \in Workers : Releasing(u)' <=> Releasing(u)
  BY <1>1 DEF Releasing
<1>4. ~Releasing(t)'
  BY <1>3
<1>5. Piles(z, n) /\ Linked(z, n)' /\ FreeOnce(z, n)' /\ BlocksApart'
  BY DEF Fit, Linked, FreeOnce, BlocksApart
<1>6. OwnRelease(z, n)'
  <2>1. SUFFICES ASSUME NEW u \in Workers, Releasing(u)' PROVE Owns(z, n, at[u])'
    BY DEF OwnRelease
  <2>2. u # t /\ Releasing(u) /\ at'[u] = at[u] /\ Owns(z, n, at[u])
    BY <1>1, <1>3, <1>4, <2>1 DEF Fit, OwnRelease
  <2> QED
    BY <2>2 DEF Owns
<1>7. Unseen'
  <2>1. SUFFICES ASSUME NEW u \in Workers, NEW v \in Workers, Releasing(u)', u # v
                 PROVE  /\ Releasing(v)' => at'[v].node # at'[u].node
                        /\ (Releasing(v) \/ Popping(v))' /\ at'[v].stack = at'[u].stack =>
                            IF Releasing(v)' THEN at'[v].tag # at'[u].tag
                            ELSE at'[v].old[1] # at'[u].tag
    BY DEF Unseen
  <2>2. u # t /\ Releasing(u) /\ at'[u] = at[u]
    BY <1>1, <1>3, <1>4, <2>1
  <2>3. CASE v = t
    BY <1>1, <1>4, <2>2, <2>3 DEF Popping
  <2>4. CASE v # t
    BY <1>1, <1>3, <2>1, <2>2, <2>4 DEF Fit, Unseen, Popping, Releasing
  <2> QED
    BY <2>3, <2>4
<1>8. KnownBelow(z, n)'
  <2>1. SUFFICES ASSUME NEW u \in Workers, Popping(u)' PROVE Knows(z, n, at[u])'
    BY DEF KnownBelow
  <2>2. CASE u = t
    BY <1>1, <2>1, <2>2 DEF Popping, Knows
  <2>3. CASE u # t
    BY <1>1, <2>1, <2>3 DEF Fit, KnownBelow, Popping, Knows
  <2> QED
    BY <2>2, <2>3
<1>9. Reserving'
  BY <1>1 DEF Fit, Reserving
<1>10. NoneLost(z, n)'
  BY <1>1, <1>3, <1>4 DEF Fit, NoneLost
<1> QED
  BY <1>2, <1>5, <1>6, <1>7, <1>8, <1>9, <1>10 DEF PoolInv, Fit

\* pop() sees the head of its stack: a link that is in the pile, and no push's own.
LEMMA PopSeesKeeps ==
    ASSUME TypeOK, NEW z, NEW n, Fit(z, n), NEW t \in Workers, ~Releasing(t),
           NEW r \in Locals, r.size \in Sizes, r.stack = AllocClass(r.size),
           PopSees(t, r, head[r.stack]),
           UNCHANGED <<head, tag, next, offset, used, extent>>
    PROVE  PoolInv'
<1> DEFINE s == r.stack
           h == head[s]
<1>1. s \in Stacks
  BY ClassesFit
<1>2. h \in Links \ {Junk}
  BY <1>1, Types
<1>3. CASE h = Null
  <2> DEFINE q == [r EXCEPT !.pc = "bump", !.node = offset]
  <2>1. at' = [at EXCEPT ![t] = q]
    BY <1>3 DEF PopSees
  <2>2. q \in Locals /\ q.pc = "bump" /\ q.size = r.size /\ q.stack = r.stack
    BY Types DEF Locals
  <2> HIDE DEF q
  <2> QED
    BY <2>1, <2>2, QuietStep
<1>4. CASE h # Null
  <2> DEFINE q == [r EXCEPT !.pc = "next", !.node = h[2], !.old = h]
  <2>1. at' = [at EXCEPT ![t] = q]
    BY <1>4 DEF PopSees
  <2>2. h \in Pushes
    BY <1>2, <1>4, LinkKinds
  <2>3. h[2] \in 0..MaxSize /\ h \in Links
    BY <1>2, <2>2, LinkKinds DEF Addrs
  <2> HIDE DEF h
  <2>4. /\ q \in Locals /\ q.pc = "next" /\ q.size = r.size /\ q.stack = r.stack
        /\ q.node = h[2] /\ q.old = h
    BY <2>3 DEF Locals
  <2> HIDE DEF q
  <2>5. n[s] \in 1..n[s] /\ h = z[s][n[s]]
    <3>1. n[s] \in Nat /\ z[s][0] = Null /\ head[s] = z[s][n[s]]
      BY <1>1 DEF Fit, Piles, Linked
    <3> QED
      BY <1>4, <3>1 DEF h
  <2>6. h[1] =< tag[s]
    BY <1>1, <2>5 DEF Fit, Linked
  <2>7. Knows(z, n, q)
    BY <2>2, <2>4, <2>6 DEF Knows
  <2>8. \A u \in Workers : Releasing(u) /\ at[u].stack = q.stack => q.old[1] # at[u].tag
    BY <1>1, <2>4, <2>5 DEF Fit, OwnRelease, Owns
  <2> QED
    BY <2>1, <2>4, <2>7, <2>8, QuietStep
<1> QED
  BY <1>3, <1>4

\* alloc() chooses its class and looks at the head of the stack.
LEMMA AllocKeeps ==
    ASSUME TypeOK, NEW z, NEW n, Fit(z, n), NEW t \in Workers, NEW size \in Sizes,
           Alloc(t, size)
    PROVE  PoolInv'
<1> DEFINE r == [Idle EXCEPT !.size = size, !.stack = AllocClass(size)]
<1>1. /\ at[t].pc = "idle" /\ PopSees(t, r, head[AllocClass(size)])
      /\ UNCHANGED <<head, tag, next, offset, used, extent>>
  BY DEF Alloc
<1>2. r \in Locals /\ r.size = size /\ r.stack = AllocClass(size)
  <2> DEFINE c == AllocClass(size)
  <2>1. c \in Stacks /\ Null \in Links /\ 0 \in 0..MaxSize /\ 0 \in 0..MaxTag
    BY LinkKinds, ClassesFit
  <2> HIDE DEF c
  <2>2. [Idle EXCEPT !.size = size, !.stack = c] \in Locals
    BY <2>1 DEF Idle, Locals
  <2>3. /\ [Idle EXCEPT !.size = size, !.stack = c].size = size
        /\ [Idle EXCEPT !.size = size, !.stack = c].stack = c
    BY DEF Idle
  <2> QED
    BY <2>2, <2>3 DEF c
<1>3. ~Releasing(t)
  BY <1>1 DEF Releasing
<1> HIDE DEF r
<1> QED
  BY <1>1, <1>2, <1>3, PopSeesKeeps

\* The link is read in the node: the one below, if the node is in the pile.
LEMMA ReadNextKeeps ==
    ASSUME TypeOK, NEW z, NEW n, Fit(z, n), NEW t \in Workers, ReadNext(t)
    PROVE  PoolInv'
<1> DEFINE x == next[at[t].node]
           q == [at[t] EXCEPT !.nxt = x, !.pc = "pop"]
<1>1. /\ at[t].pc = "next" /\ at[t] \in Locals
      /\ at' = [at EXCEPT ![t] = q]
      /\ UNCHANGED <<head, tag, next, offset, used, extent>>
  BY Types DEF ReadNext
<1>2. ~Releasing(t) /\ Popping(t) /\ Knows(z, n, at[t])
  BY <1>1 DEF Releasing, Popping, Fit, KnownBelow
<1>3. at[t].old \in Pushes /\ at[t].node = at[t].old[2] /\ at[t].node \in Addrs
  BY <1>2, LinkKinds DEF Knows
<1>4. x \in Links
  BY <1>3, Types
<1>5. /\ q \in Locals /\ q.pc = "pop" /\ q.nxt = x
      /\ q.size = at[t].size /\ q.stack = at[t].stack
      /\ q.old = at[t].old /\ q.node = at[t].node
  BY <1>1, <1>4 DEF Locals
<1>6. at[t].stack \in Stacks
  BY <1>2, ClassesFit DEF Knows
<1> HIDE DEF q
<1>7. Knows(z, n, q)
  <2>1. ASSUME NEW i \in 1..n[q.stack], z[q.stack][i] = q.old
        PROVE  q.nxt = z[q.stack][i - 1]
    BY <1>3, <1>5, <1>6, <2>1 DEF Fit, Linked
  <2> QED
    BY <1>2, <1>5, <2>1 DEF Knows
<1>8. \A u \in Workers : Releasing(u) /\ at[u].stack = q.stack => q.old[1] # at[u].tag
  BY <1>2, <1>5 DEF Fit, Unseen, Releasing, Popping
<1> QED
  BY <1>1, <1>2, <1>5, <1>7, <1>8, QuietStep

\* A failed exchange looks at the head again.
LEMMA PopAgainKeeps ==
    ASSUME TypeOK, NEW z, NEW n, Fit(z, n), NEW t \in Workers, PopAgain(t)
    PROVE  PoolInv'
<1>1. /\ at[t].pc = "pop" /\ at[t] \in Locals
      /\ PopSees(t, at[t], head[at[t].stack])
      /\ UNCHANGED <<head, tag, next, offset, used, extent>>
  BY Types DEF PopAgain
<1>2. ~Releasing(t) /\ at[t].size \in Sizes /\ at[t].stack = AllocClass(at[t].size)
  BY <1>1 DEF Releasing, Popping, Fit, KnownBelow, Knows
<1> QED
  BY <1>1, <1>2, PopSeesKeeps

\* reserve() loads the offset again.
LEMMA BumpAgainKeeps ==
    ASSUME TypeOK, NEW z, NEW n, Fit(z, n), NEW t \in Workers, BumpAgain(t)
    PROVE  PoolInv'
<1> DEFINE q == [at[t] EXCEPT !.node = offset]
<1>1. /\ at[t].pc = "bump" /\ at[t] \in Locals /\ at' = [at EXCEPT ![t] = q]
      /\ UNCHANGED <<head, tag, next, offset, used, extent>>
  BY Types DEF BumpAgain
<1>2. q \in Locals /\ q.pc = "bump" /\ q.size = at[t].size /\ q.stack = at[t].stack
  BY <1>1, Types DEF Locals
<1>3. ~Releasing(t) /\ at[t].size \in Sizes /\ at[t].stack = AllocClass(at[t].size)
  BY <1>1 DEF Releasing, Fit, Reserving
<1> HIDE DEF q
<1> QED
  BY <1>1, <1>2, <1>3, QuietStep

\* bad_alloc changes nothing.
LEMMA NoMemoryKeeps ==
    ASSUME TypeOK, NEW z, NEW n, Fit(z, n), NEW t \in Workers, NoMemory(t)
    PROVE  PoolInv'
<1>1. /\ at[t].pc = "bump" /\ at' = [at EXCEPT ![t] = Idle]
      /\ UNCHANGED <<head, tag, next, offset, used, extent>>
  BY DEF NoMemory
<1>2. Idle \in Locals /\ Idle.pc = "idle"
  BY LinkKinds DEF Idle, Locals
<1>3. ~Releasing(t)
  BY <1>1 DEF Releasing
<1> QED
  BY <1>1, <1>2, <1>3, QuietStep

-----------------------------------------------------------------------------
(* The steps that change more than a thread's own variables. *)

\* Links of a pile are of pushes, or null below it.
LEMMA PileLinks ==
    ASSUME NEW z, NEW n, Fit(z, n), NEW s \in Stacks
    PROVE  /\ n[s] \in Nat
           /\ \A i \in 1..n[s] : z[s][i] \in Pushes /\ z[s][i][2] \in Addrs
           /\ \A i \in 0..n[s] : z[s][i] \in Links \ {Junk}
<1>1. n[s] \in Nat /\ z[s][0] = Null /\ \A i \in 1..n[s] : z[s][i] \in Pushes
  BY DEF Fit, Piles, Linked
<1> QED
  BY <1>1, LinkKinds

\* Releasing a block draws a tag that nobody has seen: the block is the thread's own.
LEMMA DeallocKeeps ==
    ASSUME TypeOK, NEW z, NEW n, Fit(z, n), NEW t \in Workers, NEW a \in Addrs,
           Dealloc(t, a)
    PROVE  PoolInv'
<1> DEFINE s == DeallocClass(used[a])
           q == [Idle EXCEPT !.pc = "link", !.stack = s, !.node = a,
                             !.tag = tag[s] + 1, !.old = head[s]]
<1>1. /\ at[t].pc = "idle" /\ used[a] # 0 /\ tag[s] < MaxTag
      /\ used' = [used EXCEPT ![a] = 0]
      /\ tag' = [tag EXCEPT ![s] = @ + 1]
      /\ at' = [at EXCEPT ![t] = q]
      /\ UNCHANGED <<head, next, offset, extent>>
  BY DEF Dealloc
<1>2. used[a] \in Sizes /\ s \in Stacks
  BY <1>1, Types, ClassesFit
<1>3. extent[a] \in Stacks /\ s =< extent[a]
  <2>1. used[a] =< LineSize * extent[a] /\ extent[a] \in {0} \union Stacks
    BY Types DEF Fit, BlocksApart
  <2>2. used[a] \in Nat \ {0}
    BY <1>2, SizesType
  <2>3. extent[a] # 0
    BY <2>1, <2>2 DEF LineSize
  <2> QED
    BY <1>2, <2>1, <2>3, ClassesFit, StackType
<1> HIDE DEF s
<1>4. tag[s] \in 0..MaxTag /\ tag[s] + 1 \in 1..MaxTag /\ head[s] \in Links \ {Junk}
  BY <1>1, <1>2, Types, LinkKinds
<1>5. /\ q \in Locals /\ q.pc = "link" /\ q.stack = s /\ q.node = a
      /\ q.tag = tag[s] + 1 /\ q.old = head[s]
  <2>1. Null \in Links /\ 0 \in 0..MaxSize /\ 0 \in 0..MaxTag /\ a \in 0..MaxSize
        /\ tag[s] + 1 \in 0..MaxTag
    BY <1>4, LinkKinds DEF Addrs
  <2> QED
    BY <1>2, <1>4, <2>1 DEF Idle, Locals
<1> HIDE DEF q
<1>6. /\ at' \in [Workers -> Locals] /\ at'[t] = q
      /\ \A u \in Workers : u # t => at'[u] = at[u]
  BY <1>1, <1>5, Types
<1>7. /\ tag' \in [Stacks -> 0..MaxTag] /\ tag'[s] = tag[s] + 1
      /\ \A r \in Stacks : r # s => tag'[r] = tag[r]
  BY <1>1, <1>2, <1>4, Types
<1>8. \A r \in Stacks : /\ tag[r] \in Nat /\ tag'[r] \in Nat /\ tag[r] =< tag'[r]
  BY <1>2, <1>7, Types
<1>9. /\ used' \in [Addrs -> {0} \union Sizes] /\ used'[a] = 0
      /\ \A b \in Addrs : b # a => used'[b] = used[b]
  BY <1>1, Types
<1>10. TypeOK'
  BY <1>1, <1>6, <1>7, <1>9, Types DEF TypeOK, Locals
<1>11. \A r \in Stacks : \A i \in 1..n[r] : z[r][i][2] \in Addrs /\ z[r][i][2] # a
                                             /\ z[r][i][1] \in Nat /\ z[r][i][1] =< tag[r]
  BY <1>1, PileLinks, LinkKinds DEF Fit, FreeOnce, Linked
<1>12. \A u \in Workers : u # t =>
          /\ Releasing(u)' <=> Releasing(u)
          /\ Popping(u)' <=> Popping(u)
  BY <1>6 DEF Releasing, Popping
<1>13. Releasing(t)' /\ ~Releasing(t)
  BY <1>1, <1>5, <1>6 DEF Releasing
<1>14. Linked(z, n)'
  <2>1. SUFFICES ASSUME NEW r \in Stacks, NEW i \in 1..n[r] PROVE z[r][i][1] =< tag'[r]
    BY <1>1 DEF Fit, Linked
  <2> QED
    BY <1>8, <1>11
<1>15. FreeOnce(z, n)'
  BY <1>1, <1>9, <1>11 DEF Fit, FreeOnce
<1>16. OwnRelease(z, n)'
  <2>1. SUFFICES ASSUME NEW u \in Workers, Releasing(u)' PROVE Owns(z, n, at[u])'
    BY DEF OwnRelease
  <2>2. CASE u = t
    <3>1. \A i \in 1..n[s] : z[s][i][1] # tag[s] + 1
      BY <1>2, <1>8, <1>11
    <3>2. tag[s] + 1 \in 1..tag'[s] /\ extent'[a] >= s
      BY <1>1, <1>2, <1>3, <1>4, <1>7, SizesType
    <3> QED
      BY <1>2, <1>4, <1>5, <1>6, <1>9, <1>11, <2>2, <3>1, <3>2 DEF Owns
  <2>3. CASE u # t
    <3>1. Owns(z, n, at[u])
      BY <1>12, <2>1, <2>3 DEF Fit, OwnRelease
    <3>2. at[u].tag \in 1..tag'[at[u].stack]
      BY <1>8, <3>1 DEF Owns
    <3> QED
      BY <1>1, <1>6, <1>9, <2>3, <3>1, <3>2 DEF Owns
  <2> QED
    BY <2>2, <2>3
<1>17. Unseen'
  <2>1. SUFFICES ASSUME NEW u \in Workers, NEW v \in Workers, Releasing(u)', u # v
                 PROVE  /\ Releasing(v)' => at'[v].node # at'[u].node
                        /\ (Releasing(v) \/ Popping(v))' /\ at'[v].stack = at'[u].stack =>
                            IF Releasing(v)' THEN at'[v].tag # at'[u].tag
                            ELSE at'[v].old[1] # at'[u].tag
    BY DEF Unseen
  <2>2. ASSUME NEW w \in Workers, Releasing(w)
        PROVE  used[at[w].node] = 0 /\ at[w].stack \in Stacks
               /\ at[w].tag \in 1..tag[at[w].stack]
    BY <2>2 DEF Fit, OwnRelease, Owns
  <2>3. ASSUME NEW w \in Workers, Popping(w)
        PROVE  at[w].old[1] =< tag[at[w].stack] /\ at[w].old[1] \in Nat
    BY <2>3, LinkKinds DEF Fit, KnownBelow, Knows
  <2>4. CASE u = t
    <3>1. Releasing(v)' => Releasing(v) /\ at'[v].node # a
      BY <1>1, <1>6, <1>12, <2>1, <2>2, <2>4
    <3>2. ASSUME Releasing(v)', at'[v].stack = s PROVE at'[v].tag # tag[s] + 1
      BY <1>4, <1>6, <1>12, <2>1, <2>2, <2>4, <3>2
    <3>3. ASSUME Popping(v)', at'[v].stack = s PROVE at'[v].old[1] # tag[s] + 1
      BY <1>4, <1>6, <1>12, <2>1, <2>3, <2>4, <3>3
    <3> QED
      BY <1>5, <1>6, <2>4, <3>1, <3>2, <3>3
  <2>5. CASE v = t
    <3>1. Releasing(u) /\ at'[u] = at[u] /\ at[u].node # a
      BY <1>1, <1>6, <1>12, <2>1, <2>2, <2>5
    <3>2. at[u].stack = s => at[u].tag # tag[s] + 1
      BY <1>4, <2>2, <3>1
    <3> QED
      BY <1>5, <1>6, <1>13, <2>5, <3>1, <3>2
  <2>6. CASE u # t /\ v # t
    BY <1>6, <1>12, <2>1, <2>6 DEF Fit, Unseen
  <2> QED
    BY <2>4, <2>5, <2>6
<1>18. KnownBelow(z, n)'
  <2>1. SUFFICES ASSUME NEW u \in Workers, Popping(u)' PROVE Knows(z, n, at[u])'
    BY DEF KnownBelow
  <2>2. u # t
    BY <1>5, <1>6, <2>1 DEF Popping
  <2>3. Knows(z, n, at[u])
    BY <1>12, <2>1, <2>2 DEF Fit, KnownBelow
  <2>4. at[u].stack \in Stacks /\ at[u].old[1] \in Nat
    BY <2>3, ClassesFit, LinkKinds DEF Knows
  <2>5. at[u].old[1] =< tag'[at[u].stack]
    BY <1>8, <2>3, <2>4 DEF Knows
  <2> QED
    BY <1>6, <2>2, <2>3, <2>5 DEF Knows
<1>19. Reserving'
  BY <1>5, <1>6 DEF Fit, Reserving
<1>20. BlocksApart'
  <2>1. 0 =< LineSize * extent[a]
    <3>1. extent[a] \in Nat
      BY <1>3, SizesType
    <3> QED
      BY <3>1 DEF LineSize
  <2> QED
    BY <1>1, <1>9, <2>1 DEF Fit, BlocksApart
<1>21. NoneLost(z, n)'
  <2>1. SUFFICES ASSUME NEW b \in Addrs, extent[b] # 0
                 PROVE  \/ used'[b] # 0
                        \/ \E r \in Stacks : \E i \in 1..n[r] : z[r][i][2] = b
                        \/ \E u \in Workers : Releasing(u)' /\ at'[u].node = b
    BY <1>1 DEF NoneLost
  <2>2. CASE b = a
    BY <1>5, <1>6, <1>13, <2>2
  <2>3. CASE b # a
    BY <1>6, <1>9, <1>12, <1>13, <2>1, <2>3 DEF Fit, NoneLost
  <2> QED
    BY <2>2, <2>3
<1> QED
  BY <1>10, <1>14, <1>15, <1>16, <1>17, <1>18, <1>19, <1>20, <1>21 DEF PoolInv, Fit

\* While a thread links its block to the head, only that block's link and its own
\* variables change.
LEMMA LinkStep ==
    ASSUME TypeOK, NEW z, NEW n, Fit(z, n), NEW t \in Workers, Releasing(t),
           NEW r \in Locals, r.pc \in {"link", "push"},
           r.stack = at[t].stack, r.node = at[t].node, r.tag = at[t].tag, r.old # Junk,
           NEW x \in Links, next' = [next EXCEPT ![at[t].node] = x],
           r.pc = "push" => x = r.old,
           at' = [at EXCEPT ![t] = r],
           UNCHANGED <<head, tag, offset, used, extent>>
    PROVE  PoolInv'
<1> DEFINE a == at[t].node
<1>1. /\ at' \in [Workers -> Locals] /\ at'[t] = r
      /\ \A u \in Workers : u # t => at'[u] = at[u]
  BY Types
<1>2. Owns(z, n, at[t]) /\ a \in Addrs
  BY DEF Fit, OwnRelease, Owns
<1>3. /\ next' \in [Addrs -> Links] /\ next'[a] = x
      /\ \A b \in Addrs : b # a => next'[b] = next[b]
  BY <1>2, Types
<1>4. TypeOK'
  BY <1>1, <1>3, Types DEF TypeOK, Locals
<1>5. \A u \in Workers : /\ Releasing(u)' <=> Releasing(u)
                         /\ Popping(u)' <=> Popping(u)
  BY <1>1 DEF Releasing, Popping
<1>6. Linked(z, n)'
  <2>1. \A s \in Stacks : \A i \in 1..n[s] : z[s][i][2] \in Addrs /\ z[s][i][2] # a
    BY <1>2, PileLinks DEF Owns
  <2> QED
    BY <1>3, <2>1 DEF Fit, Linked
<1>7. FreeOnce(z, n)' /\ BlocksApart' /\ Reserving'
  BY <1>1 DEF Fit, FreeOnce, BlocksApart, Reserving
<1>8. OwnRelease(z, n)'
  <2>1. SUFFICES ASSUME NEW u \in Workers, Releasing(u)' PROVE Owns(z, n, at[u])'
    BY DEF OwnRelease
  <2>2. CASE u = t
    BY <1>1, <1>2, <1>3, <2>2 DEF Owns
  <2>3. CASE u # t
    <3>1. Owns(z, n, at[u]) /\ at[u].node # a
      BY <1>5, <2>1, <2>3 DEF Fit, OwnRelease, Unseen
    <3> QED
      BY <1>1, <1>3, <2>3, <3>1 DEF Owns
  <2> QED
    BY <2>2, <2>3
<1>9. Unseen'
  <2>1. \A u \in Workers : /\ at'[u].stack = at[u].stack /\ at'[u].tag = at[u].tag
                           /\ Releasing(u) => at'[u].node = at[u].node
                           /\ Popping(u) => at'[u].old = at[u].old
    BY <1>1, <1>5 DEF Popping
  <2> QED
    BY <1>5, <2>1 DEF Fit, Unseen
<1>10. KnownBelow(z, n)'
  <2>1. SUFFICES ASSUME NEW u \in Workers, Popping(u)' PROVE Knows(z, n, at[u])'
    BY DEF KnownBelow
  <2>2. u # t /\ Knows(z, n, at[u])
    BY <1>1, <1>5, <2>1 DEF Fit, KnownBelow, Popping
  <2> QED
    BY <1>1, <2>2 DEF Knows
<1>11. NoneLost(z, n)'
  <2>1. \A u \in Workers : Releasing(u) => Releasing(u)' /\ at'[u].node = at[u].node
    BY <1>1, <1>5
  <2> QED
    BY <2>1 DEF Fit, NoneLost
<1>12. Piles(z, n)
  BY DEF Fit
<1> QED
  BY <1>4, <1>6, <1>7, <1>8, <1>9, <1>10, <1>11, <1>12 DEF PoolInv, Fit

\* The block is linked to the head that was seen.
LEMMA SetNextKeeps ==
    ASSUME TypeOK, NEW z, NEW n, Fit(z, n), NEW t \in Workers, SetNext(t)
    PROVE  PoolInv'
<1> DEFINE r == [at[t] EXCEPT !.pc = "push"]
<1>1. /\ at[t].pc = "link" /\ at[t] \in Locals /\ at' = [at EXCEPT ![t] = r]
      /\ next' = [next EXCEPT ![at[t].node] = at[t].old]
      /\ UNCHANGED <<head, tag, offset, used, extent>>
  BY Types DEF SetNext
<1>2. Releasing(t) /\ at[t].old # Junk
  BY <1>1 DEF Releasing, Fit, OwnRelease, Owns
<1>3. /\ r \in Locals /\ r.pc = "push" /\ r.stack = at[t].stack /\ r.node = at[t].node
      /\ r.tag = at[t].tag /\ r.old = at[t].old /\ at[t].old \in Links
  BY <1>1 DEF Locals
<1> HIDE DEF r
<1> QED
  BY <1>1, <1>2, <1>3, LinkStep

\* A failed exchange looks at the head and links the block again.
LEMMA PushAgainKeeps ==
    ASSUME TypeOK, NEW z, NEW n, Fit(z, n), NEW t \in Workers, PushAgain(t)
    PROVE  PoolInv'
<1> DEFINE h == head[at[t].stack]
           r == [at[t] EXCEPT !.old = h, !.pc = "link"]
           x == next[at[t].node]
<1>1. /\ at[t].pc = "push" /\ at[t] \in Locals /\ at' = [at EXCEPT ![t] = r]
      /\ UNCHANGED <<head, tag, next, offset, used, extent>>
  BY Types DEF PushAgain
<1>2. Releasing(t) /\ at[t].stack \in Stacks /\ at[t].node \in Addrs
  BY <1>1 DEF Releasing, Fit, OwnRelease, Owns
<1>3. h \in Links /\ h # Junk /\ x \in Links /\ next' = [next EXCEPT ![at[t].node] = x]
  BY <1>1, <1>2, Types
<1> HIDE DEF h, x
<1>4. /\ r \in Locals /\ r.pc = "link" /\ r.stack = at[t].stack /\ r.node = at[t].node
      /\ r.tag = at[t].tag /\ r.old = h
  BY <1>1, <1>3 DEF Locals
<1> HIDE DEF r
<1> QED
  BY <1>1, <1>2, <1>3, <1>4, LinkStep

\* The user of a block writes to a block in use, which is in no pile and not
\* released.
LEMMA WriteKeeps ==
    ASSUME TypeOK, NEW z, NEW n, Fit(z, n), NEW a \in Addrs, Write(a)
    PROVE  PoolInv'
<1>1. /\ used[a] # 0 /\ next' = [next EXCEPT ![a] = Junk]
      /\ UNCHANGED <<head, tag, offset, used, extent, at>>
  BY DEF Write
<1>2. /\ next' \in [Addrs -> Links]
      /\ \A b \in Addrs : b # a => next'[b] = next[b]
  BY <1>1, LinkKinds, Types
<1>3. TypeOK'
  BY <1>1, <1>2, Types DEF TypeOK, Locals
<1>4. Linked(z, n)'
  <2>1. \A s \in Stacks : \A i \in 1..n[s] : z[s][i][2] \in Addrs /\ z[s][i][2] # a
    BY <1>1, PileLinks DEF Fit, FreeOnce
  <2> QED
    BY <1>1, <1>2, <2>1 DEF Fit, Linked
<1>5. OwnRelease(z, n)'
  <2>1. SUFFICES ASSUME NEW u \in Workers, Releasing(u)' PROVE Owns(z, n, at[u])'
    BY DEF OwnRelease
  <2>2. Owns(z, n, at[u])
    BY <1>1, <2>1 DEF Fit, OwnRelease, Releasing
  <2>3. at[u].node # a /\ at[u].node \in Addrs
    BY <1>1, <2>2 DEF Owns
  <2> QED
    BY <1>1, <1>2, <2>2, <2>3 DEF Owns
<1>6. FreeOnce(z, n)' /\ Unseen' /\ KnownBelow(z, n)' /\ Reserving' /\ BlocksApart'
      /\ NoneLost(z, n)'
  BY <1>1 DEF Fit, FreeOnce, Unseen, KnownBelow, Knows, Reserving, BlocksApart, NoneLost,
              Releasing, Popping
<1>7. Piles(z, n)
  BY DEF Fit
<1> QED
  BY <1>3, <1>4, <1>5, <1>6, <1>7 DEF PoolInv, Fit

\* A block that reserve() hands out begins where all others have ended.
LEMMA BumpKeeps ==
    ASSUME TypeOK, NEW z, NEW n, Fit(z, n), NEW t \in Workers, Bump(t)
    PROVE  PoolInv'
<1> DEFINE a == at[t].node
           s == at[t].stack
           size == at[t].size
<1>1. /\ at[t].pc = "bump" /\ a + s =< MaxSize /\ offset = a /\ offset' = a + s
      /\ used' = [used EXCEPT ![a] = size]
      /\ extent' = [extent EXCEPT ![a] = s]
      /\ at' = [at EXCEPT ![t] = Idle]
      /\ UNCHANGED <<head, tag, next>>
  BY DEF Bump
<1>2. size \in Sizes /\ s = AllocClass(size) /\ s \in Stacks
  BY <1>1, ClassesFit DEF Fit, Reserving
<1>3. s \in Nat \ {0} /\ MaxSize \in Nat /\ a \in 0..MaxSize /\ size \in Nat \ {0}
  BY <1>2, SizesType, LinkKinds, Types DEF Locals
<1>4. size =< LineSize * s
  BY <1>2, ClassesFit
<1> HIDE DEF a, s, size
<1>5. a \in Addrs /\ a + s \in 0..MaxSize
  BY <1>1, <1>3 DEF Addrs
<1>6. \A b \in Addrs : extent[b] # 0 => b + extent[b] =< a
  BY <1>1 DEF Fit, BlocksApart
<1>7. \A b \in Addrs : b \in Nat /\ extent[b] \in Nat
  BY BlockNumbers
<1>8. extent[a] = 0
  BY <1>5, <1>6, <1>7
<1>9. used[a] = 0
  <2>1. used[a] =< LineSize * extent[a]
    BY <1>5 DEF Fit, BlocksApart
  <2>2. used[a] \in Nat
    BY <1>5, BlockNumbers
  <2> QED
    BY <1>8, <2>1, <2>2 DEF LineSize
<1>10. Idle \in Locals /\ Idle.pc = "idle"
  BY LinkKinds DEF Idle, Locals
<1>11. /\ at' \in [Workers -> Locals] /\ at'[t].pc = "idle"
       /\ \A u \in Workers : u # t => at'[u] = at[u]
  BY <1>1, <1>10, Types
<1>12. /\ used' \in [Addrs -> {0} \union Sizes] /\ used'[a] = size
       /\ \A b \in Addrs : b # a => used'[b] = used[b]
  BY <1>1, <1>2, <1>5, Types
<1>13. /\ extent' \in [Addrs -> {0} \union Stacks] /\ extent'[a] = s
       /\ \A b \in Addrs : b # a => extent'[b] = extent[b]
  BY <1>1, <1>2, <1>5, Types
<1>14. TypeOK'
  BY <1>1, <1>5, <1>11, <1>12, <1>13, Types DEF TypeOK, Locals
<1>15. \A u \in Workers : u # t => /\ Releasing(u)' <=> Releasing(u)
                                   /\ Popping(u)' <=> Popping(u)
  BY <1>11 DEF Releasing, Popping
<1>16. ~Releasing(t)' /\ ~Popping(t)' /\ ~Releasing(t)
  BY <1>1, <1>11 DEF Releasing, Popping
<1>17. ASSUME NEW b \in Addrs, NEW r \in Stacks, extent[b] >= r PROVE b # a
  BY <1>8, <1>17, SizesType
<1>18. Piles(z, n) /\ Linked(z, n)'
  BY <1>1 DEF Fit, Linked
<1>19. FreeOnce(z, n)'
  <2>1. \A r \in Stacks : \A i \in 1..n[r] : z[r][i][2] \in Addrs /\ z[r][i][2] # a
    BY <1>17, PileLinks DEF Fit, FreeOnce
  <2> QED
    BY <1>12, <1>13, <2>1 DEF Fit, FreeOnce
<1>20. OwnRelease(z, n)'
  <2>1. SUFFICES ASSUME NEW u \in Workers, Releasing(u)' PROVE Owns(z, n, at[u])'
    BY DEF OwnRelease
  <2>2. u # t /\ Owns(z, n, at[u])
    BY <1>15, <1>16, <2>1 DEF Fit, OwnRelease
  <2>3. at[u].node # a
    BY <1>17, <2>2 DEF Owns
  <2> QED
    BY <1>1, <1>11, <1>12, <1>13, <2>2, <2>3 DEF Owns
<1>21. Unseen'
  BY <1>11, <1>15, <1>16 DEF Fit, Unseen
<1>22. KnownBelow(z, n)'
  <2>1. SUFFICES ASSUME NEW u \in Workers, Popping(u)' PROVE Knows(z, n, at[u])'
    BY DEF KnownBelow
  <2>2. u # t /\ Knows(z, n, at[u])
    BY <1>15, <1>16, <2>1 DEF Fit, KnownBelow
  <2> QED
    BY <1>1, <1>11, <2>2 DEF Knows
<1>23. Reserving'
  BY <1>11 DEF Fit, Reserving
<1>24. BlocksApart'
  <2>1. \A b \in Addrs : extent'[b] # 0 => b + extent'[b] =< offset'
    BY <1>1, <1>3, <1>6, <1>7, <1>13
  <2>2. ASSUME NEW b \in Addrs, NEW c \in Addrs, b < c, extent'[b] # 0, extent'[c] # 0
        PROVE  b + extent'[b] =< c
    <3>1. CASE b = a
      BY <1>3, <1>6, <1>7, <1>13, <2>2, <3>1
    <3>2. CASE c = a
      BY <1>6, <1>7, <1>13, <2>2, <3>2
    <3>3. CASE b # a /\ c # a
      <4>1. extent'[b] = extent[b] /\ extent[c] # 0 /\ extent[b] # 0
        BY <1>13, <2>2, <3>3
      <4>2. b + extent[b] =< c
        BY <2>2, <4>1 DEF Fit, BlocksApart
      <4> QED
        BY <4>1, <4>2
    <3> QED
      BY <3>1, <3>2, <3>3
  <2>3. \A b \in Addrs : used'[b] =< LineSize * extent'[b]
    BY <1>4, <1>12, <1>13 DEF Fit, BlocksApart
  <2> QED
    BY <2>1, <2>2, <2>3 DEF BlocksApart
<1>25. NoneLost(z, n)'
  <2>1. SUFFICES ASSUME NEW b \in Addrs, extent'[b] # 0
                 PROVE  \/ used'[b] # 0
                        \/ \E r \in Stacks : \E i \in 1..n[r] : z[r][i][2] = b
                        \/ \E u \in Workers : Releasing(u)' /\ at'[u].node = b
    BY DEF NoneLost
  <2>2. CASE b = a
    BY <1>3, <1>12, <2>2
  <2>3. CASE b # a
    BY <1>11, <1>12, <1>13, <1>15, <1>16, <2>1, <2>3 DEF Fit, NoneLost
  <2> QED
    BY <2>2, <2>3
<1> QED
  BY <1>14, <1>18, <1>19, <1>20, <1>21, <1>22, <1>23, <1>24, <1>25 DEF PoolInv, Fit

\* The exchange of pop() takes the top of the pile: what the thread read in the node
\* is the link below it.
LEMMA PopDoneKeeps ==
    ASSUME TypeOK, NEW z, NEW n, Fit(z, n), NEW t \in Workers, PopDone(t)
    PROVE  PoolInv'
<1> DEFINE s == at[t].stack
           a == at[t].node
           size == at[t].size
<1>1. /\ at[t].pc = "pop" /\ head[s] = at[t].old
      /\ head' = [head EXCEPT ![s] = at[t].nxt]
      /\ used' = [used EXCEPT ![a] = size]
      /\ at' = [at EXCEPT ![t] = Idle]
      /\ UNCHANGED <<tag, next, offset, extent>>
  BY DEF PopDone, SameLink
<1>2. Popping(t) /\ ~Releasing(t) /\ Knows(z, n, at[t])
  BY <1>1 DEF Popping, Releasing, Fit, KnownBelow
<1>3. /\ size \in Sizes /\ s = AllocClass(size) /\ s \in Stacks
      /\ at[t].old \in Pushes /\ a = at[t].old[2] /\ a \in Addrs
  BY <1>2, ClassesFit, LinkKinds DEF Knows
<1>4. n[s] \in Nat /\ n[s] \in 1..n[s] /\ z[s][n[s]] = at[t].old
  <2>1. n[s] \in Nat /\ z[s][0] = Null /\ z[s][n[s]] = at[t].old
    BY <1>1, <1>3 DEF Fit, Piles, Linked
  <2> QED
    BY <1>3, <2>1, LinkKinds
<1>5. at[t].nxt = z[s][n[s] - 1] /\ at[t].nxt \in Links \ {Junk}
  BY <1>1, <1>2, <1>3, <1>4, PileLinks DEF Knows
<1>6. size =< LineSize * extent[a] /\ size \in Nat \ {0} /\ extent[a] \in Nat
      /\ extent[a] # 0
  <2>1. extent[a] >= s
    BY <1>3, <1>4 DEF Fit, FreeOnce
  <2>2. extent[a] \in Nat /\ s \in Nat \ {0} /\ size \in Nat \ {0}
    BY <1>3, SizesType, BlockNumbers
  <2>3. size =< LineSize * s
    BY <1>3, ClassesFit
  <2> QED
    BY <2>1, <2>2, <2>3 DEF LineSize
<1>7. PICK m \in [Stacks -> Nat] :
        m[s] = n[s] - 1 /\ \A r \in Stacks : r # s => m[r] = n[r]
  <2> DEFINE k == [n EXCEPT ![s] = @ - 1]
  <2>1. /\ k \in [Stacks -> Nat] /\ k[s] = n[s] - 1
        /\ \A r \in Stacks : r # s => k[r] = n[r]
    BY <1>3, <1>4 DEF Fit, Piles
  <2> QED
    BY <2>1
<1>8. \A r \in Stacks : \A i \in 1..m[r] : i \in 1..n[r]
  <2>1. \A r \in Stacks : n[r] \in Nat /\ m[r] \in Nat /\ m[r] =< n[r]
    BY <1>3, <1>4, <1>7, PileLinks
  <2> QED
    BY <2>1
<1> HIDE DEF s, a, size
<1>9. Idle \in Locals /\ Idle.pc = "idle"
  BY LinkKinds DEF Idle, Locals
<1>10. /\ at' \in [Workers -> Locals] /\ at'[t].pc = "idle"
       /\ \A u \in Workers : u # t => at'[u] = at[u]
  BY <1>1, <1>9, Types
<1>11. /\ used' \in [Addrs -> {0} \union Sizes] /\ used'[a] = size
       /\ \A b \in Addrs : b # a => used'[b] = used[b]
  BY <1>1, <1>3, Types
<1>12. /\ head' \in [Stacks -> Links \ {Junk}] /\ head'[s] = z[s][n[s] - 1]
       /\ \A r \in Stacks : r # s => head'[r] = head[r]
  BY <1>1, <1>3, <1>5, Types
<1>13. TypeOK'
  BY <1>1, <1>10, <1>11, <1>12, Types DEF TypeOK, Locals
<1>14. \A u \in Workers : u # t => /\ Releasing(u)' <=> Releasing(u)
                                   /\ Popping(u)' <=> Popping(u)
  BY <1>10 DEF Releasing, Popping
<1>15. ~Releasing(t)' /\ ~Popping(t)'
  BY <1>10 DEF Releasing, Popping
<1>16. \A r \in Stacks : \A i \in 1..m[r] : z[r][i][2] \in Addrs /\ z[r][i][2] # a
  <2>1. SUFFICES ASSUME NEW r \in Stacks, NEW i \in 1..m[r], z[r][i][2] = a PROVE FALSE
    BY <1>8, PileLinks
  <2>2. r = s /\ i = n[s]
    BY <1>3, <1>4, <1>8, <2>1 DEF Fit, FreeOnce
  <2> QED
    BY <1>4, <1>7, <2>1, <2>2
<1>17. Piles(z, m)
  BY <1>7 DEF Fit, Piles
<1>18. Linked(z, m)'
  <2>1. \A r \in Stacks : head'[r] = z[r][m[r]]
    BY <1>7, <1>12 DEF Fit, Linked
  <2> QED
    BY <1>1, <1>8, <2>1 DEF Fit, Linked
<1>19. FreeOnce(z, m)'
  <2>1. \A r \in Stacks : \A i \in 1..m[r] :
          used'[z[r][i][2]] = 0 /\ extent'[z[r][i][2]] >= r
    BY <1>1, <1>8, <1>11, <1>16 DEF Fit, FreeOnce
  <2> QED
    BY <1>8, <2>1 DEF Fit, FreeOnce
<1>20. OwnRelease(z, m)'
  <2>1. SUFFICES ASSUME NEW u \in Workers, Releasing(u)' PROVE Owns(z, m, at[u])'
    BY DEF OwnRelease
  <2>2. u # t /\ Owns(z, n, at[u])
    BY <1>14, <1>15, <2>1 DEF Fit, OwnRelease
  <2>3. at[u].node # a
    BY <1>3, <1>4, <2>2 DEF Owns
  <2> QED
    BY <1>1, <1>8, <1>10, <1>11, <2>2, <2>3 DEF Owns
<1>21. Unseen'
  BY <1>10, <1>14, <1>15 DEF Fit, Unseen
<1>22. KnownBelow(z, m)'
  <2>1. SUFFICES ASSUME NEW u \in Workers, Popping(u)' PROVE Knows(z, m, at[u])'
    BY DEF KnownBelow
  <2>2. u # t /\ Knows(z, n, at[u])
    BY <1>14, <1>15, <2>1 DEF Fit, KnownBelow
  <2>3. at[u].stack \in Stacks
    BY <2>2, ClassesFit DEF Knows
  <2> QED
    BY <1>1, <1>8, <1>10, <2>2, <2>3 DEF Knows
<1>23. Reserving'
  BY <1>10 DEF Fit, Reserving
<1>24. BlocksApart'
  BY <1>1, <1>6, <1>11 DEF Fit, BlocksApart
<1>25. NoneLost(z, m)'
  <2>1. SUFFICES ASSUME NEW b \in Addrs, extent[b] # 0
                 PROVE  \/ used'[b] # 0
                        \/ \E r \in Stacks : \E i \in 1..m[r] : z[r][i][2] = b
                        \/ \E u \in Workers : Releasing(u)' /\ at'[u].node = b
    BY <1>1 DEF NoneLost
  <2>2. CASE b = a
    BY <1>6, <1>11, <2>2
  <2>3. CASE b # a
    <3>1. CASE used[b] # 0
      BY <1>11, <2>3, <3>1
    <3>2. CASE \E u \in Workers : Releasing(u) /\ at[u].node = b
      BY <1>2, <1>10, <1>14, <3>2
    <3>3. CASE \E r \in Stacks : \E i \in 1..n[r] : z[r][i][2] = b
      <4>1. PICK r \in Stacks : \E i \in 1..n[r] : z[r][i][2] = b
        BY <3>3
      <4>2. PICK i \in 1..n[r] : z[r][i][2] = b
        BY <4>1
      <4>3. ~(r = s /\ i = n[s])
        BY <1>3, <1>4, <2>3, <4>2
      <4>4. i \in 1..m[r]
        BY <1>4, <1>7, <4>1, <4>2, <4>3
      <4> QED
        BY <4>1, <4>2, <4>4
    <3> QED
      BY <2>1, <3>1, <3>2, <3>3 DEF Fit, NoneLost
  <2> QED
    BY <2>2, <2>3
<1>26. Fit(z, m)'
  BY <1>17, <1>18, <1>19, <1>20, <1>21, <1>22, <1>23, <1>24, <1>25 DEF Fit
<1> QED
  BY <1>13, <1>26 DEF PoolInv

\* The exchange of push() puts a link that nobody has seen on top of the pile that its
\* block was linked to.
LEMMA PushDoneKeeps ==
    ASSUME TypeOK, NEW z, NEW n, Fit(z, n), NEW t \in Workers, PushDone(t)
    PROVE  PoolInv'
<1> DEFINE s == at[t].stack
           a == at[t].node
           h == <<at[t].tag, a>>
<1>1. /\ at[t].pc = "push" /\ head[s] = at[t].old
      /\ head' = [head EXCEPT ![s] = h]
      /\ at' = [at EXCEPT ![t] = Idle]
      /\ UNCHANGED <<tag, next, offset, used, extent>>
  BY DEF PushDone
<1>2. Releasing(t) /\ Owns(z, n, at[t])
  BY <1>1 DEF Releasing, Fit, OwnRelease
<1>3. s \in Stacks /\ a \in Addrs /\ at[t].tag \in 1..tag[s] /\ next[a] = head[s]
  BY <1>1, <1>2 DEF Owns
<1>4. /\ h \in Pushes /\ h \in Links \ {Junk} /\ h[1] = at[t].tag /\ h[2] = a
      /\ h[1] =< tag[s]
  <2>1. tag[s] \in 0..MaxTag
    BY <1>3, Types
  <2>2. at[t].tag \in 1..MaxTag /\ at[t].tag =< tag[s]
    BY <1>3, <2>1, LinkKinds
  <2> QED
    BY <1>3, <2>2, LinkKinds DEF Pushes
<1> HIDE DEF s, a, h
<1>5. n[s] \in Nat /\ head[s] = z[s][n[s]]
  BY <1>3 DEF Fit, Piles, Linked
<1>6. PICK k \in Nat : k = n[s] + 1
  BY <1>5
<1>7. PICK m \in [Stacks -> Nat] :
        m[s] = k /\ \A r \in Stacks : r # s => m[r] = n[r]
  <2> DEFINE x == [n EXCEPT ![s] = k]
  <2>1. /\ x \in [Stacks -> Nat] /\ x[s] = k
        /\ \A r \in Stacks : r # s => x[r] = n[r]
    BY <1>3 DEF Fit, Piles
  <2> QED
    BY <2>1
<1>8. PICK y \in [Stacks -> [Nat -> Links]] :
        /\ y[s][k] = h /\ \A i \in Nat : i # k => y[s][i] = z[s][i]
        /\ \A r \in Stacks : r # s => y[r] = z[r]
  <2> DEFINE p == [z[s] EXCEPT ![k] = h]
             x == [z EXCEPT ![s] = p]
  <2>1. z \in [Stacks -> [Nat -> Links]] /\ z[s] \in [Nat -> Links] /\ h \in Links
    BY <1>3, <1>4 DEF Fit, Piles
  <2>2. p \in [Nat -> Links] /\ p[k] = h /\ \A i \in Nat : i # k => p[i] = z[s][i]
    BY <2>1
  <2> HIDE DEF p
  <2>3. /\ x \in [Stacks -> [Nat -> Links]] /\ x[s] = p
        /\ \A r \in Stacks : r # s => x[r] = z[r]
    BY <1>3, <2>1, <2>2
  <2> QED
    BY <2>2, <2>3
<1>9. \A r \in Stacks : \A i \in 0..n[r] : y[r][i] = z[r][i]
  BY <1>5, <1>6, <1>8, PileLinks
<1>10. \A r \in Stacks : \A i \in 1..m[r] :
          (r = s /\ i = k) \/ (i \in 1..n[r] /\ y[r][i] = z[r][i])
  <2>1. SUFFICES ASSUME NEW r \in Stacks, NEW i \in 1..m[r], ~(r = s /\ i = k)
                 PROVE  i \in 1..n[r]
    BY <1>9, PileLinks
  <2>2. CASE r = s
    BY <1>5, <1>6, <1>7, <2>1, <2>2
  <2>3. CASE r # s
    BY <1>7, <2>1, <2>3
  <2> QED
    BY <2>2, <2>3
<1>11. \A r \in Stacks : \A i \in 1..n[r] :
          z[r][i][2] \in Addrs /\ z[r][i][2] # a /\ i \in 1..m[r] /\ y[r][i] = z[r][i]
  <2>1. SUFFICES ASSUME NEW r \in Stacks, NEW i \in 1..n[r]
                 PROVE  i \in 1..m[r] /\ y[r][i] = z[r][i]
    BY <1>2, PileLinks DEF Owns, a
  <2>2. n[r] \in Nat
    BY PileLinks
  <2>3. CASE r = s
    BY <1>5, <1>6, <1>7, <1>9, <2>1, <2>2, <2>3
  <2>4. CASE r # s
    BY <1>7, <1>9, <2>1, <2>2, <2>4
  <2> QED
    BY <2>3, <2>4
<1>12. Idle \in Locals /\ Idle.pc = "idle"
  BY LinkKinds DEF Idle, Locals
<1>13. /\ at' \in [Workers -> Locals] /\ at'[t].pc = "idle"
       /\ \A u \in Workers : u # t => at'[u] = at[u]
  BY <1>1, <1>12, Types
<1>14. /\ head' \in [Stacks -> Links \ {Junk}] /\ head'[s] = h
       /\ \A r \in Stacks : r # s => head'[r] = head[r]
  BY <1>1, <1>3, <1>4, Types
<1>15. TypeOK'
  BY <1>1, <1>13, <1>14, Types DEF TypeOK, Locals
<1>16. \A u \in Workers : u # t => /\ Releasing(u)' <=> Releasing(u)
                                   /\ Popping(u)' <=> Popping(u)
  BY <1>13 DEF Releasing, Popping
<1>17. ~Releasing(t)' /\ ~Popping(t)'
  BY <1>13 DEF Releasing, Popping
<1>18. Piles(y, m)
  BY <1>9, PileLinks DEF Fit, Piles
<1>19. Linked(y, m)'
  <2>1. \A r \in Stacks : head'[r] = y[r][m[r]]
    BY <1>7, <1>8, <1>14 DEF Fit, Linked
  <2>2. ASSUME NEW r \in Stacks, NEW i \in 1..m[r]
        PROVE  /\ y[r][i] \in Pushes /\ y[r][i][1] =< tag[r]
               /\ next[y[r][i][2]] = y[r][i - 1]
    <3>1. CASE r = s /\ i = k
      <4>1. i - 1 = n[s] /\ y[s][n[s]] = z[s][n[s]]
        BY <1>5, <1>6, <1>9, <1>3, <3>1
      <4> QED
        BY <1>3, <1>4, <1>5, <1>8, <3>1, <4>1
    <3>2. CASE i \in 1..n[r] /\ y[r][i] = z[r][i]
      <4>1. i - 1 \in 0..n[r]
        BY <3>2, PileLinks
      <4>2. y[r][i - 1] = z[r][i - 1]
        BY <1>9, <4>1
      <4> QED
        BY <3>2, <4>2 DEF Fit, Linked
    <3> QED
      BY <1>10, <3>1, <3>2
  <2> QED
    BY <1>1, <2>1, <2>2 DEF Linked
<1>20. FreeOnce(y, m)'
  <2>1. ASSUME NEW r \in Stacks, NEW i \in 1..m[r]
        PROVE  used[y[r][i][2]] = 0 /\ extent[y[r][i][2]] >= r
    BY <1>2, <1>4, <1>8, <1>10 DEF Fit, FreeOnce, Owns, s, a
  <2>2. ASSUME NEW r \in Stacks, NEW i \in 1..m[r], NEW q \in Stacks, NEW j \in 1..m[q],
               y[r][i][2] = y[q][j][2]
        PROVE  r = q /\ i = j
    <3>1. CASE r = s /\ i = k
      BY <1>4, <1>8, <1>10, <1>11, <2>2, <3>1
    <3>2. CASE q = s /\ j = k
      BY <1>4, <1>8, <1>10, <1>11, <2>2, <3>2
    <3>3. CASE ~(r = s /\ i = k) /\ ~(q = s /\ j = k)
      BY <1>10, <2>2, <3>3 DEF Fit, FreeOnce
    <3> QED
      BY <3>1, <3>2, <3>3
  <2> QED
    BY <1>1, <2>1, <2>2 DEF FreeOnce
<1>21. OwnRelease(y, m)'
  <2>1. SUFFICES ASSUME NEW u \in Workers, Releasing(u)' PROVE Owns(y, m, at[u])'
    BY DEF OwnRelease
  <2>2. u # t /\ Releasing(u) /\ Owns(z, n, at[u]) /\ at'[u] = at[u]
    BY <1>13, <1>16, <1>17, <2>1 DEF Fit, OwnRelease
  <2>3. at[u].node # a /\ (at[u].stack = s => at[u].tag # h[1])
    BY <1>2, <1>4, <2>2 DEF Fit, Unseen, a, s
  <2>4. \A r \in Stacks : \A i \in 1..m[r] : y[r][i][2] # at[u].node
    BY <1>4, <1>8, <1>10, <2>2, <2>3 DEF Owns
  <2>5. at[u].stack \in Stacks
    BY <2>2 DEF Owns
  <2>6. \A i \in 1..m[at[u].stack] : y[at[u].stack][i][1] # at[u].tag
    BY <1>8, <1>10, <2>2, <2>3, <2>5 DEF Owns
  <2> QED
    BY <1>1, <2>2, <2>4, <2>6 DEF Owns
<1>22. Unseen'
  BY <1>13, <1>16, <1>17 DEF Fit, Unseen
<1>23. KnownBelow(y, m)'
  <2>1. SUFFICES ASSUME NEW u \in Workers, Popping(u)' PROVE Knows(y, m, at[u])'
    BY DEF KnownBelow
  <2>2. u # t /\ Popping(u) /\ Knows(z, n, at[u]) /\ at'[u] = at[u]
    BY <1>13, <1>16, <1>17, <2>1 DEF Fit, KnownBelow
  <2>3. at[u].stack \in Stacks
    BY <2>2, ClassesFit DEF Knows
  <2>4. at[u].stack = s => at[u].old # h
    BY <1>2, <1>4, <2>2 DEF Fit, Unseen, Releasing, Popping, s
  <2>5. ASSUME at[u].pc = "pop", NEW i \in 1..m[at[u].stack],
               y[at[u].stack][i] = at[u].old
        PROVE  at[u].nxt = y[at[u].stack][i - 1]
    <3>1. i \in 1..n[at[u].stack] /\ z[at[u].stack][i] = at[u].old
      BY <1>8, <1>10, <2>3, <2>4, <2>5
    <3>2. y[at[u].stack][i - 1] = z[at[u].stack][i - 1]
      <4>1. i - 1 \in 0..n[at[u].stack]
        BY <2>3, <3>1, PileLinks
      <4> QED
        BY <1>9, <2>3, <4>1
    <3> QED
      BY <2>2, <2>5, <3>1, <3>2 DEF Knows
  <2> QED
    BY <1>1, <2>2, <2>5 DEF Knows
<1>24. Reserving'
  BY <1>13 DEF Fit, Reserving
<1>25. BlocksApart'
  BY <1>1 DEF Fit, BlocksApart
<1>26. NoneLost(y, m)'
  <2>1. SUFFICES ASSUME NEW b \in Addrs, extent[b] # 0
                 PROVE  \/ used[b] # 0
                        \/ \E r \in Stacks : \E i \in 1..m[r] : y[r][i][2] = b
                        \/ \E u \in Workers : Releasing(u)' /\ at'[u].node = b
    BY <1>1 DEF NoneLost
  <2>2. CASE \E r \in Stacks : \E i \in 1..n[r] : z[r][i][2] = b
    <3>1. PICK r \in Stacks : \E i \in 1..n[r] : z[r][i][2] = b
      BY <2>2
    <3>2. PICK i \in 1..n[r] : z[r][i][2] = b
      BY <3>1
    <3> QED
      BY <1>11, <3>1, <3>2
  <2>3. CASE \E u \in Workers : Releasing(u) /\ at[u].node = b
    <3>1. PICK u \in Workers : Releasing(u) /\ at[u].node = b
      BY <2>3
    <3>2. CASE u = t
      <4>1. k \in 1..m[s] /\ y[s][k][2] = b
        BY <1>4, <1>5, <1>6, <1>7, <1>8, <3>1, <3>2 DEF a
      <4> QED
        BY <1>3, <4>1
    <3>3. CASE u # t
      BY <1>13, <1>16, <3>1, <3>3
    <3> QED
      BY <3>2, <3>3
  <2>4. CASE used[b] # 0
    BY <2>4
  <2> QED
    BY <2>1, <2>2, <2>3, <2>4 DEF Fit, NoneLost
<1>27. Fit(y, m)'
  BY <1>18, <1>19, <1>20, <1>21, <1>22, <1>23, <1>24, <1>25, <1>26 DEF Fit
<1> QED
  BY <1>15, <1>27 DEF PoolInv

\* No step of a thread or of a block's user breaks the invariant.
LEMMA StepKeeps ==
    PoolInv /\ [Next]_vars => PoolInv'
<1> SUFFICES ASSUME PoolInv, [Next]_vars PROVE PoolInv'
  OBVIOUS
<1>1. TypeOK
  BY DEF PoolInv
<1>2. PICK z, n : Fit(z, n)
  BY DEF PoolInv
<1>3. ASSUME NEW t \in Workers, \E size \in Sizes : Alloc(t, size) PROVE PoolInv'
  BY <1>1, <1>2, <1>3, AllocKeeps
<1>4. ASSUME NEW t \in Workers, ReadNext(t) PROVE PoolInv'
  BY <1>1, <1>2, <1>4, ReadNextKeeps
<1>5. ASSUME NEW t \in Workers, PopDone(t) PROVE PoolInv'
  BY <1>1, <1>2, <1>5, PopDoneKeeps
<1>6. ASSUME NEW t \in Workers, PopAgain(t) PROVE PoolInv'
  BY <1>1, <1>2, <1>6, PopAgainKeeps
<1>7. ASSUME NEW t \in Workers, Bump(t) PROVE PoolInv'
  BY <1>1, <1>2, <1>7, BumpKeeps
<1>8. ASSUME NEW t \in Workers, BumpAgain(t) PROVE PoolInv'
  BY <1>1, <1>2, <1>8, BumpAgainKeeps
<1>9. ASSUME NEW t \in Workers, NoMemory(t) PROVE PoolInv'
  BY <1>1, <1>2, <1>9, NoMemoryKeeps
<1>10. ASSUME NEW t \in Workers, \E a \in Addrs : Dealloc(t, a) PROVE PoolInv'
  BY <1>1, <1>2, <1>10, DeallocKeeps
<1>11. ASSUME NEW t \in Workers, SetNext(t) PROVE PoolInv'
  BY <1>1, <1>2, <1>11, SetNextKeeps
<1>12. ASSUME NEW t \in Workers, PushDone(t) PROVE PoolInv'
  BY <1>1, <1>2, <1>12, PushDoneKeeps
<1>13. ASSUME NEW t \in Workers, PushAgain(t) PROVE PoolInv'
  BY <1>1, <1>2, <1>13, PushAgainKeeps
<1>14. ASSUME NEW a \in Addrs, Write(a) PROVE PoolInv'
  BY <1>1, <1>2, <1>14, WriteKeeps
<1>15. CASE UNCHANGED vars
  <2>1. TypeOK'
    BY <1>1, <1>15 DEF vars, TypeOK
  <2>2. Fit(z, n)'
    BY <1>2, <1>15 DEF vars, Fit, Linked, FreeOnce, OwnRelease, Owns, Unseen, KnownBelow, Knows,
                       Reserving, BlocksApart, NoneLost, Releasing, Popping
  <2> QED
    BY <2>1, <2>2 DEF PoolInv
<1> QED
  BY <1>3, <1>4, <1>5, <1>6, <1>7, <1>8, <1>9, <1>10, <1>11, <1>12, <1>13, <1>14, <1>15
     DEF Next

-----------------------------------------------------------------------------
(* What the invariant says of the chains of links. *)

\* A pile has no more blocks than there are addresses.
LEMMA PileHeight ==
    ASSUME NEW z, NEW n, Fit(z, n), NEW s \in Stacks
    PROVE  n[s] =< MaxSize
<1>1. n[s] \in Nat /\ MaxSize \in Nat
  BY PileLinks, LinkKinds
<1> DEFINE f == [i \in 1..n[s] |-> z[s][i][2]]
<1>2. f \in [1..n[s] -> Addrs]
  BY PileLinks
<1>3. \A i, j \in 1..n[s] : f[i] = f[j] => i = j
  BY DEF Fit, FreeOnce
<1>4. /\ IsFiniteSet(1..n[s]) /\ Cardinality(1..n[s]) = n[s]
      /\ IsFiniteSet(Addrs) /\ Cardinality(Addrs) = MaxSize
  <2>1. /\ IsFiniteSet(1..n[s])
        /\ Cardinality(1..n[s]) = IF 1 > n[s] THEN 0 ELSE n[s] - 1 + 1
    BY <1>1, FS_Interval
  <2>2. /\ IsFiniteSet(0..MaxSize - 1)
        /\ Cardinality(0..MaxSize - 1) = IF 0 > MaxSize - 1 THEN 0 ELSE MaxSize - 1 - 0 + 1
    BY <1>1, FS_Interval
  <2> QED
    BY <1>1, <2>1, <2>2 DEF Addrs
<1> HIDE DEF f
<1>5. ~(MaxSize < n[s])
  <2>1. SUFFICES ASSUME Cardinality(Addrs) < Cardinality(1..n[s]) PROVE FALSE
    BY <1>4
  <2> DEFINE D == 1..n[s]
  <2>2. \E i, j \in D : i # j /\ f[i] = f[j]
    <3>1. /\ f \in [D -> Addrs] /\ IsFiniteSet(D) /\ IsFiniteSet(Addrs)
          /\ Cardinality(Addrs) < Cardinality(D)
      BY <1>2, <1>4, <2>1
    <3> HIDE DEF D
    <3> QED
      BY <3>1, FS_PigeonHole
  <2> QED
    BY <1>3, <2>2
<1> QED
  BY <1>1, <1>5

\* The chain of links from the head goes down the pile and ends in null.
LEMMA ChainIsPile ==
    ASSUME NEW z, NEW n, Fit(z, n), NEW s \in Stacks
    PROVE  \A i \in 0..MaxSize : Chain(s)[i] = IF i < n[s] THEN z[s][n[s] - i] ELSE Null
<1> DEFINE g == [i \in 0..MaxSize |-> IF i < n[s] THEN z[s][n[s] - i] ELSE Null]
           step(f, i) == IF i = 0 THEN head[s]
                         ELSE IF f[i - 1] \in {Null, Junk} THEN f[i - 1]
                         ELSE next[f[i - 1][2]]
           c == CHOOSE f : f = [i \in 0..MaxSize |-> step(f, i)]
<1>1. n[s] \in Nat /\ MaxSize \in Nat /\ head[s] = z[s][n[s]] /\ z[s][0] = Null
  BY LinkKinds DEF Fit, Piles, Linked
<1>2. \A i \in 1..n[s] : z[s][i] \notin {Null, Junk} /\ next[z[s][i][2]] = z[s][i - 1]
  BY PileLinks, LinkKinds DEF Fit, Linked
<1>3. ASSUME NEW i \in 0..MaxSize PROVE g[i] = step(g, i)
  <2>1. CASE i = 0
    BY <1>1, <2>1
  <2>2. CASE i # 0 /\ i - 1 < n[s]
    <3>1. i - 1 \in 0..MaxSize /\ g[i - 1] = z[s][n[s] - (i - 1)]
      BY <1>1, <2>2
    <3> DEFINE j == n[s] - (i - 1)
    <3>2. j \in 1..n[s] /\ j - 1 = n[s] - i
      BY <1>1, <1>3, <2>2
    <3>3. step(g, i) = z[s][j - 1]
      BY <1>2, <2>2, <3>1, <3>2
    <3>4. g[i] = z[s][j - 1]
      BY <1>1, <1>3, <2>2, <3>2
    <3> QED
      BY <3>3, <3>4
  <2>3. CASE i # 0 /\ ~(i - 1 < n[s])
    <3>1. i - 1 \in 0..MaxSize /\ g[i - 1] = Null /\ g[i] = Null
      BY <1>1, <1>3, <2>3
    <3> QED
      BY <2>3, <3>1
  <2> QED
    BY <2>1, <2>2, <2>3
<1> HIDE DEF step
<1>4. g = [i \in 0..MaxSize |-> step(g, i)]
  BY <1>3
<1>5. c = [i \in 0..MaxSize |-> step(c, i)]
  <2> HIDE DEF g
  <2> QED
    BY <1>4
<1>6. Chain(s) = c
  BY DEF Chain, step
<1> HIDE DEF c
<1>7. \A i \in 0..MaxSize : c[i] = step(c, i)
  BY <1>5
<1> DEFINE S == {i \in Nat : i \in 0..MaxSize => c[i] = g[i]}
<1>8. 0 \in S
  <2>1. 0 \in 0..MaxSize
    BY <1>1
  <2>2. c[0] = head[s] /\ g[0] = head[s]
    BY <1>3, <1>7, <2>1 DEF step
  <2> QED
    BY <2>2
<1>9. ASSUME NEW i \in S PROVE i + 1 \in S
  <2>1. SUFFICES ASSUME i + 1 \in 0..MaxSize PROVE c[i + 1] = g[i + 1]
    OBVIOUS
  <2> HIDE DEF g
  <2>2. i \in 0..MaxSize /\ c[i] = g[i] /\ (i + 1) - 1 = i /\ i + 1 # 0
    BY <1>1, <1>9, <2>1
  <2>3. step(c, i + 1) = step(g, i + 1)
    BY <2>2 DEF step
  <2> QED
    BY <1>3, <1>7, <2>1, <2>3
<1>10. S = Nat
  BY <1>8, <1>9, NumberInduction
<1>11. \A i \in 0..MaxSize : c[i] = g[i]
  <2> HIDE DEF g
  <2>1. \A i \in Nat : i \in 0..MaxSize => c[i] = g[i]
    BY <1>10
  <2> QED
    BY <1>1, <2>1
<1> QED
  BY <1>6, <1>11

\* The blocks that are free are those in the piles.
LEMMA FreeIsPile ==
    ASSUME NEW z, NEW n, Fit(z, n), NEW s \in Stacks
    PROVE  /\ Chain(s)[MaxSize] = Null
           /\ \A a \in Addrs : a \in Free(s) <=> \E i \in 1..n[s] : z[s][i][2] = a
           /\ Free(s) \subseteq Addrs
<1>1. n[s] \in 0..MaxSize /\ MaxSize \in Nat
  BY PileLinks, PileHeight, LinkKinds
<1>2. \A i \in 0..MaxSize : Chain(s)[i] = IF i < n[s] THEN z[s][n[s] - i] ELSE Null
  BY ChainIsPile
<1>3. \A i \in 1..n[s] : z[s][i] # Null /\ z[s][i][2] \in Addrs
  BY PileLinks, LinkKinds
<1>4. Chain(s)[MaxSize] = Null
  BY <1>1, <1>2
<1>5. ASSUME NEW a \in Free(s) PROVE \E i \in 1..n[s] : z[s][i][2] = a
  <2>1. PICK j \in 0..MaxSize : Chain(s)[j] # Null /\ a = Chain(s)[j][2]
    BY DEF Free
  <2>2. j < n[s] /\ Chain(s)[j] = z[s][n[s] - j]
    BY <1>2, <2>1
  <2>3. n[s] - j \in 1..n[s]
    BY <1>1, <2>1, <2>2
  <2> QED
    BY <2>1, <2>2, <2>3
<1>6. ASSUME NEW i \in 1..n[s] PROVE z[s][i][2] \in Free(s)
  <2>1. /\ n[s] - i \in 0..MaxSize /\ n[s] - i < n[s] /\ n[s] - (n[s] - i) = i
    BY <1>1
  <2>2. Chain(s)[n[s] - i] = z[s][i]
    BY <1>2, <2>1
  <2> QED
    BY <1>3, <2>1, <2>2 DEF Free
<1> QED
  BY <1>3, <1>4, <1>5, <1>6

\* A block that was reserved is in one pile, or in use, or one thread releases it.
LEMMA OneOwner ==
    ASSUME TypeOK, NEW z, NEW n, Fit(z, n), NEW a \in Addrs
    PROVE  /\ extent[a] = 0 => Owners(a) = {}
           /\ extent[a] # 0 => \E x : Owners(a) = {x}
<1> DEFINE InPile(s) == \E i \in 1..n[s] : z[s][i][2] = a
           Pushing(t) == Releasing(t) /\ at[t].node = a
           F == {<<"free", s>> : s \in {s \in Stacks : a \in Free(s)}}
           U == {<<"used", x>> : x \in {used[a]} \ {0}}
           P == {<<"push", t>> : t \in {t \in Workers : /\ at[t].pc \in {"link", "push"}
                                                        /\ at[t].node = a}}
<1>1. Owners(a) = F \union U \union P
  BY DEF Owners
<1>2. \A s \in Stacks : a \in Free(s) <=> InPile(s)
  BY FreeIsPile
<1>3. \A t \in Workers : at[t].pc \in {"link", "push"} /\ at[t].node = a <=> Pushing(t)
  BY DEF Releasing
<1>4. ASSUME NEW s \in Stacks, InPile(s)
      PROVE  used[a] = 0 /\ extent[a] >= s /\ \A r \in Stacks : InPile(r) => r = s
  BY <1>4 DEF Fit, FreeOnce
<1>5. ASSUME NEW t \in Workers, Pushing(t)
      PROVE  /\ used[a] = 0 /\ at[t].stack \in Stacks /\ extent[a] >= at[t].stack
             /\ \A s \in Stacks : ~InPile(s)
             /\ \A u \in Workers : Pushing(u) => u = t
  BY <1>5 DEF Fit, OwnRelease, Owns, Unseen
<1> HIDE DEF InPile, Pushing
<1>6. F = {<<"free", s>> : s \in {s \in Stacks : InPile(s)}}
  BY <1>2
<1>7. P = {<<"push", t>> : t \in {t \in Workers : Pushing(t)}}
  BY <1>3
<1> HIDE DEF F, P
<1>8. ASSUME extent[a] = 0 PROVE Owners(a) = {}
  <2>1. used[a] =< LineSize * extent[a] /\ used[a] \in Nat
    BY BlockNumbers DEF Fit, BlocksApart
  <2>2. used[a] = 0
    BY <1>8, <2>1 DEF LineSize
  <2>3. ASSUME NEW s \in Stacks, InPile(s) PROVE FALSE
    <3>1. extent[a] >= s
      BY <1>4, <2>3
    <3>2. s \in Nat /\ s # 0
      BY SizesType
    <3> QED
      BY <1>8, <3>1, <3>2
  <2>4. ASSUME NEW t \in Workers, Pushing(t) PROVE FALSE
    <3>1. PICK s \in Stacks : extent[a] >= s
      BY <1>5, <2>4
    <3> QED
      BY <1>8, <3>1, SizesType
  <2> QED
    BY <1>1, <1>6, <1>7, <2>2, <2>3, <2>4
<1>9. ASSUME used[a] # 0 PROVE Owners(a) = {<<"used", used[a]>>}
  <2>1. \A s \in Stacks : ~InPile(s)
    BY <1>4, <1>9
  <2>2. \A t \in Workers : ~Pushing(t)
    BY <1>5, <1>9
  <2> QED
    BY <1>1, <1>6, <1>7, <1>9, <2>1, <2>2
<1>10. ASSUME NEW s \in Stacks, InPile(s) PROVE Owners(a) = {<<"free", s>>}
  <2>1. used[a] = 0 /\ \A r \in Stacks : InPile(r) <=> r = s
    BY <1>4, <1>10
  <2>2. \A t \in Workers : ~Pushing(t)
    BY <1>5, <1>10
  <2> QED
    BY <1>1, <1>6, <1>7, <2>1, <2>2
<1>11. ASSUME NEW t \in Workers, Pushing(t) PROVE Owners(a) = {<<"push", t>>}
  <2>1. used[a] = 0 /\ \A s \in Stacks : ~InPile(s)
    BY <1>5, <1>11
  <2>2. \A u \in Workers : Pushing(u) <=> u = t
    BY <1>5, <1>11
  <2> QED
    BY <1>1, <1>6, <1>7, <2>1, <2>2
<1>12. ASSUME extent[a] # 0 PROVE \E x : Owners(a) = {x}
  <2>1. used[a] # 0 \/ (\E s \in Stacks : InPile(s)) \/ \E t \in Workers : Pushing(t)
    BY <1>12 DEF Fit, NoneLost, InPile, Pushing
  <2> QED
    BY <1>9, <1>10, <1>11, <2>1
<1> QED
  BY <1>8, <1>12

\* The invariant says that blocks have one owner and stacks end.
LEMMA OwnersFollow ==
    PoolInv => BlocksHaveOneOwner
<1> SUFFICES ASSUME PoolInv PROVE BlocksHaveOneOwner
  OBVIOUS
<1>1. TypeOK
  BY DEF PoolInv
<1>2. PICK z, n : Fit(z, n)
  BY DEF PoolInv
<1>3. \A s \in Stacks : Chain(s)[MaxSize] = Null
  BY <1>2, FreeIsPile
<1>4. ASSUME NEW a \in Addrs
      PROVE  Cardinality(Owners(a)) = IF extent[a] = 0 THEN 0 ELSE 1
  <2>1. CASE extent[a] = 0
    BY <1>1, <1>2, <2>1, OneOwner, FS_EmptySet
  <2>2. CASE extent[a] # 0
    <3>1. PICK x : Owners(a) = {x}
      BY <1>1, <1>2, <2>2, OneOwner
    <3> QED
      BY <2>2, <3>1, FS_Singleton
  <2> QED
    BY <2>1, <2>2
<1> QED
  BY <1>2, <1>3, <1>4 DEF BlocksHaveOneOwner, Fit, BlocksApart

\* The invariant says that objects and stacks have room.
LEMMA RoomFollows ==
    PoolInv => BlocksAreLargeEnough
<1> SUFFICES ASSUME PoolInv PROVE BlocksAreLargeEnough
  OBVIOUS
<1>1. PICK z, n : Fit(z, n)
  BY DEF PoolInv
<1>2. ASSUME NEW s \in Stacks, NEW a \in Free(s) PROVE extent[a] >= s
  <2>1. a \in Addrs
    BY <1>1, FreeIsPile
  <2>2. PICK i \in 1..n[s] : z[s][i][2] = a
    BY <1>1, <2>1, FreeIsPile
  <2> QED
    BY <1>1, <2>2 DEF Fit, FreeOnce
<1> QED
  BY <1>1, <1>2 DEF BlocksAreLargeEnough, Fit, BlocksApart

-----------------------------------------------------------------------------
(* The theorems. *)

\* The stacks are piles of blocks that nobody uses, and a thread that pops knows the
\* link below the one that it pops, for ever (push() and pop() of MemPool.hpp).
THEOREM PoolInvHolds ==
    Spec => []PoolInv
<1>1. Init => PoolInv
  BY InitKeeps
<1>2. PoolInv /\ [Next]_vars => PoolInv'
  BY StepKeeps
<1> QED
  BY <1>1, <1>2, PTL DEF Spec

\* The variables keep their types: what a user writes in a block never becomes the
\* head of a stack.
THEOREM TypesHold ==
    Spec => []TypeOK
<1>1. PoolInv => TypeOK
  BY DEF PoolInv
<1> QED
  BY <1>1, PoolInvHolds, PTL

\* push() and pop() of any threads neither lose a block nor hand it out twice.
THEOREM OwnersHold ==
    Spec => []BlocksHaveOneOwner
  BY OwnersFollow, PoolInvHolds, PTL

\* An object has the room it needs, and a block the room its stack promises, though
\* blocks move to the stacks of smaller classes.
THEOREM RoomHolds ==
    Spec => []BlocksAreLargeEnough
  BY RoomFollows, PoolInvHolds, PTL

-----------------------------------------------------------------------------
(* The reactor's subscriptions (EpollReactor.cpp). *)

\* A user with a socket and a handle has the subscription of that socket; without a
\* handle the socket has none.  No two users have the same socket.
SocketsAgree ==
    /\ Reactor!HandlesAreCurrent
    /\ \A u \in Users : socket[u] # -1 /\ handle[u] = Reactor!NoHandle =>
        data[socket[u]].slot = NoUser
    /\ \A u, v \in Users : socket[u] # -1 /\ socket[u] = socket[v] => u = v

\* Handles are for identities that were given out, and the last one given out belongs
\* to the user in the entry.
HandlesAgree ==
    \A u \in Users : handle[u] # Reactor!NoHandle =>
        /\ handle[u].fd \in Fds
        /\ handle[u].sid =< data[handle[u].fd].sid
        /\ data[handle[u].fd].sid = handle[u].sid => data[handle[u].fd].slot = u

\* Nobody is interested in what has no slot.
SlotsAgree ==
    \A f \in Fds : data[f].slot = NoUser => data[f].events = {}

\* An event that is not stale is for the user whose slot is called.
EventsAgree ==
    \A ev \in batch :
        /\ ev.sid =< data[ev.fd].sid
        /\ data[ev.fd].sid = ev.sid =>
            \/ data[ev.fd].slot = NoUser
            \/ /\ data[ev.fd].slot = ev.user
               /\ handle[ev.user] = [fd |-> ev.fd, sid |-> ev.sid]

\* The inductive invariant.
ReactorInv ==
    Reactor!TypeOK /\ SocketsAgree /\ HandlesAgree /\ SlotsAgree /\ EventsAgree

\* What the invariant says of a watched descriptor: its entry is the current
\* subscription of the user that has the socket.
LEMMA WatchedIsCurrent ==
    ASSUME ReactorInv, NEW f \in Fds, watch[f] # Reactor!NoWatch
    PROVE  /\ watch[f] = [sid |-> data[f].sid, events |-> data[f].events]
           /\ data[f].slot \in Users
           /\ socket[data[f].slot] = f
           /\ handle[data[f].slot] = [fd |-> f, sid |-> data[f].sid]
<1>1. /\ f \in Reactor!Open /\ data[f].slot # NoUser
      /\ watch[f] = [sid |-> data[f].sid, events |-> data[f].events]
  BY DEF ReactorInv, Reactor!TypeOK
<1>2. PICK u \in Users : socket[u] = f
  BY <1>1 DEF Reactor!Open
<1>3. f # -1
  BY SysAssumption DEF Reactor!ReactorAssumption
<1>4. handle[u] # Reactor!NoHandle
  BY <1>1, <1>2, <1>3 DEF ReactorInv, SocketsAgree
<1>5. handle[u].fd = f /\ data[f].sid = handle[u].sid /\ data[f].slot = u
  BY <1>2, <1>3, <1>4 DEF ReactorInv, SocketsAgree, Reactor!HandlesAreCurrent
<1>6. handle[u] \in [fd : Fds \union {-1}, sid : 0..MaxSid]
  BY DEF ReactorInv, Reactor!TypeOK
<1> QED
  BY <1>1, <1>2, <1>5, <1>6

\* Nobody is subscribed when the reactor is made.
LEMMA ReactorStarts ==
    Reactor!Init => ReactorInv
<1> SUFFICES ASSUME Reactor!Init PROVE ReactorInv
  OBVIOUS
<1>a. MaxSid \in Nat /\ 0 \in 0..MaxSid
  BY SysAssumption DEF Reactor!ReactorAssumption
<1>1. Reactor!TypeOK
  BY <1>a DEF Reactor!Init, Reactor!TypeOK, Reactor!NoHandle, Reactor!NoCall, Reactor!NoWatch
<1>2. SocketsAgree /\ HandlesAgree /\ SlotsAgree /\ EventsAgree
  BY DEF Reactor!Init, SocketsAgree, Reactor!HandlesAreCurrent, HandlesAgree, SlotsAgree,
         EventsAgree
<1> QED
  BY <1>1, <1>2 DEF ReactorInv

\* A new subscription makes all events of the descriptor stale, and takes a descriptor
\* that no other user has.
LEMMA SubscribeKeeps ==
    ASSUME ReactorInv, NEW u \in Users, NEW f \in Fds, NEW events \in SUBSET Reactor!Events,
           Reactor!Subscribe(u, f, events)
    PROVE  ReactorInv'
<1>a. f # -1 /\ -1 \notin Fds /\ MaxSid \in Nat
  BY SysAssumption DEF Reactor!ReactorAssumption
<1>t. Reactor!TypeOK
  BY DEF ReactorInv
<1>1. PICK sid : sid = data[f].sid + 1
  OBVIOUS
<1>2. /\ handle[u] = Reactor!NoHandle /\ f \notin Reactor!Open
      /\ sid \in 0..MaxSid
      /\ data' = [data EXCEPT ![f] = [sid |-> sid, events |-> events, slot |-> u]]
      /\ watch' = [watch EXCEPT ![f] = [sid |-> sid, events |-> events]]
      /\ handle' = [handle EXCEPT ![u] = [fd |-> f, sid |-> sid]]
      /\ socket' = [socket EXCEPT ![u] = f]
      /\ UNCHANGED <<batch, calling>>
  BY <1>1, <1>a, <1>t DEF Reactor!Subscribe, Reactor!TypeOK
<1>3. /\ data' \in [Fds -> [sid : 0..MaxSid, events : SUBSET Reactor!Events,
                            slot : Users \union {NoUser}]]
      /\ watch' \in [Fds -> [sid : 0..MaxSid, events : SUBSET Reactor!Events]]
      /\ socket' \in [Users -> Fds \union {-1}]
      /\ handle' \in [Users -> [fd : Fds \union {-1}, sid : 0..MaxSid]]
  BY <1>2, <1>t DEF Reactor!TypeOK
<1>4. /\ data'[f] = [sid |-> sid, events |-> events, slot |-> u]
      /\ watch'[f] = [sid |-> sid, events |-> events]
      /\ handle'[u] = [fd |-> f, sid |-> sid]
      /\ socket'[u] = f
      /\ \A g \in Fds : g # f => data'[g] = data[g] /\ watch'[g] = watch[g]
      /\ \A v \in Users : v # u => handle'[v] = handle[v] /\ socket'[v] = socket[v]
      /\ \A v \in Users : socket[v] # f
  BY <1>2, <1>t DEF Reactor!TypeOK, Reactor!Open
<1>5. ASSUME NEW g \in Fds
      PROVE  watch'[g] = IF g \notin Reactor!Open' \/ data'[g].slot = NoUser THEN Reactor!NoWatch
                         ELSE [sid |-> data'[g].sid, events |-> data'[g].events]
  <2>1. CASE g = f
    <3>1. g \in Reactor!Open' /\ u # NoUser
      BY <1>4, <2>1, SysAssumption DEF Reactor!Open, Reactor!ReactorAssumption
    <3> QED
      BY <1>4, <2>1, <3>1
  <2>2. CASE g # f
    <3>1. watch[g] = IF g \notin Reactor!Open \/ data[g].slot = NoUser THEN Reactor!NoWatch
                     ELSE [sid |-> data[g].sid, events |-> data[g].events]
      BY <1>t DEF Reactor!TypeOK
    <3>2. g \in Reactor!Open' => g \in Reactor!Open
      BY <1>4, <2>2 DEF Reactor!Open
    <3>3. ASSUME g \in Reactor!Open, g \notin Reactor!Open' PROVE data[g].slot = NoUser
      <4>1. socket[u] = g
        BY <1>4, <3>3 DEF Reactor!Open
      <4> QED
        BY <1>2, <1>a, <4>1 DEF ReactorInv, SocketsAgree
    <3> QED
      BY <1>4, <2>2, <3>1, <3>2, <3>3
  <2> QED
    BY <2>1, <2>2
<1>6. Reactor!TypeOK'
  BY <1>t, <1>2, <1>3, <1>5 DEF Reactor!TypeOK
<1>7. SocketsAgree'
  <2>1. ASSUME NEW v \in Users, v # u, socket[v] # -1
        PROVE  /\ data'[socket[v]] = data[socket[v]] /\ socket[v] # f
               /\ handle'[v] = handle[v] /\ socket'[v] = socket[v]
    <3>1. socket[v] \in Fds
      BY <1>t, <2>1 DEF Reactor!TypeOK
    <3> QED
      BY <1>4, <2>1, <3>1
  <2>2. Reactor!HandlesAreCurrent'
    <3> SUFFICES ASSUME NEW v \in Users, handle'[v] # Reactor!NoHandle, socket'[v] # -1
                 PROVE  /\ handle'[v].fd = socket'[v]
                        /\ data'[handle'[v].fd].sid = handle'[v].sid
                        /\ data'[handle'[v].fd].slot = v
      BY DEF Reactor!HandlesAreCurrent, Reactor!NoHandle
    <3>1. CASE v = u
      BY <1>4, <3>1
    <3>2. CASE v # u
      <4>1. handle'[v] = handle[v] /\ socket'[v] = socket[v]
        BY <1>4, <3>2
      <4>2. data'[socket[v]] = data[socket[v]]
        BY <2>1, <3>2, <4>1
      <4> QED
        BY <4>1, <4>2 DEF ReactorInv, SocketsAgree, Reactor!HandlesAreCurrent
    <3> QED
      BY <3>1, <3>2
  <2>3. ASSUME NEW v \in Users, socket'[v] # -1, handle'[v] = Reactor!NoHandle
        PROVE  data'[socket'[v]].slot = NoUser
    <3>1. v # u
      BY <1>4, <1>a, <2>3 DEF Reactor!NoHandle
    <3>2. handle'[v] = handle[v] /\ socket'[v] = socket[v]
      BY <1>4, <3>1
    <3>3. data'[socket[v]] = data[socket[v]]
      BY <2>1, <2>3, <3>1, <3>2
    <3> QED
      BY <2>3, <3>2, <3>3 DEF ReactorInv, SocketsAgree
  <2>4. \A v, w \in Users : socket'[v] # -1 /\ socket'[v] = socket'[w] => v = w
    BY <1>4 DEF ReactorInv, SocketsAgree
  <2> QED
    BY <2>2, <2>3, <2>4 DEF SocketsAgree, Reactor!NoHandle
<1>8. HandlesAgree'
  BY <1>1, <1>2, <1>4, <1>t DEF ReactorInv, HandlesAgree, Reactor!TypeOK
<1>9. SlotsAgree'
  BY <1>4, SysAssumption DEF ReactorInv, SlotsAgree, Reactor!ReactorAssumption
<1>10. EventsAgree'
  <2> SUFFICES ASSUME NEW ev \in batch
               PROVE  /\ ev.sid =< data'[ev.fd].sid
                      /\ data'[ev.fd].sid = ev.sid =>
                          \/ data'[ev.fd].slot = NoUser
                          \/ /\ data'[ev.fd].slot = ev.user
                             /\ handle'[ev.user] = [fd |-> ev.fd, sid |-> ev.sid]
    BY <1>2 DEF EventsAgree
  <2>1. /\ ev.fd \in Fds /\ ev.sid \in Nat /\ ev.user \in Users /\ ev.sid =< data[ev.fd].sid
        /\ data[ev.fd].sid \in Nat
        /\ data[ev.fd].sid = ev.sid =>
              \/ data[ev.fd].slot = NoUser
              \/ /\ data[ev.fd].slot = ev.user
                 /\ handle[ev.user] = [fd |-> ev.fd, sid |-> ev.sid]
    BY <1>t, <1>a DEF ReactorInv, EventsAgree, Reactor!TypeOK
  <2>2. CASE ev.fd = f
    BY <1>1, <1>4, <2>1, <2>2
  <2>3. CASE ev.fd # f
    <3>1. handle[u].fd = -1
      BY <1>2 DEF Reactor!NoHandle
    <3>2. handle[ev.user] = [fd |-> ev.fd, sid |-> ev.sid] => ev.user # u
      BY <2>1, <1>a, <3>1
    <3> QED
      BY <1>4, <2>1, <2>3, <3>2
  <2> QED
    BY <2>2, <2>3
<1> QED
  BY <1>6, <1>7, <1>8, <1>9, <1>10 DEF ReactorInv

\* An identity that is used up for nothing also makes the events stale.
LEMMA SubscribeFailsKeeps ==
    ASSUME ReactorInv, NEW u \in Users, NEW f \in Fds, Reactor!SubscribeFails(u, f)
    PROVE  ReactorInv'
<1>a. f # -1 /\ MaxSid \in Nat
  BY SysAssumption DEF Reactor!ReactorAssumption
<1>t. Reactor!TypeOK
  BY DEF ReactorInv
<1>1. /\ f \notin Reactor!Open /\ data[f].sid < MaxSid
      /\ data' = [data EXCEPT ![f].sid = @ + 1]
      /\ UNCHANGED <<watch, handle, socket, batch, calling>>
  BY DEF Reactor!SubscribeFails
<1>2. /\ data' \in [Fds -> [sid : 0..MaxSid, events : SUBSET Reactor!Events,
                            slot : Users \union {NoUser}]]
      /\ data'[f].sid = data[f].sid + 1 /\ data'[f].events = data[f].events
      /\ data'[f].slot = data[f].slot
      /\ \A g \in Fds : g # f => data'[g] = data[g]
  BY <1>1, <1>t, <1>a DEF Reactor!TypeOK
<1>3. \A v \in Users : socket[v] # f
  BY <1>1 DEF Reactor!Open
<1>4. Reactor!Open' = Reactor!Open
  BY <1>1 DEF Reactor!Open
<1>5. Reactor!TypeOK'
  BY <1>t, <1>1, <1>2, <1>4 DEF Reactor!TypeOK
<1>6. SocketsAgree'
  BY <1>1, <1>2, <1>3, <1>t
  DEF ReactorInv, SocketsAgree, Reactor!HandlesAreCurrent, Reactor!TypeOK
<1>7. HandlesAgree'
  BY <1>1, <1>2, <1>t DEF ReactorInv, HandlesAgree, Reactor!TypeOK
<1>8. SlotsAgree'
  BY <1>2 DEF ReactorInv, SlotsAgree
<1>9. EventsAgree'
  <2> SUFFICES ASSUME NEW ev \in batch
               PROVE  /\ ev.sid =< data'[ev.fd].sid
                      /\ data'[ev.fd].sid = ev.sid =>
                          \/ data'[ev.fd].slot = NoUser
                          \/ /\ data'[ev.fd].slot = ev.user
                             /\ handle[ev.user] = [fd |-> ev.fd, sid |-> ev.sid]
    BY <1>1 DEF EventsAgree
  <2>1. /\ ev.fd \in Fds /\ ev.sid \in Nat /\ data[ev.fd].sid \in Nat
    BY <1>t, <1>a DEF Reactor!TypeOK
  <2>2. /\ ev.sid =< data[ev.fd].sid
        /\ data[ev.fd].sid = ev.sid =>
              \/ data[ev.fd].slot = NoUser
              \/ /\ data[ev.fd].slot = ev.user
                 /\ handle[ev.user] = [fd |-> ev.fd, sid |-> ev.sid]
    BY DEF ReactorInv, EventsAgree
  <2>3. CASE ev.fd = f
    BY <1>2, <2>1, <2>2, <2>3
  <2>4. CASE ev.fd # f
    BY <1>2, <2>1, <2>2, <2>4
  <2> QED
    BY <2>3, <2>4
<1> QED
  BY <1>5, <1>6, <1>7, <1>8, <1>9 DEF ReactorInv

\* A closed socket is no longer watched; others stay open, since nobody shares it.
LEMMA CloseKeeps ==
    ASSUME ReactorInv, NEW u \in Users, Reactor!Close(u)
    PROVE  ReactorInv'
<1>t. Reactor!TypeOK
  BY DEF ReactorInv
<1>1. PICK f \in Fds : socket[u] = f
  BY <1>t DEF Reactor!Close, Reactor!TypeOK
<1>a. f # -1 /\ -1 \notin Fds /\ MaxSid \in Nat
  BY SysAssumption DEF Reactor!ReactorAssumption
<1>2. /\ watch' = [watch EXCEPT ![f] = Reactor!NoWatch]
      /\ socket' = [socket EXCEPT ![u] = -1]
      /\ UNCHANGED <<data, handle, batch, calling>>
  BY <1>1 DEF Reactor!Close
<1>3. /\ watch' \in [Fds -> [sid : 0..MaxSid, events : SUBSET Reactor!Events]]
      /\ socket' \in [Users -> Fds \union {-1}]
      /\ watch'[f] = Reactor!NoWatch /\ socket'[u] = -1
      /\ \A g \in Fds : g # f => watch'[g] = watch[g]
      /\ \A v \in Users : v # u => socket'[v] = socket[v]
  BY <1>2, <1>t, <1>a DEF Reactor!TypeOK, Reactor!NoWatch
<1>4. \A v \in Users : socket'[v] # f
  BY <1>1, <1>3, <1>a DEF ReactorInv, SocketsAgree
<1>5. \A g \in Fds : g \in Reactor!Open' <=> g \in Reactor!Open /\ g # f
  BY <1>1, <1>3, <1>4, <1>a DEF Reactor!Open
<1>6. Reactor!TypeOK'
  BY <1>t, <1>2, <1>3, <1>5 DEF Reactor!TypeOK
<1>7. SocketsAgree'
  BY <1>2, <1>3 DEF ReactorInv, SocketsAgree, Reactor!HandlesAreCurrent
<1>8. HandlesAgree' /\ SlotsAgree' /\ EventsAgree'
  BY <1>2 DEF ReactorInv, HandlesAgree, SlotsAgree, EventsAgree
<1> QED
  BY <1>6, <1>7, <1>8 DEF ReactorInv

\* A handle takes away the subscription it is for, or none.
LEMMA UnsubscribeKeeps ==
    ASSUME ReactorInv, NEW u \in Users, Reactor!Unsubscribe(u)
    PROVE  ReactorInv'
<1>t. Reactor!TypeOK
  BY DEF ReactorInv
<1>0. handle[u] # Reactor!NoHandle
  BY DEF Reactor!Unsubscribe
<1>1. PICK f \in Fds : handle[u].fd = f
  BY <1>0 DEF ReactorInv, HandlesAgree
<1>a. f # -1 /\ -1 \notin Fds /\ MaxSid \in Nat
  BY SysAssumption DEF Reactor!ReactorAssumption
<1>2. /\ IF data[f].sid = handle[u].sid
         THEN /\ watch' = [watch EXCEPT ![f] = Reactor!NoWatch]
              /\ data' = [data EXCEPT ![f] = [sid |-> data[f].sid, events |-> {}, slot |-> NoUser]]
         ELSE UNCHANGED <<watch, data>>
      /\ handle' = [handle EXCEPT ![u] = Reactor!NoHandle]
      /\ UNCHANGED <<socket, batch, calling>>
  BY <1>1 DEF Reactor!Unsubscribe
<1>3. /\ handle' \in [Users -> [fd : Fds \union {-1}, sid : 0..MaxSid]]
      /\ handle'[u] = Reactor!NoHandle
      /\ \A v \in Users : v # u => handle'[v] = handle[v]
      /\ Reactor!Open' = Reactor!Open
  BY <1>2, <1>t, <1>a DEF Reactor!TypeOK, Reactor!NoHandle, Reactor!Open
<1>4. CASE data[f].sid = handle[u].sid
  <2>1. /\ watch' = [watch EXCEPT ![f] = Reactor!NoWatch]
        /\ data' = [data EXCEPT ![f] = [sid |-> data[f].sid, events |-> {}, slot |-> NoUser]]
    BY <1>2, <1>4
  <2>2. /\ data' \in [Fds -> [sid : 0..MaxSid, events : SUBSET Reactor!Events,
                              slot : Users \union {NoUser}]]
        /\ data'[f].sid = data[f].sid /\ data'[f].events = {} /\ data'[f].slot = NoUser
        /\ \A g \in Fds : g # f => data'[g] = data[g]
    <3>1. data[f] \in [sid : 0..MaxSid, events : SUBSET Reactor!Events,
                       slot : Users \union {NoUser}]
      BY <1>t DEF Reactor!TypeOK
    <3> QED
      BY <1>t, <2>1, <3>1 DEF Reactor!TypeOK
  <2>3. /\ watch' \in [Fds -> [sid : 0..MaxSid, events : SUBSET Reactor!Events]]
        /\ watch'[f] = Reactor!NoWatch
        /\ \A g \in Fds : g # f => watch'[g] = watch[g]
    BY <2>1, <1>t, <1>a DEF Reactor!TypeOK, Reactor!NoWatch
  <2>4. data[f].slot = u
    BY <1>0, <1>1, <1>4 DEF ReactorInv, HandlesAgree
  <2>5. Reactor!TypeOK'
    BY <1>t, <1>2, <1>3, <2>2, <2>3 DEF Reactor!TypeOK
  <2>6. SocketsAgree'
    <3>1. ASSUME NEW v \in Users, handle'[v] # Reactor!NoHandle, socket[v] # -1
          PROVE  /\ handle'[v].fd = socket[v]
                 /\ data'[handle'[v].fd].sid = handle'[v].sid
                 /\ data'[handle'[v].fd].slot = v
      <4>1. v # u /\ handle'[v] = handle[v]
        BY <1>3, <3>1
      <4>2. /\ handle[v].fd = socket[v] /\ data[handle[v].fd].sid = handle[v].sid
            /\ data[handle[v].fd].slot = v
        BY <3>1, <4>1 DEF ReactorInv, SocketsAgree, Reactor!HandlesAreCurrent
      <4>3. handle[v].fd \in Fds /\ handle[v].fd # f
        BY <2>4, <3>1, <4>1, <4>2 DEF ReactorInv, HandlesAgree
      <4> QED
        BY <2>2, <4>1, <4>2, <4>3
    <3>2. ASSUME NEW v \in Users, handle'[v] = Reactor!NoHandle, socket[v] # -1
          PROVE  data'[socket[v]].slot = NoUser
      <4>1. socket[v] \in Fds
        BY <1>t, <3>2 DEF Reactor!TypeOK
      <4>2. CASE v = u
        <5>1. socket[u] = f
          BY <1>0, <1>1, <3>2, <4>2 DEF ReactorInv, SocketsAgree, Reactor!HandlesAreCurrent
        <5> QED
          BY <2>2, <4>2, <5>1
      <4>3. CASE v # u
        <5>1. data[socket[v]].slot = NoUser
          BY <1>3, <3>2, <4>3 DEF ReactorInv, SocketsAgree
        <5> QED
          BY <2>2, <4>1, <5>1
      <4> QED
        BY <4>2, <4>3
    <3>3. socket' = socket /\ Reactor!NoHandle' = Reactor!NoHandle
      BY <1>2 DEF Reactor!NoHandle
    <3> QED
      BY <3>1, <3>2, <3>3 DEF ReactorInv, SocketsAgree, Reactor!HandlesAreCurrent
  <2>7. HandlesAgree'
    <3>1. ASSUME NEW v \in Users, handle'[v] # Reactor!NoHandle
          PROVE  /\ handle'[v].fd \in Fds
                 /\ handle'[v].sid =< data'[handle'[v].fd].sid
                 /\ data'[handle'[v].fd].sid = handle'[v].sid => data'[handle'[v].fd].slot = v
      <4>1. v # u /\ handle'[v] = handle[v]
        BY <1>3, <3>1
      <4>2. /\ handle[v].fd \in Fds /\ handle[v].sid =< data[handle[v].fd].sid
            /\ data[handle[v].fd].sid = handle[v].sid => data[handle[v].fd].slot = v
        BY <3>1, <4>1 DEF ReactorInv, HandlesAgree
      <4> QED
        BY <2>2, <2>4, <4>1, <4>2
    <3> QED
      BY <3>1 DEF HandlesAgree, Reactor!NoHandle
  <2>8. SlotsAgree'
    BY <2>2 DEF ReactorInv, SlotsAgree
  <2>9. EventsAgree'
    <3> SUFFICES ASSUME NEW ev \in batch
                 PROVE  /\ ev.sid =< data'[ev.fd].sid
                        /\ data'[ev.fd].sid = ev.sid =>
                            \/ data'[ev.fd].slot = NoUser
                            \/ /\ data'[ev.fd].slot = ev.user
                               /\ handle'[ev.user] = [fd |-> ev.fd, sid |-> ev.sid]
      BY <1>2 DEF EventsAgree
    <3>1. /\ ev.fd \in Fds /\ ev.user \in Users /\ ev.sid =< data[ev.fd].sid
          /\ data[ev.fd].sid = ev.sid =>
                \/ data[ev.fd].slot = NoUser
                \/ /\ data[ev.fd].slot = ev.user
                   /\ handle[ev.user] = [fd |-> ev.fd, sid |-> ev.sid]
      BY <1>t DEF ReactorInv, EventsAgree, Reactor!TypeOK
    <3>2. CASE ev.fd = f
      BY <2>2, <3>1, <3>2
    <3>3. CASE ev.fd # f
      <4>1. handle[ev.user] = [fd |-> ev.fd, sid |-> ev.sid] => ev.user # u
        BY <1>1, <3>3
      <4> QED
        BY <1>3, <2>2, <3>1, <3>3, <4>1
    <3> QED
      BY <3>2, <3>3
  <2> QED
    BY <2>5, <2>6, <2>7, <2>8, <2>9 DEF ReactorInv
<1>5. CASE data[f].sid # handle[u].sid
  <2>1. UNCHANGED <<watch, data>>
    BY <1>2, <1>5
  <2>2. Reactor!TypeOK'
    BY <1>t, <1>2, <1>3, <2>1 DEF Reactor!TypeOK
  <2>3. socket[u] = -1
    BY <1>0, <1>1, <1>5 DEF ReactorInv, SocketsAgree, Reactor!HandlesAreCurrent
  <2>4. SocketsAgree' /\ HandlesAgree' /\ SlotsAgree'
    BY <1>2, <1>3, <2>1, <2>3
    DEF ReactorInv, SocketsAgree, Reactor!HandlesAreCurrent, HandlesAgree, SlotsAgree,
        Reactor!NoHandle
  <2>5. EventsAgree'
    <3> SUFFICES ASSUME NEW ev \in batch, data[ev.fd].sid = ev.sid, data[ev.fd].slot # NoUser
                 PROVE  handle'[ev.user] = [fd |-> ev.fd, sid |-> ev.sid]
      BY <1>2, <2>1 DEF ReactorInv, EventsAgree
    <3>1. ev.user \in Users /\ handle[ev.user] = [fd |-> ev.fd, sid |-> ev.sid]
      BY <1>t DEF ReactorInv, EventsAgree, Reactor!TypeOK
    <3>2. ev.user # u
      BY <1>1, <1>5, <3>1
    <3> QED
      BY <1>3, <3>1, <3>2
  <2> QED
    BY <2>2, <2>4, <2>5 DEF ReactorInv
<1> QED
  BY <1>4, <1>5

\* epoll and the entry are told the same interest.
LEMMA SetEventsKeeps ==
    ASSUME ReactorInv, NEW u \in Users, NEW events \in SUBSET Reactor!Events,
           Reactor!SetEvents(u, events)
    PROVE  ReactorInv'
<1>t. Reactor!TypeOK
  BY DEF ReactorInv
<1>1. PICK f \in Fds : handle[u].fd = f
  BY DEF Reactor!SetEvents, ReactorInv, HandlesAgree
<1>2. /\ watch[f] # Reactor!NoWatch
      /\ watch' = [watch EXCEPT ![f].events = events]
      /\ data' = [data EXCEPT ![f].events = events]
      /\ UNCHANGED <<handle, socket, batch, calling>>
  BY <1>1 DEF Reactor!SetEvents
<1>3. /\ watch[f] = [sid |-> data[f].sid, events |-> data[f].events]
      /\ data[f].slot \in Users
  BY <1>2, WatchedIsCurrent
<1>4. data[f].slot # NoUser /\ f \in Reactor!Open
  BY <1>2, <1>t DEF Reactor!TypeOK
<1>5. /\ data' \in [Fds -> [sid : 0..MaxSid, events : SUBSET Reactor!Events,
                            slot : Users \union {NoUser}]]
      /\ watch' \in [Fds -> [sid : 0..MaxSid, events : SUBSET Reactor!Events]]
      /\ watch'[f] = [sid |-> data[f].sid, events |-> events]
      /\ data'[f].sid = data[f].sid /\ data'[f].events = events /\ data'[f].slot = data[f].slot
      /\ \A g \in Fds : g # f => data'[g] = data[g] /\ watch'[g] = watch[g]
  BY <1>2, <1>3, <1>t DEF Reactor!TypeOK
<1>6. \A g \in Fds : data'[g].sid = data[g].sid /\ data'[g].slot = data[g].slot
  BY <1>5
<1>7. Reactor!TypeOK'
  <2>1. Reactor!Open' = Reactor!Open
    BY <1>2 DEF Reactor!Open
  <2> QED
    BY <1>t, <1>2, <1>4, <1>5, <2>1 DEF Reactor!TypeOK
<1>8. SocketsAgree' /\ HandlesAgree'
  <2>1. ASSUME NEW v \in Users, handle[v] # Reactor!NoHandle
        PROVE  /\ data'[handle[v].fd].sid = data[handle[v].fd].sid
               /\ data'[handle[v].fd].slot = data[handle[v].fd].slot
    BY <1>6, <2>1 DEF ReactorInv, HandlesAgree
  <2>2. ASSUME NEW v \in Users, socket[v] # -1
        PROVE  data'[socket[v]].slot = data[socket[v]].slot
    BY <1>6, <1>t, <2>2 DEF Reactor!TypeOK
  <2> QED
    BY <1>2, <2>1, <2>2
    DEF ReactorInv, SocketsAgree, Reactor!HandlesAreCurrent, HandlesAgree, Reactor!NoHandle
<1>9. SlotsAgree'
  BY <1>4, <1>5 DEF ReactorInv, SlotsAgree
<1>10. EventsAgree'
  <2>1. ASSUME NEW ev \in batch
        PROVE  /\ data'[ev.fd].sid = data[ev.fd].sid
               /\ data'[ev.fd].slot = data[ev.fd].slot
    BY <1>6, <1>t DEF Reactor!TypeOK
  <2> QED
    BY <1>2, <2>1 DEF ReactorInv, EventsAgree
<1> QED
  BY <1>7, <1>8, <1>9, <1>10 DEF ReactorInv

\* What epoll reports is of current subscriptions.
LEMMA WaitKeeps ==
    ASSUME ReactorInv, Reactor!Wait
    PROVE  ReactorInv'
<1>t. Reactor!TypeOK
  BY DEF ReactorInv
<1>1. PICK ready \in [Fds -> SUBSET Reactor!Events] :
        batch' = {[fd |-> f, sid |-> watch[f].sid, user |-> data[f].slot,
                   events |-> ready[f] \intersect watch[f].events] :
                    f \in {g \in Fds : ready[g] \intersect watch[g].events # {}}}
  BY DEF Reactor!Wait
<1>2. UNCHANGED <<data, watch, handle, socket, calling>>
  BY DEF Reactor!Wait
<1>3. ASSUME NEW ev \in batch'
      PROVE  /\ ev \in [fd : Fds, sid : 0..MaxSid, user : Users, events : SUBSET Reactor!Events]
             /\ ev.sid = data[ev.fd].sid /\ data[ev.fd].slot = ev.user
             /\ handle[ev.user] = [fd |-> ev.fd, sid |-> ev.sid]
  <2>1. PICK f \in Fds :
          /\ ready[f] \intersect watch[f].events # {}
          /\ ev = [fd |-> f, sid |-> watch[f].sid, user |-> data[f].slot,
                   events |-> ready[f] \intersect watch[f].events]
    BY <1>1, <1>3
  <2>2. watch[f] # Reactor!NoWatch
    BY <2>1 DEF Reactor!NoWatch
  <2>3. /\ watch[f].sid = data[f].sid /\ data[f].slot \in Users
        /\ handle[data[f].slot] = [fd |-> f, sid |-> data[f].sid]
    <3>1. /\ watch[f] = [sid |-> data[f].sid, events |-> data[f].events]
          /\ data[f].slot \in Users
          /\ handle[data[f].slot] = [fd |-> f, sid |-> data[f].sid]
      BY <2>2, WatchedIsCurrent
    <3> QED
      BY <3>1
  <2>4. watch[f].sid \in 0..MaxSid /\ watch[f].events \in SUBSET Reactor!Events
    BY <1>t DEF Reactor!TypeOK
  <2> QED
    BY <2>1, <2>3, <2>4
<1>4. Reactor!TypeOK'
  <2>1. Reactor!Open' = Reactor!Open
    BY <1>2 DEF Reactor!Open
  <2> QED
    BY <1>t, <1>2, <1>3, <2>1 DEF Reactor!TypeOK
<1>5. SocketsAgree' /\ HandlesAgree' /\ SlotsAgree'
  BY <1>2 DEF ReactorInv, SocketsAgree, Reactor!HandlesAreCurrent, HandlesAgree, SlotsAgree,
              Reactor!NoHandle
<1>6. EventsAgree'
  <2> SUFFICES ASSUME NEW ev \in batch'
               PROVE  /\ ev.sid =< data[ev.fd].sid
                      /\ data[ev.fd].slot = ev.user
                      /\ handle[ev.user] = [fd |-> ev.fd, sid |-> ev.sid]
    BY <1>2 DEF EventsAgree
  <2>1. ev.sid \in 0..MaxSid /\ MaxSid \in Nat
    BY <1>3, SysAssumption DEF Reactor!ReactorAssumption
  <2> QED
    BY <1>3, <2>1
<1> QED
  BY <1>4, <1>5, <1>6 DEF ReactorInv

\* An event that is neither stale nor unwanted is for the user that is subscribed.
LEMMA CalledIsSubscribed ==
    ASSUME ReactorInv, NEW ev \in batch, ~Reactor!Stale(ev), Reactor!Wanted(ev) # {}
    PROVE  /\ data[ev.fd].slot = ev.user /\ ev.user \in Users
           /\ handle[ev.user] = [fd |-> ev.fd, sid |-> ev.sid]
<1>1. /\ ev.fd \in Fds /\ ev.sid \in 0..MaxSid /\ data[ev.fd].sid \in 0..MaxSid
      /\ ev.user \in Users /\ MaxSid \in Nat
  BY SysAssumption DEF ReactorInv, Reactor!TypeOK, Reactor!ReactorAssumption
<1>2. data[ev.fd].sid = ev.sid
  <2>1. ev.sid =< data[ev.fd].sid
    BY DEF ReactorInv, EventsAgree
  <2>2. ~(data[ev.fd].sid > ev.sid)
    BY DEF Reactor!Stale
  <2> QED
    BY <1>1, <2>1, <2>2
<1>3. data[ev.fd].slot # NoUser
  BY <1>1 DEF ReactorInv, SlotsAgree, Reactor!Wanted
<1> QED
  BY <1>1, <1>2, <1>3 DEF ReactorInv, EventsAgree

\* dispatch() takes events from the batch and changes no subscription.
LEMMA DispatchKeeps ==
    ASSUME ReactorInv,
           \/ \E ev \in batch : Reactor!Skip(ev) \/ Reactor!Call(ev)
           \/ Reactor!CallEnds
    PROVE  ReactorInv'
<1>t. Reactor!TypeOK
  BY DEF ReactorInv
<1>1. /\ batch' \subseteq batch
      /\ UNCHANGED <<data, watch, handle, socket>>
  BY DEF Reactor!Skip, Reactor!Call, Reactor!CallEnds
<1>2. calling' \in [user : Users \union {NoUser}, for : Users \union {NoUser},
                    fd : Fds \union {-1}, sid : 0..MaxSid, events : SUBSET Reactor!Events]
  <2>1. CASE \E ev \in batch : Reactor!Skip(ev)
    BY <1>t, <2>1 DEF Reactor!Skip, Reactor!TypeOK
  <2>2. ASSUME NEW ev \in batch, Reactor!Call(ev)
        PROVE  calling' \in [user : Users \union {NoUser}, for : Users \union {NoUser},
                             fd : Fds \union {-1}, sid : 0..MaxSid,
                             events : SUBSET Reactor!Events]
    <3>1. /\ ev.fd \in Fds /\ ev.sid \in 0..MaxSid /\ ev.user \in Users
          /\ ev.events \in SUBSET Reactor!Events
      BY <1>t DEF Reactor!TypeOK
    <3>2. data[ev.fd].slot \in Users \union {NoUser}
      BY <1>t, <3>1 DEF Reactor!TypeOK
    <3> QED
      BY <2>2, <3>1, <3>2 DEF Reactor!Call, Reactor!Wanted
  <2>3. CASE Reactor!CallEnds
    <3>1. 0 \in 0..MaxSid
      BY SysAssumption DEF Reactor!ReactorAssumption
    <3> QED
      BY <2>3, <3>1 DEF Reactor!CallEnds, Reactor!NoCall
  <2> QED
    BY <2>1, <2>2, <2>3
<1>3. Reactor!TypeOK'
  <2>1. Reactor!Open' = Reactor!Open
    BY <1>1 DEF Reactor!Open
  <2> QED
    BY <1>t, <1>1, <1>2, <2>1 DEF Reactor!TypeOK
<1>4. SocketsAgree' /\ HandlesAgree' /\ SlotsAgree'
  BY <1>1 DEF ReactorInv, SocketsAgree, Reactor!HandlesAreCurrent, HandlesAgree, SlotsAgree,
              Reactor!NoHandle
<1>5. EventsAgree'
  BY <1>1 DEF ReactorInv, EventsAgree
<1> QED
  BY <1>3, <1>4, <1>5 DEF ReactorInv

\* Every step of the reactor, of a callback or of a user keeps the invariant.
LEMMA ReactorKeeps ==
    ReactorInv /\ [Reactor!Next]_(Reactor!vars) => ReactorInv'
<1>1. ASSUME ReactorInv, Reactor!Next PROVE ReactorInv'
  <2>1. CASE \E u \in Users, f \in Fds :
                \/ \E events \in SUBSET Reactor!Events \ {{}} : Reactor!Subscribe(u, f, events)
                \/ Reactor!SubscribeFails(u, f)
    BY <1>1, <2>1, SubscribeKeeps, SubscribeFailsKeeps
  <2>2. CASE \E u \in Users :
                \/ Reactor!Unsubscribe(u) \/ Reactor!Close(u)
                \/ \E events \in SUBSET Reactor!Events : Reactor!SetEvents(u, events)
    BY <1>1, <2>2, UnsubscribeKeeps, CloseKeeps, SetEventsKeeps
  <2>3. CASE Reactor!Wait
    BY <1>1, <2>3, WaitKeeps
  <2>4. CASE \/ \E ev \in batch : Reactor!Skip(ev) \/ Reactor!Call(ev)
             \/ Reactor!CallEnds
    BY <1>1, <2>4, DispatchKeeps
  <2> QED
    BY <1>1, <2>1, <2>2, <2>3, <2>4 DEF Reactor!Next
<1>2. ASSUME ReactorInv, UNCHANGED Reactor!vars PROVE ReactorInv'
  <2>1. UNCHANGED <<data, watch, handle, socket, batch, calling>>
    BY <1>2 DEF Reactor!vars
  <2>2. Reactor!TypeOK'
    <3>1. Reactor!Open' = Reactor!Open
      BY <2>1 DEF Reactor!Open
    <3> QED
      BY <1>2, <2>1, <3>1 DEF ReactorInv, Reactor!TypeOK
  <2>3. SocketsAgree' /\ HandlesAgree' /\ SlotsAgree' /\ EventsAgree'
    BY <1>2, <2>1
    DEF ReactorInv, SocketsAgree, Reactor!HandlesAreCurrent, HandlesAgree, SlotsAgree,
        EventsAgree, Reactor!NoHandle
  <2> QED
    BY <2>2, <2>3 DEF ReactorInv
<1> QED
  BY <1>1, <1>2

\* A call that begins is for the subscription that the event was reported for.
LEMMA CallIsCurrent ==
    ASSUME ReactorInv, Reactor!Next, calling' # Reactor!NoCall, calling = Reactor!NoCall
    PROVE  LET u == calling'.user
           IN /\ u # NoUser /\ u = calling'.for
              /\ handle[u] = [fd |-> calling'.fd, sid |-> calling'.sid]
              /\ calling'.events # {}
              /\ calling'.events \subseteq data[calling'.fd].events
<1>1. PICK ev \in batch : Reactor!Call(ev)
  BY DEF Reactor!Next, Reactor!Subscribe, Reactor!SubscribeFails, Reactor!Unsubscribe,
         Reactor!Close, Reactor!SetEvents, Reactor!Wait, Reactor!Skip, Reactor!CallEnds
<1>2. /\ ~Reactor!Stale(ev) /\ Reactor!Wanted(ev) # {}
      /\ calling' = [user |-> data[ev.fd].slot, for |-> ev.user, fd |-> ev.fd, sid |-> ev.sid,
                     events |-> Reactor!Wanted(ev)]
  BY <1>1 DEF Reactor!Call
<1>3. /\ data[ev.fd].slot = ev.user /\ ev.user \in Users
      /\ handle[ev.user] = [fd |-> ev.fd, sid |-> ev.sid]
  BY <1>2, CalledIsSubscribed
<1>4. ev.user # NoUser
  BY <1>3, SysAssumption DEF Reactor!ReactorAssumption
<1> QED
  BY <1>2, <1>3, <1>4 DEF Reactor!Wanted

\* An event that is dropped is for a user that does not wait for it.
LEMMA DroppedIsStale ==
    ASSUME ReactorInv, Reactor!Next, NEW ev \in batch \ batch', calling' = Reactor!NoCall,
           NEW u \in Users, handle[u] = [fd |-> ev.fd, sid |-> ev.sid], socket[u] = ev.fd
    PROVE  ev.events \intersect data[ev.fd].events = {}
<1>1. /\ ev.fd \in Fds /\ ev.sid \in 0..MaxSid /\ -1 \notin Fds /\ MaxSid \in Nat
  BY SysAssumption DEF ReactorInv, Reactor!TypeOK, Reactor!ReactorAssumption
<1>2. PICK e \in batch : Reactor!Skip(e) \/ Reactor!Call(e)
  BY DEF Reactor!Next, Reactor!Subscribe, Reactor!SubscribeFails, Reactor!Unsubscribe,
         Reactor!Close, Reactor!SetEvents, Reactor!Wait, Reactor!CallEnds
<1>3. e = ev
  BY <1>2 DEF Reactor!Skip, Reactor!Call
<1>4. CASE Reactor!Call(ev)
  <2>1. Reactor!Wanted(ev) # {} /\ calling'.events = Reactor!Wanted(ev)
    BY <1>4 DEF Reactor!Call
  <2> QED
    BY <2>1 DEF Reactor!NoCall
<1>5. CASE Reactor!Skip(ev)
  <2>1. data[ev.fd].sid = ev.sid
    <3>1. handle[u] # Reactor!NoHandle /\ socket[u] # -1
      BY <1>1 DEF Reactor!NoHandle
    <3> QED
      BY <3>1 DEF ReactorInv, SocketsAgree, Reactor!HandlesAreCurrent
  <2>2. ~Reactor!Stale(ev)
    BY <1>1, <2>1 DEF Reactor!Stale
  <2> QED
    BY <1>5, <2>2 DEF Reactor!Skip, Reactor!Wanted
<1> QED
  BY <1>2, <1>3, <1>4, <1>5

\* Whatever users do between and within callbacks, the invariant holds.
THEOREM ReactorInvHolds ==
    Reactor!Spec => []ReactorInv
  BY ReactorStarts, ReactorKeeps, PTL DEF Reactor!Spec

\* A step of the composition is a step of the reactor or leaves it alone.
LEMMA SysStepsReactor ==
    [SysNext]_sysVars => [Reactor!Next]_(Reactor!vars)
  BY DEF SysNext, sysVars, PoolNext, ReactorNext, QueueNext, FileNext, reactorVars,
         Reactor!vars

\* A slot is called for the subscription that its event was reported for, which its
\* user still has, with events that it still wants; and no event is dropped that
\* somebody waits for (EpollReactor::dispatch, with the identities of do_subscribe,
\* do_unsubscribe and do_set_events).
THEOREM CallsHold ==
    SysSpec => CallsAreCurrent
<1>1. SysInit => ReactorInv
  BY ReactorStarts DEF SysInit
<1>2. ReactorInv /\ [SysNext]_sysVars => ReactorInv'
  BY ReactorKeeps, SysStepsReactor
<1>3. ReactorInv => (part = "Reactor" => Reactor!TypeOK /\ Reactor!HandlesAreCurrent)
  BY DEF ReactorInv, SocketsAgree
<1>4. ReactorInv /\ [SysNext]_sysVars =>
        [calling' # Reactor!NoCall /\ calling = Reactor!NoCall =>
            LET u == calling'.user
            IN /\ u # NoUser /\ u = calling'.for
               /\ handle[u] = [fd |-> calling'.fd, sid |-> calling'.sid]
               /\ calling'.events # {}
               /\ calling'.events \subseteq data[calling'.fd].events]_(Reactor!vars)
  BY CallIsCurrent, SysStepsReactor
<1>5. ReactorInv /\ [SysNext]_sysVars =>
        [\A ev \in batch \ batch' : calling' = Reactor!NoCall =>
            \A u \in Users :
                handle[u] = [fd |-> ev.fd, sid |-> ev.sid] /\ socket[u] = ev.fd =>
                    ev.events \intersect data[ev.fd].events = {}]_(Reactor!vars)
  BY DroppedIsStale, SysStepsReactor
<1> QED
  BY <1>1, <1>2, <1>3, <1>4, <1>5, PTL
  DEF SysSpec, CallsAreCurrent, Reactor!CallsAreCurrent, Reactor!OnlyStaleEventsAreDropped

-----------------------------------------------------------------------------
(* The queues.  QueueP and FileP are Queue and File once more, together with *)
(* what MemQueueProofs proves of them.                                       *)

QueueP == INSTANCE MemQueueProofs WITH
    Producers <- {reactor}, Consumers <- Readers, Capacity <- QueueSize,
    Initialised <- QueueSize, MaxPos <- MaxPosted,
    Msgs <- [batch : 1..MaxBatches, first : 1..MaxItems, last : 1..MaxItems]

FileP == INSTANCE MemQueueProofs WITH
    Producers <- Writers, Consumers <- Readers, Msgs <- Words, Capacity <- FileSize,
    Initialised <- FileSize, MaxPos <- MaxWritten,
    rpos <- frpos, wpos <- fwpos, seq <- fseq, val <- fval, pc <- fpc, pos <- fpos, arg <- farg

\* What the modules assume of their constants holds of the instances.
LEMMA QueueAssumed == QueueP!MemQueueAssumption /\ QueueP!MsgBatchAssumption
<1>1. Queue!MemQueueAssumption /\ Queue!MsgBatchAssumption
  BY SysAssumption
<1>2. QueueP!MemQueueAssumption
  BY <1>1 DEF Queue!MemQueueAssumption, QueueP!MemQueueAssumption
<1>3. QueueP!MsgBatchAssumption
  BY <1>1 DEF Queue!MsgBatchAssumption, QueueP!MsgBatchAssumption, Queue!IsFiniteSet,
              QueueP!IsFiniteSet
<1> QED
  BY <1>2, <1>3

\* The same of the queue in a file.
LEMMA FileAssumed == FileP!MemQueueAssumption
<1>1. File!MemQueueAssumption
  BY SysAssumption
<1> QED
  BY <1>1 DEF File!MemQueueAssumption, FileP!MemQueueAssumption

\* A queue on which no batch was posted (BatchInit of both).
LEMMA QueueStarts == Queue!BatchInit => QueueP!BatchKept
<1>1. Queue!BatchInit <=> QueueP!BatchInit
  BY DEF Queue!BatchInit, QueueP!BatchInit, Queue!Init, QueueP!Init, Queue!Threads,
         QueueP!Threads, Queue!Elems, QueueP!Elems
<1> QED
  BY <1>1, QueueAssumed, QueueP!BatchInitKept

\* The steps of post are the same in both.
LEMMA SamePostSteps ==
    Queue!PostSteps(reactor) <=> QueueP!PostSteps(reactor)
  BY DEF Queue!PostSteps, QueueP!PostSteps, Queue!PostLoad, QueueP!PostLoad,
     Queue!PostAgain, QueueP!PostAgain, Queue!PostClaim, QueueP!PostClaim,
     Queue!PostLose, QueueP!PostLose, Queue!PostAccess, QueueP!PostAccess,
     Queue!PostCommit, QueueP!PostCommit, Queue!Goto, QueueP!Goto, Queue!Elem, QueueP!Elem

\* The steps of fetch are.
LEMMA SameFetchSteps ==
    ASSUME NEW c
    PROVE  Queue!FetchSteps(c) <=> QueueP!FetchSteps(c)
  BY DEF Queue!FetchSteps, QueueP!FetchSteps, Queue!Fetch, QueueP!Fetch,
     Queue!FetchLoad, QueueP!FetchLoad,
     Queue!FetchAgain, QueueP!FetchAgain, Queue!FetchClaim, QueueP!FetchClaim,
     Queue!FetchLose, QueueP!FetchLose, Queue!FetchAccess, QueueP!FetchAccess,
     Queue!FetchCommit, QueueP!FetchCommit, Queue!Goto, QueueP!Goto, Queue!Elem, QueueP!Elem

\* The calls of MsgQueue and what is under way of them are.
LEMMA SameBatchNext == Queue!BatchNext => QueueP!BatchNext
<1>1. ASSUME NEW size, NEW step, Queue!Call(size, step)
      PROVE  QueueP!Call(size, step)
  BY <1>1 DEF Queue!Call, QueueP!Call, Queue!Running, QueueP!Running, Queue!Batch, QueueP!Batch,
          Queue!Last, QueueP!Last, Queue!Steps, QueueP!Steps, Queue!reserve, QueueP!reserve,
          Queue!vars, QueueP!vars
<1>2. Queue!PostStep => QueueP!PostStep
  BY DEF Queue!PostStep, QueueP!PostStep, Queue!Running, QueueP!Running, Queue!Batch, QueueP!Batch,
         Queue!Last, QueueP!Last, Queue!StepSize, QueueP!StepSize, Queue!Post, QueueP!Post,
         Queue!Goto, QueueP!Goto
<1>3. Queue!Posting => QueueP!Posting
  BY SamePostSteps
     DEF Queue!Posting, QueueP!Posting, Queue!Batch, QueueP!Batch,
         Queue!Last, QueueP!Last, Queue!StepSize, QueueP!StepSize
<1>4. ASSUME NEW c, Queue!Fetching(c)
      PROVE  QueueP!Fetching(c)
  BY <1>4, SameFetchSteps DEF Queue!Fetching, QueueP!Fetching
<1> QED
  BY <1>1, <1>2, <1>3, <1>4 DEF Queue!BatchNext, QueueP!BatchNext

\* The invariant of the batches holds on, also while another part runs.
LEMMA QueueKeeps ==
    ASSUME QueueP!BatchKept, [SysNext]_sysVars
    PROVE  QueueP!BatchKept'
<1>1. [QueueP!BatchNext]_(QueueP!batchVars)
  <2>1. Queue!BatchNext \/ UNCHANGED queueVars
    BY DEF SysNext, sysVars, PoolNext, ReactorNext, QueueNext, FileNext
  <2> QED
    BY <2>1, SameBatchNext DEF queueVars, QueueP!batchVars, QueueP!vars
<1> QED
  BY <1>1, QueueAssumed, QueueP!BatchStepKept

\* What it says is what is checked of the batches.
LEMMA QueueSays ==
    ASSUME QueueP!BatchKept
    PROVE  Queue!BatchTypeOK /\ Queue!ItemsAreAccounted /\ Queue!OnlyTheLastIsCut
<1>1. QueueP!BatchTypeOK /\ QueueP!ItemsAreAccounted /\ QueueP!OnlyTheLastIsCut
  BY QueueAssumed, QueueP!BatchInvSays DEF QueueP!BatchKept
<1>2. Queue!TypeOK
  BY <1>1 DEF QueueP!BatchTypeOK, QueueP!TypeOK, Queue!TypeOK, Queue!Threads,
         QueueP!Threads, Queue!Elems, QueueP!Elems, Queue!Labels, QueueP!Labels
<1>3. Queue!BatchTypeOK
  BY <1>1, <1>2 DEF QueueP!BatchTypeOK, Queue!BatchTypeOK
<1>4. Queue!ItemsAreAccounted
  BY <1>1 DEF QueueP!ItemsAreAccounted, Queue!ItemsAreAccounted, QueueP!Committed,
          Queue!Committed, QueueP!Elem, Queue!Elem, QueueP!Items, Queue!Items
<1>5. Queue!OnlyTheLastIsCut
  BY <1>1 DEF QueueP!OnlyTheLastIsCut, Queue!OnlyTheLastIsCut, QueueP!Cardinality,
          Queue!Cardinality, QueueP!Steps, Queue!Steps
<1> QED
  BY <1>3, <1>4, <1>5

\* A new file.
LEMMA FileStarts == File!FileInit => FileP!FileKept
<1>1. File!FileInit <=> FileP!FileInit
  BY DEF File!FileInit, FileP!FileInit, File!Init, FileP!Init, File!Threads,
         FileP!Threads, File!Elems, FileP!Elems
<1> QED
  BY <1>1, FileAssumed, FileP!FileInitKept

\* The steps of the threads on the file and the deaths of the process are the same.
LEMMA SameFileNext == File!FileNext => FileP!FileNext
<1>1. ASSUME NEW p
      PROVE  File!PostSteps(p) <=> FileP!PostSteps(p)
  BY DEF File!PostSteps, FileP!PostSteps, File!PostLoad, FileP!PostLoad,
     File!PostAgain, FileP!PostAgain, File!PostClaim, FileP!PostClaim,
     File!PostLose, FileP!PostLose, File!PostAccess, FileP!PostAccess,
     File!PostCommit, FileP!PostCommit, File!Goto, FileP!Goto, File!Elem, FileP!Elem
<1>2. ASSUME NEW c
      PROVE  File!FetchSteps(c) <=> FileP!FetchSteps(c)
  BY DEF File!FetchSteps, FileP!FetchSteps, File!Fetch, FileP!Fetch,
     File!FetchLoad, FileP!FetchLoad,
     File!FetchAgain, FileP!FetchAgain, File!FetchClaim, FileP!FetchClaim,
     File!FetchLose, FileP!FetchLose, File!FetchAccess, FileP!FetchAccess,
     File!FetchCommit, FileP!FetchCommit, File!Goto, FileP!Goto, File!Elem, FileP!Elem
<1>3. ASSUME NEW p, NEW msg
      PROVE  File!Post(p, msg) <=> FileP!Post(p, msg)
  BY DEF File!Post, FileP!Post, File!Goto, FileP!Goto
<1>4. File!Run => FileP!Run
  BY <1>1, <1>2, <1>3 DEF File!Run, FileP!Run, File!Next, FileP!Next
<1>5. File!Crash => FileP!Crash
  BY DEF File!Crash, FileP!Crash, File!Threads, FileP!Threads, File!Reopen, FileP!Reopen
<1> QED
  BY <1>4, <1>5 DEF File!FileNext, FileP!FileNext

\* The invariant of the file holds on, also while another part runs.
LEMMA FileKeeps ==
    ASSUME FileP!FileKept, [SysNext]_sysVars
    PROVE  FileP!FileKept'
<1>1. [FileP!FileNext]_(FileP!fileVars)
  <2>1. File!FileNext \/ UNCHANGED fileVars
    BY DEF SysNext, sysVars, PoolNext, ReactorNext, QueueNext, FileNext
  <2> QED
    BY <2>1, SameFileNext DEF fileVars, FileP!fileVars, FileP!vars
<1> QED
  BY <1>1, FileAssumed, FileP!FileStepKept

\* What it says is what is checked of the file.
LEMMA FileSays ==
    ASSUME FileP!FileKept
    PROVE  File!TypeOK /\ File!NothingIsLost /\ File!DeliversWhatWasPosted
<1>1. FileP!TypeOK /\ FileP!NothingIsLost /\ FileP!DeliversWhatWasPosted
  BY FileAssumed, FileP!FileKeptSays
<1>2. File!TypeOK
  BY <1>1 DEF FileP!TypeOK, File!TypeOK, File!Threads, FileP!Threads, File!Elems, FileP!Elems,
          File!Labels, FileP!Labels
<1>3. File!NothingIsLost
  BY <1>1 DEF FileP!NothingIsLost, File!NothingIsLost, FileP!Elem, File!Elem
<1>4. File!DeliversWhatWasPosted
  BY <1>1 DEF FileP!DeliversWhatWasPosted, File!DeliversWhatWasPosted
<1> QED
  BY <1>2, <1>3, <1>4

\* Batches leave each of their items on the queue once and are cut short by no more
\* than one message; and what was committed to a queue in a file is there for the
\* next process, and nothing else is (MsgQueue::archive_trade and create_exec over
\* MemQueue; MemQueue(const char* path)).
THEOREM QueuesHold ==
    SysSpec => []QueueKeepsMessages
<1> DEFINE Kept == QueueP!BatchKept /\ FileP!FileKept
<1>1. SysInit => Kept
  BY QueueStarts, FileStarts DEF SysInit
<1>2. Kept /\ [SysNext]_sysVars => Kept'
  BY QueueKeeps, FileKeeps
<1>3. Kept => QueueKeepsMessages
  BY QueueSays, FileSays DEF QueueKeepsMessages
<1> HIDE DEF Kept
<1> QED
  BY <1>1, <1>2, <1>3, PTL DEF SysSpec
=============================================================================
