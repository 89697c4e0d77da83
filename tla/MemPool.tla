-------------------------------- MODULE MemPool ------------------------------
(***************************************************************************)
(* The memory pool (src/src/swirly/app/MemPool.hpp and MemCtx.cpp): one    *)
(* lock-free stack of free blocks per size class, and an offset up to      *)
(* which the memory has been handed out.  Threads allocate and release in  *)
(* any interleaving of their atomic steps; a thread may release what       *)
(* another one allocated.  Addresses are counted in cache lines.           *)
(*                                                                         *)
(* A link is a pair of a tag and an address, in one word.  A block that is *)
(* in use holds whatever its user writes there, also where a free block    *)
(* has its link: Junk stands for that, a link no push ever made.           *)
(***************************************************************************)
EXTENDS Integers, FiniteSets

CONSTANTS
    Workers,    \* the threads that use the pool
    Sizes,      \* of the objects, in bytes
    MaxSize,    \* of the pool, in cache lines
    MaxTag      \* bound on the pushes of a class, below the width of MemTag

LineSize == 64
Classes == {1, 2, 3, 4, 8, 16, 32}

\* Main.cpp gives MemCtx whole MiB: less than 2^32 bytes, with room for the
\* largest block, if they fit MemSize at all.  The sum in reserve() then does
\* not wrap.
ASSUME MemPoolAssumption ==
    /\ Sizes \subseteq 1..32 * LineSize
    /\ MaxSize \in 0..(2^16)
    /\ MaxTag \in Nat

VARIABLES
    head, tag,  \* of the stack of each class
    next,       \* the links in the blocks
    offset,     \* end of the memory that has been handed out
    used,       \* size of the object at an address, 0 if there is none
    extent,     \* lines that were reserved at an address (not in the code)
    at          \* where each thread is, and its local variables

vars == <<head, tag, next, offset, used, extent, at>>

Addrs == 0..MaxSize - 1
Null == <<0, 0>>
Junk == <<MaxTag + 1, 0>>
Links == {Null, Junk} \union ((1..MaxTag) \X Addrs)

\* The class that serves a number of cache lines.
ClassOf(lines) ==
    CHOOSE c \in Classes : /\ c >= lines
                           /\ \A d \in Classes : d >= lines => c =< d

\* Allocation rounds a size up to cache lines, release rounds it down.
DeallocClass(size) == ClassOf(size \div LineSize)

\* Faulty: allocation rounds down as well.
AllocClassDown(size) == ClassOf(size \div LineSize)

AllocClass(size) == ClassOf((size + LineSize - 1) \div LineSize)

\* The classes that these sizes need.
Stacks == {AllocClass(z) : z \in Sizes} \union {DeallocClass(z) : z \in Sizes}

Idle == [pc |-> "idle", size |-> 0, stack |-> 0, node |-> 0, tag |-> 0,
         old |-> Null, nxt |-> Null]

Init ==
    /\ head = [s \in Stacks |-> Null]
    /\ tag = [s \in Stacks |-> 0]
    /\ next = [a \in Addrs |-> Null]
    /\ offset = 0
    /\ used = [a \in Addrs |-> 0]
    /\ extent = [a \in Addrs |-> 0]
    /\ at = [t \in Workers |-> Idle]

-----------------------------------------------------------------------------
(* alloc() *)

\* pop() has seen the head: an empty stack makes it return nullptr, and
\* reserve() then loads the offset.
PopSees(t, r, h) ==
    at' = [at EXCEPT ![t] = IF h = Null
                            THEN [r EXCEPT !.pc = "bump", !.node = offset]
                            ELSE [r EXCEPT !.pc = "next", !.node = h[2], !.old = h]]

Alloc(t, size) ==
    /\ at[t].pc = "idle"
    /\ LET s == AllocClass(size)
       IN PopSees(t, [Idle EXCEPT !.size = size, !.stack = s], head[s])
    /\ UNCHANGED <<head, tag, next, offset, used, extent>>

\* node->next is read before the exchange; the node may be in use by now.
ReadNext(t) ==
    /\ at[t].pc = "next"
    /\ at' = [at EXCEPT ![t].nxt = next[at[t].node], ![t].pc = "pop"]
    /\ UNCHANGED <<head, tag, next, offset, used, extent>>

\* Faulty: the exchange compares addresses.
SameAddress(h, old) == h[2] = old[2]

\* The comparison of the exchange, of whole words.
SameLink(h, old) == h = old

PopDone(t) ==
    /\ at[t].pc = "pop"
    /\ SameLink(head[at[t].stack], at[t].old)
    /\ head' = [head EXCEPT ![at[t].stack] = at[t].nxt]
    /\ used' = [used EXCEPT ![at[t].node] = at[t].size]
    /\ at' = [at EXCEPT ![t] = Idle]
    /\ UNCHANGED <<tag, next, offset, extent>>

\* The exchange is weak: it may fail without a reason.
PopAgain(t) ==
    /\ at[t].pc = "pop"
    /\ PopSees(t, at[t], head[at[t].stack])
    /\ UNCHANGED <<head, tag, next, offset, used, extent>>

Bump(t) ==
    LET a == at[t].node
    IN /\ at[t].pc = "bump"
       /\ a + at[t].stack =< MaxSize
       /\ offset = a
       /\ offset' = a + at[t].stack
       /\ used' = [used EXCEPT ![a] = at[t].size]
       /\ extent' = [extent EXCEPT ![a] = at[t].stack]
       /\ at' = [at EXCEPT ![t] = Idle]
       /\ UNCHANGED <<head, tag, next>>

BumpAgain(t) ==
    /\ at[t].pc = "bump"
    /\ at[t].node + at[t].stack =< MaxSize
    /\ at' = [at EXCEPT ![t].node = offset]
    /\ UNCHANGED <<head, tag, next, offset, used, extent>>

\* bad_alloc
NoMemory(t) ==
    /\ at[t].pc = "bump"
    /\ at[t].node + at[t].stack > MaxSize
    /\ at' = [at EXCEPT ![t] = Idle]
    /\ UNCHANGED <<head, tag, next, offset, used, extent>>

-----------------------------------------------------------------------------
(* dealloc() *)

\* The tag of the link is drawn, and the head loaded.
Dealloc(t, a) ==
    LET s == DeallocClass(used[a])
    IN /\ at[t].pc = "idle"
       /\ used[a] # 0
       /\ tag[s] < MaxTag
       /\ used' = [used EXCEPT ![a] = 0]
       /\ tag' = [tag EXCEPT ![s] = @ + 1]
       /\ at' = [at EXCEPT ![t] = [Idle EXCEPT !.pc = "link", !.stack = s, !.node = a,
                                               !.tag = tag[s] + 1, !.old = head[s]]]
       /\ UNCHANGED <<head, next, offset, extent>>

SetNext(t) ==
    /\ at[t].pc = "link"
    /\ next' = [next EXCEPT ![at[t].node] = at[t].old]
    /\ at' = [at EXCEPT ![t].pc = "push"]
    /\ UNCHANGED <<head, tag, offset, used, extent>>

PushDone(t) ==
    /\ at[t].pc = "push"
    /\ head[at[t].stack] = at[t].old
    /\ head' = [head EXCEPT ![at[t].stack] = <<at[t].tag, at[t].node>>]
    /\ at' = [at EXCEPT ![t] = Idle]
    /\ UNCHANGED <<tag, next, offset, used, extent>>

PushAgain(t) ==
    /\ at[t].pc = "push"
    /\ at' = [at EXCEPT ![t].old = head[at[t].stack], ![t].pc = "link"]
    /\ UNCHANGED <<head, tag, next, offset, used, extent>>

\* The user of a block writes to it.
Write(a) ==
    /\ used[a] # 0
    /\ next' = [next EXCEPT ![a] = Junk]
    /\ UNCHANGED <<head, tag, offset, used, extent, at>>

-----------------------------------------------------------------------------

Next ==
    \/ \E t \in Workers :
        \/ \E z \in Sizes : Alloc(t, z)
        \/ ReadNext(t) \/ PopDone(t) \/ PopAgain(t)
        \/ Bump(t) \/ BumpAgain(t) \/ NoMemory(t)
        \/ \E a \in Addrs : Dealloc(t, a)
        \/ SetNext(t) \/ PushDone(t) \/ PushAgain(t)
    \/ \E a \in Addrs : Write(a)

Spec == Init /\ [][Next]_vars

-----------------------------------------------------------------------------

\* The type invariant: links are null, one of a push, or junk, and the head of
\* a stack is never junk.
TypeOK ==
    /\ head \in [Stacks -> Links \ {Junk}]
    /\ tag \in [Stacks -> 0..MaxTag]
    /\ next \in [Addrs -> Links]
    /\ offset \in 0..MaxSize
    /\ used \in [Addrs -> {0} \union Sizes]
    /\ extent \in [Addrs -> {0} \union Stacks]
    /\ at \in [Workers -> [pc : {"idle", "next", "pop", "bump", "link", "push"},
                           size : {0} \union Sizes, stack : {0} \union Stacks,
                           node : 0..MaxSize, tag : 0..MaxTag, old : Links, nxt : Links]]

\* The links of a stack from its head; as many as there are addresses and one.
Chain(s) ==
    LET link[i \in 0..MaxSize] ==
            IF i = 0 THEN head[s]
            ELSE IF link[i - 1] \in {Null, Junk} THEN link[i - 1]
            ELSE next[link[i - 1][2]]
    IN link

Free(s) == {Chain(s)[i][2] : i \in {j \in 0..MaxSize : Chain(s)[j] # Null}}

\* Who has a block: the stacks it is on, its user, the threads releasing it.
Owners(a) ==
    {<<"free", s>> : s \in {s \in Stacks : a \in Free(s)}}
        \union {<<"used", z>> : z \in {used[a]} \ {0}}
        \union {<<"push", t>> : t \in {t \in Workers : /\ at[t].pc \in {"link", "push"}
                                                       /\ at[t].node = a}}

\* push() and pop() of any threads neither lose a block nor hand it out twice,
\* though pop() reads the link of a node that another thread may have taken
\* and reused: a block that was reserved has one owner at any time, blocks do
\* not overlap, and the stacks end.
BlocksHaveOneOwner ==
    /\ \A s \in Stacks : Chain(s)[MaxSize] = Null
    /\ \A a \in Addrs : Cardinality(Owners(a)) = IF extent[a] = 0 THEN 0 ELSE 1
    /\ \A a, b \in Addrs :
        a < b /\ extent[a] # 0 /\ extent[b] # 0 => a + extent[a] =< b

\* alloc() rounds up and dealloc() rounds down, so that a block may move to
\* the stack of a smaller class, never of a larger one: an object and the
\* blocks of a stack have the room that they need.
BlocksAreLargeEnough ==
    /\ \A a \in Addrs : used[a] =< LineSize * extent[a]
    /\ \A s \in Stacks : \A a \in Free(s) : extent[a] >= s
=============================================================================
