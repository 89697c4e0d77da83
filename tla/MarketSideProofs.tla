-------------------------- MODULE MarketSideProofs ---------------------------
(***************************************************************************)
(* What MarketSide says of one side of a market, proved for all bounds.    *)
(*                                                                         *)
(* The inductive invariant says that the list is in order, by price and at *)
(* one price by the age of the order, that the levels are those of the     *)
(* orders on it, and that what is left of an order and what was executed   *)
(* make up its lots.  Everything else follows: no order is on the list     *)
(* twice, no order overtakes another, and a step of the side is a step of  *)
(* the abstract queue.                                                     *)
(***************************************************************************)
EXTENDS MarketSide, OrderBookProofs

\* The inductive invariant.
SideInv ==
    /\ which \in Sides
    /\ nextId \in 1..(MaxId + 1)
    /\ Ids \subseteq 1..(nextId - 1)
    /\ \A id \in Ids : /\ orders[id] \in Order
                       /\ orders[id].resd + orders[id].exec = orders[id].lots
    /\ ToSet(side.list) = Ids
    /\ BookSide(side, orders)

-----------------------------------------------------------------------------
(* Orders by id. *)

\* The fields of an order.
LEMMA OrderFields ==
    ASSUME which \in Sides, NEW order, order \in Order
    PROVE  /\ order.ticks \in 1..MaxTicks /\ order.lots \in 1..MaxLots
           /\ order.resd \in 1..MaxLots /\ order.exec \in 0..(MaxLots - 1)
           /\ order.side = which
           /\ order.resd \in Nat /\ order.exec \in Nat /\ order.lots \in Nat
           /\ LevelKey(order) \in Int
<1>1. /\ order.ticks \in 1..MaxTicks /\ order.lots \in 1..MaxLots
      /\ order.resd \in 1..MaxLots /\ order.exec \in 0..(MaxLots - 1)
      /\ order.side = which
  BY DEF Order
<1>2. order.ticks \in Int /\ order.resd \in Nat /\ order.exec \in Nat /\ order.lots \in Nat
  BY <1>1, BoundsAssumption
<1> QED
  BY <1>1, <1>2 DEF LevelKey

\* What revise does to an order.
LEMMA RevisedIs ==
    ASSUME which \in Sides, NEW order, order \in Order,
           order.resd + order.exec = order.lots,
           NEW lots \in 1..MaxLots, lots =< order.lots, lots >= order.exec
    PROVE  /\ ReviseLots(order, lots).resd = lots - order.exec
           /\ lots > order.exec =>
                /\ ReviseLots(order, lots) \in Order
                /\ ReviseLots(order, lots).exec = order.exec
                /\ ReviseLots(order, lots).lots = lots
                /\ LevelKey(ReviseLots(order, lots)) = LevelKey(order)
<1> DEFINE r == order.resd - (order.lots - lots)
           new == [order EXCEPT !.lots = lots, !.resd = r]
<1>1. ReviseLots(order, lots) = new
  BY DEF ReviseLots
<1>2. /\ order.resd \in Nat /\ order.exec \in Nat /\ order.lots \in Nat /\ lots \in Nat
      /\ order.resd \in 1..MaxLots
  BY OrderFields
<1>3. r = lots - order.exec
  BY <1>2
<1>4. new.resd = r /\ new.exec = order.exec /\ new.lots = lots
      /\ new.ticks = order.ticks /\ new.side = order.side
  BY DEF Order
<1>5. lots > order.exec => r \in 1..MaxLots
  BY <1>2, <1>3, BoundsAssumption
<1>6. lots > order.exec => new \in Order
  <2> HIDE DEF r
  <2> QED
    BY <1>5 DEF Order
<1> HIDE DEF new, r
<1>7. LevelKey(new) = LevelKey(order)
  BY <1>4 DEF LevelKey
<1> QED
  BY <1>1, <1>3, <1>4, <1>6, <1>7

TakenLots(order, lots) ==
    [order EXCEPT !.resd = @ - lots, !.exec = @ + lots]

\* What a trade does to an order.
LEMMA TakenIs ==
    ASSUME which \in Sides, NEW order, order \in Order,
           order.resd + order.exec = order.lots,
           NEW lots \in 1..MaxLots, lots =< order.resd
    PROVE  /\ TakenLots(order, lots).resd = order.resd - lots
           /\ lots < order.resd =>
                /\ TakenLots(order, lots) \in Order
                /\ TakenLots(order, lots).exec = order.exec + lots
                /\ TakenLots(order, lots).lots = order.lots
                /\ LevelKey(TakenLots(order, lots)) = LevelKey(order)
<1> DEFINE r == order.resd - lots
           e == order.exec + lots
           new == [order EXCEPT !.resd = r, !.exec = e]
<1>1. TakenLots(order, lots) = new
  BY DEF TakenLots
<1>2. /\ order.resd \in Nat /\ order.exec \in Nat /\ order.lots \in Nat /\ lots \in Nat
      /\ order.resd \in 1..MaxLots /\ order.lots \in 1..MaxLots
  BY OrderFields
<1>3. new.resd = r /\ new.exec = e /\ new.lots = order.lots
      /\ new.ticks = order.ticks /\ new.side = order.side
  BY DEF Order
<1>4. lots < order.resd => r \in 1..MaxLots /\ e \in 0..(MaxLots - 1)
  BY <1>2, BoundsAssumption
<1>5. lots < order.resd => new \in Order
  <2> HIDE DEF r, e
  <2> QED
    BY <1>4 DEF Order
<1> HIDE DEF new
<1>6. LevelKey(new) = LevelKey(order)
  BY <1>3 DEF LevelKey
<1> QED
  BY <1>1, <1>3, <1>5, <1>6

-----------------------------------------------------------------------------
(* The inductive invariant. *)

\* An empty side is right.
LEMMA InitSide == Init => SideInv
<1> SUFFICES ASSUME Init
             PROVE  SideInv
  OBVIOUS
<1>1. orders = <<>> /\ DOMAIN orders = {} /\ side = EmptySide
  BY DEF Init
<1>2. BookSide(side, orders) /\ ToSet(side.list) = {}
  BY <1>1, EmptySideIsBook
<1>3. nextId \in 1..(MaxId + 1)
  BY BoundsAssumption DEF Init
<1> QED
  BY <1>1, <1>2, <1>3 DEF SideInv, Init, Ids

\* insert_order puts the newest order on the side.
LEMMA InsertStep ==
    ASSUME SideInv, NEW ticks \in 1..MaxTicks, NEW lots \in 1..MaxLots,
           NEW exec \in 0..(MaxLots - 1), Insert(ticks, lots, exec)
    PROVE  SideInv'
<1> DEFINE order == [side |-> which, ticks |-> ticks, lots |-> lots,
                     resd |-> lots - exec, exec |-> exec]
<1>1. /\ nextId =< MaxId /\ exec < lots
      /\ side' = InsertOrder(side, nextId, order)
      /\ orders' = Put(orders, nextId, order)
      /\ nextId' = nextId + 1 /\ which' = which
  BY DEF Insert
<1>2. /\ which \in Sides /\ nextId \in 1..(MaxId + 1) /\ nextId \in Nat
      /\ Ids \subseteq 1..(nextId - 1)
      /\ ToSet(side.list) = Ids
      /\ BookSide(side, orders)
  BY BoundsAssumption DEF SideInv
<1>3. order \in Order /\ order.resd + order.exec = order.lots
  <2>1. lots - exec \in 1..MaxLots /\ (lots - exec) + exec = lots
    BY <1>1, BoundsAssumption
  <2> QED
    BY <1>2, <2>1 DEF Order
<1> HIDE DEF order
<1>4. nextId \notin Ids /\ \A x \in Ids : x < nextId
  BY <1>2
<1>5. /\ DOMAIN orders' = Ids \union {nextId} /\ orders'[nextId] = order
      /\ \A id \in Ids : orders'[id] = orders[id]
  BY <1>1, <1>4 DEF Ids, Put, Drop
<1>6. Arrives(ToSet(side.list), orders, nextId, orders', order)
  BY <1>2, <1>3, <1>4, <1>5, OrderFields DEF Arrives, Agree, Priced
<1>7. BookSide(side', orders') /\ ToSet(side'.list) = Ids \union {nextId}
  BY <1>1, <1>2, <1>6, InsertOrderKeeps
<1>8. nextId' \in 1..(MaxId + 1) /\ Ids' \subseteq 1..(nextId' - 1)
  BY <1>1, <1>2, <1>5, BoundsAssumption DEF Ids
<1>9. \A id \in Ids' : /\ orders'[id] \in Order'
                       /\ orders'[id].resd + orders'[id].exec = orders'[id].lots
  BY <1>1, <1>3, <1>5 DEF SideInv, Ids, Order
<1> QED
  BY <1>1, <1>2, <1>5, <1>7, <1>8, <1>9 DEF SideInv, Ids

\* remove_order and cancel_order take an order off the side.
LEMMA RemoveStep ==
    ASSUME SideInv, NEW id \in Ids,
           side' = RemoveOrder(side, id, orders[id]),
           orders' = Drop(orders, {id}),
           UNCHANGED <<which, nextId>>
    PROVE  SideInv'
<1>1. /\ DOMAIN orders' = Ids \ {id}
      /\ \A x \in Ids \ {id} : orders'[x] = orders[x]
  BY DEF Ids, Put, Drop
<1>2. ToSet(side.list) = Ids /\ BookSide(side, orders)
  BY DEF SideInv
<1>3. Leaves(ToSet(side.list), orders, id, orders', orders[id])
  BY <1>1, <1>2 DEF Leaves, Agree
<1>4. BookSide(side', orders') /\ ToSet(side'.list) = Ids \ {id}
  BY <1>2, <1>3, RemoveOrderKeeps
<1>5. \A x \in Ids' : /\ orders'[x] \in Order'
                      /\ orders'[x].resd + orders'[x].exec = orders'[x].lots
  BY <1>1 DEF SideInv, Ids, Order
<1> QED
  BY <1>1, <1>4, <1>5 DEF SideInv, Ids

\* reduce_level, when something is left of the order.
LEMMA ReduceStep ==
    ASSUME SideInv, NEW id \in Ids, NEW delta \in Nat, delta < orders[id].resd,
           NEW new \in Order, new.resd + new.exec = new.lots,
           LevelKey(new) = LevelKey(orders[id]),
           new.resd = orders[id].resd - delta,
           side' = ReduceLevel(side, id, orders[id], delta),
           orders' = Put(orders, id, new),
           UNCHANGED <<which, nextId>>
    PROVE  SideInv' /\ side'.list = side.list
<1>1. /\ DOMAIN orders' = Ids /\ orders'[id] = new
      /\ \A x \in Ids \ {id} : orders'[x] = orders[x]
  BY DEF Ids, Put, Drop
<1>2. ToSet(side.list) = Ids /\ BookSide(side, orders) /\ which \in Sides
  BY DEF SideInv
<1>3. OneChanged(ToSet(side.list), orders, id, orders')
  BY <1>1, <1>2, OrderFields DEF OneChanged, Agree
<1>4. BookSide(side', orders') /\ side'.list = side.list
  BY <1>1, <1>2, <1>3, ReduceLevelKeeps
<1>5. \A x \in Ids' : /\ orders'[x] \in Order'
                      /\ orders'[x].resd + orders'[x].exec = orders'[x].lots
  BY <1>1 DEF SideInv, Ids, Order
<1> QED
  BY <1>1, <1>2, <1>4, <1>5 DEF SideInv, Ids

\* What revise_order does: something is left of the order, or it goes.
LEMMA ReviseIs ==
    ASSUME SideInv, NEW id \in Ids, NEW lots \in 1..MaxLots, Revise(id, lots)
    PROVE  LET new == ReviseLots(orders[id], lots)
           IN  \/ /\ side' = RemoveOrder(side, id, orders[id])
                  /\ orders' = Drop(orders, {id})
               \/ /\ orders[id].lots - lots \in Nat
                  /\ orders[id].lots - lots < orders[id].resd
                  /\ new \in Order /\ new.resd + new.exec = new.lots
                  /\ LevelKey(new) = LevelKey(orders[id])
                  /\ new.resd = orders[id].resd - (orders[id].lots - lots)
                  /\ side' = ReduceLevel(side, id, orders[id], orders[id].lots - lots)
                  /\ orders' = Put(orders, id, new)
<1> DEFINE new == ReviseLots(orders[id], lots)
<1>1. PICK order : order = orders[id]
  OBVIOUS
<1>2. /\ lots =< order.lots /\ lots >= order.exec
      /\ side' = ReduceLevel(side, id, order, order.lots - lots)
      /\ orders' = IF Done(new) THEN Drop(orders, {id}) ELSE Put(orders, id, new)
  BY <1>1 DEF Revise
<1>3. which \in Sides /\ order \in Order /\ order.resd + order.exec = order.lots
  BY <1>1 DEF SideInv
<1>4. /\ order.resd \in Nat /\ order.exec \in Nat /\ order.lots \in Nat /\ lots \in Nat
  BY <1>3, OrderFields, BoundsAssumption
<1>5. /\ new.resd = lots - order.exec
      /\ lots > order.exec =>
            /\ new \in Order
            /\ new.exec = order.exec
            /\ new.lots = lots
            /\ LevelKey(new) = LevelKey(order)
  BY <1>1, <1>2, <1>3, RevisedIs
<1> HIDE DEF new
<1>6. CASE lots = order.exec
  <2>1. Done(new) /\ ~(order.lots - lots < order.resd)
    BY <1>3, <1>4, <1>5, <1>6 DEF Done
  <2> QED
    BY <1>1, <1>2, <2>1 DEF ReduceLevel
<1>7. CASE lots > order.exec
  <2>1. ~Done(new) /\ order.lots - lots \in Nat /\ order.lots - lots < order.resd
    BY <1>2, <1>3, <1>4, <1>5, <1>7 DEF Done
  <2>2. new.resd + new.exec = new.lots /\ new.resd = order.resd - (order.lots - lots)
    BY <1>3, <1>4, <1>5, <1>7
  <2> QED
    BY <1>1, <1>2, <1>5, <1>7, <2>1, <2>2 DEF new
<1> QED
  BY <1>2, <1>4, <1>6, <1>7

\* What take_order does: something is left of the order, or it goes.
LEMMA TakeIs ==
    ASSUME SideInv, NEW id \in Ids, NEW lots \in 1..MaxLots, Take(id, lots)
    PROVE  LET new == TakenLots(orders[id], lots)
           IN  \/ /\ side' = RemoveOrder(side, id, orders[id])
                  /\ orders' = Drop(orders, {id})
               \/ /\ lots \in Nat /\ lots < orders[id].resd
                  /\ new \in Order /\ new.resd + new.exec = new.lots
                  /\ LevelKey(new) = LevelKey(orders[id])
                  /\ new.resd = orders[id].resd - lots
                  /\ side' = ReduceLevel(side, id, orders[id], lots)
                  /\ orders' = Put(orders, id, new)
<1> DEFINE new == TakenLots(orders[id], lots)
<1>1. PICK order : order = orders[id]
  OBVIOUS
<1>2. /\ lots =< order.resd
      /\ side' = ReduceLevel(side, id, order, lots)
      /\ orders' = IF Done(new) THEN Drop(orders, {id}) ELSE Put(orders, id, new)
  BY <1>1 DEF Take, TakenLots
<1>3. which \in Sides /\ order \in Order /\ order.resd + order.exec = order.lots
  BY <1>1 DEF SideInv
<1>4. /\ order.resd \in Nat /\ order.exec \in Nat /\ order.lots \in Nat /\ lots \in Nat
  BY <1>3, OrderFields, BoundsAssumption
<1>5. /\ new.resd = order.resd - lots
      /\ lots < order.resd =>
            /\ new \in Order
            /\ new.exec = order.exec + lots
            /\ new.lots = order.lots
            /\ LevelKey(new) = LevelKey(order)
  BY <1>1, <1>2, <1>3, TakenIs
<1> HIDE DEF new
<1>6. CASE lots = order.resd
  <2>1. Done(new) /\ ~(lots < order.resd)
    BY <1>3, <1>4, <1>5, <1>6 DEF Done
  <2> QED
    BY <1>1, <1>2, <2>1 DEF ReduceLevel
<1>7. CASE lots < order.resd
  <2>1. ~Done(new)
    BY <1>3, <1>4, <1>5, <1>7 DEF Done
  <2>2. new.resd + new.exec = new.lots
    BY <1>3, <1>4, <1>5, <1>7
  <2> QED
    BY <1>1, <1>2, <1>4, <1>5, <1>7, <2>1, <2>2 DEF new
<1> QED
  BY <1>2, <1>4, <1>6, <1>7

\* What a step of a side that is right can be: an order comes, goes or is
\* reduced in place.
LEMMA SideSteps ==
    ASSUME SideInv, Next
    PROVE  \/ \E ticks \in 1..MaxTicks, lots \in 1..MaxLots, exec \in 0..(MaxLots - 1) :
                Insert(ticks, lots, exec)
           \/ /\ UNCHANGED <<which, nextId>>
              /\ \E id \in Ids :
                    /\ side' = RemoveOrder(side, id, orders[id])
                    /\ orders' = Drop(orders, {id})
           \/ /\ UNCHANGED <<which, nextId>>
              /\ \E id \in Ids, delta \in Nat, new \in Order :
                    /\ delta < orders[id].resd
                    /\ new.resd + new.exec = new.lots
                    /\ LevelKey(new) = LevelKey(orders[id])
                    /\ new.resd = orders[id].resd - delta
                    /\ side' = ReduceLevel(side, id, orders[id], delta)
                    /\ orders' = Put(orders, id, new)
<1>1. CASE \E id \in Ids : Withdraw(id) \/ Cancel(id)
  BY <1>1 DEF Withdraw, Cancel
<1>2. ASSUME NEW id \in Ids, NEW lots \in 1..MaxLots, Revise(id, lots)
      PROVE  UNCHANGED <<which, nextId>>
  BY <1>2 DEF Revise
<1>3. ASSUME NEW id \in Ids, NEW lots \in 1..MaxLots, Take(id, lots)
      PROVE  UNCHANGED <<which, nextId>>
  BY <1>3 DEF Take
<1>4. CASE \E id \in Ids, lots \in 1..MaxLots : Revise(id, lots)
  BY <1>2, <1>4, ReviseIs
<1>5. CASE \E id \in Ids, lots \in 1..MaxLots : Take(id, lots)
  BY <1>3, <1>5, TakeIs
<1> QED
  BY <1>1, <1>4, <1>5 DEF Next

\* Every call keeps the inductive invariant.
LEMMA SideInvKept == SideInv /\ [Next]_vars => SideInv'
<1> SUFFICES ASSUME SideInv, [Next]_vars
             PROVE  SideInv'
  OBVIOUS
<1>1. CASE UNCHANGED vars
  BY <1>1 DEF vars, SideInv, Ids, Order
<1>2. CASE Next
  BY <1>2, SideSteps, InsertStep, RemoveStep, ReduceStep
<1> QED
  BY <1>1, <1>2

\* The invariant holds throughout.
LEMMA SideInvHolds == Spec => []SideInv
  BY InitSide, SideInvKept, PTL DEF Spec

\* A list of the ids on it.
LEMMA ListOfIds ==
    ASSUME SideInv
    PROVE  side.list \in Seq(Ids) /\ IsInjective(side.list)
<1>1. side.list \in Seq(Nat) /\ ToSet(side.list) = Ids
  BY DEF SideInv, BookSide
<1>2. \A i \in 1..Len(side.list) : side.list[i] \in Ids
  BY <1>1, OnList
<1>3. IsInjective(side.list)
  BY InOrderInjective DEF SideInv, BookSide
<1> QED
  BY <1>1, <1>2, <1>3

\* A market side has the types it should have, and the ids on the list are those
\* of the resting orders, each once (MarketSide.cpp, insert_order, remove_order).
THEOREM TypesHold == Spec => []TypeOK
<1>1. SideInv => TypeOK
  BY ListOfIds DEF SideInv, TypeOK
<1> QED
  BY <1>1, SideInvHolds, PTL

\* The levels, which are maintained order by order, always are those of the
\* orders on the list (MarketSide.cpp, insert_level, remove_order, reduce_level).
THEOREM LevelsRight == Spec => []LevelsSummariseOrders
<1>1. SideInv => LevelsSummariseOrders
  BY DEF SideInv, BookSide, LevelsSummariseOrders
<1> QED
  BY <1>1, SideInvHolds, PTL

-----------------------------------------------------------------------------
(* Time priority. *)

\* A resting order keeps its price as long as it rests.
LEMMA PricesStay ==
    ASSUME SideInv, Next, NEW a \in Ids, a \in Ids'
    PROVE  LevelKey(orders'[a]) = LevelKey(orders[a])
<1>1. CASE \E ticks \in 1..MaxTicks, lots \in 1..MaxLots, exec \in 0..(MaxLots - 1) :
                Insert(ticks, lots, exec)
  <2>1. PICK order : orders' = Put(orders, nextId, order)
    BY <1>1 DEF Insert
  <2>2. a # nextId
    BY BoundsAssumption DEF SideInv
  <2> QED
    BY <2>1, <2>2 DEF Put, Ids
<1>2. CASE \E id \in Ids : orders' = Drop(orders, {id})
  BY <1>2 DEF Drop, Ids
<1>3. ASSUME NEW id \in Ids, NEW new \in Order, LevelKey(new) = LevelKey(orders[id]),
             orders' = Put(orders, id, new)
      PROVE  LevelKey(orders'[a]) = LevelKey(orders[a])
  BY <1>3 DEF Put, Ids
<1> QED
  BY <1>1, <1>2, <1>3, SideSteps

\* No resting order ever overtakes another one: partial fills and revisions
\* leave an order where it stands, and other orders come and go around it
\* (MarketSide.hpp, revise_order and take_order).
THEOREM PriorityHolds == Spec => PriorityIsKept
<1> DEFINE Kept == \A a, b \in Ids \cap DOMAIN orders' :
                        Position(side.list, a) < Position(side.list, b)
                            => Position(side'.list, a) < Position(side'.list, b)
<1>1. ASSUME SideInv, SideInv', Next
      PROVE  Kept
  <2> SUFFICES ASSUME NEW a \in Ids \cap DOMAIN orders', NEW b \in Ids \cap DOMAIN orders',
                      Position(side.list, a) < Position(side.list, b)
               PROVE  Position(side'.list, a) < Position(side'.list, b)
    OBVIOUS
  <2>1. /\ LevelKey(orders'[a]) = LevelKey(orders[a])
        /\ LevelKey(orders'[b]) = LevelKey(orders[b])
    BY <1>1, PricesStay DEF Ids
  <2>2. BookSide(side, orders) /\ a \in ToSet(side.list) /\ b \in ToSet(side.list)
    BY <1>1 DEF SideInv
  <2>3. Before(orders, a, b)
    BY <2>2, PlacesAreOrder
  <2>4. Before(orders', a, b)
    BY <2>1, <2>3 DEF Before
  <2>5. BookSide(side', orders') /\ a \in ToSet(side'.list) /\ b \in ToSet(side'.list)
    BY <1>1 DEF SideInv, Ids
  <2> QED
    BY <2>4, <2>5, PlacesAreOrder
<1>2. SideInv /\ SideInv' /\ [Next]_vars => [Kept]_vars
  BY <1>1
<1> QED
  BY <1>2, SideInvHolds, PTL DEF Spec, PriorityIsKept

-----------------------------------------------------------------------------
(* A market side implements the abstract queue. *)

\* The depth of a queue, in the words of this module.
QueueDepth(q) ==
    [key \in {q[i].key : i \in DOMAIN q} |->
        [lots  |-> SumFunction([i \in {j \in DOMAIN q : q[j].key = key} |-> q[i].lots]),
         count |-> Cardinality({j \in DOMAIN q : q[j].key = key})]]

\* The library is the same on both sides of the mapping.
LEMMA SameDepth ==
    ASSUME NEW q
    PROVE  Abstract!DepthOf(q) = QueueDepth(q)
<1>1. ASSUME NEW f
      PROVE  Abstract!SumFunction(f) = SumFunction(f)
  BY DEF Abstract!SumFunction, Abstract!SumFunctionOnSet, Abstract!FoldFunctionOnSet,
         Abstract!MapThenFoldSet, SumFunction, SumFunctionOnSet, FoldFunctionOnSet,
         MapThenFoldSet
<1>2. ASSUME NEW S
      PROVE  Abstract!Cardinality(S) = Cardinality(S)
  BY DEF Abstract!Cardinality, Cardinality
<1> QED
  BY <1>1, <1>2 DEF Abstract!DepthOf, QueueDepth

\* What the queue shows of an order.
Entry(os, id) == [id |-> id, key |-> LevelKey(os[id]), lots |-> os[id].resd]

\* The queue shows each order at its place on the list.
LEMMA QueueEntries ==
    ASSUME NEW s, NEW os, s.list \in Seq(Nat)
    PROVE  /\ QueueOf(s, os) \in Seq({Entry(os, x) : x \in ToSet(s.list)})
           /\ Len(QueueOf(s, os)) = Len(s.list)
           /\ \A i \in 1..Len(s.list) : QueueOf(s, os)[i] = Entry(os, s.list[i])
<1>1. PICK list \in Seq(Nat) : list = s.list
  OBVIOUS
<1>2. PICK q : q = QueueOf(s, os)
  OBVIOUS
<1>3. PICK S : S = {Entry(os, x) : x \in ToSet(list)}
  OBVIOUS
<1>4. q = [i \in 1..Len(list) |-> Entry(os, list[i])] /\ Len(list) \in Nat
  BY <1>1, <1>2, OnList DEF QueueOf, Entry
<1>5. \A i \in 1..Len(list) : Entry(os, list[i]) \in S
  BY <1>3, OnList
<1>6. q \in [1..Len(list) -> S]
  BY <1>4, <1>5
<1>7. q \in Seq(S) /\ Len(q) = Len(list)
  BY <1>4, <1>6
<1> QED
  BY <1>1, <1>2, <1>3, <1>4, <1>7

\* The levels of a side that is right show the depth of its queue.
LEMMA DepthIsShown ==
    ASSUME NEW s, NEW os, BookSide(s, os)
    PROVE  ShownDepth(s) = Abstract!DepthOf(QueueOf(s, os))
<1>1. PICK list \in Seq(Nat) : list = s.list
  BY DEF BookSide
<1>2. PICK L : L = LevelsOf(list, os) /\ L = s.levels
  BY <1>1 DEF BookSide
<1>3. PICK q : q = QueueOf(s, os)
  OBVIOUS
<1>4. /\ DOMAIN q = DOMAIN list
      /\ \A i \in DOMAIN list : /\ q[i].key = LevelKey(os[list[i]])
                                /\ q[i].lots = os[list[i]].resd
  <2>1. \A x : Entry(os, x).key = LevelKey(os[x]) /\ Entry(os, x).lots = os[x].resd
    BY DEF Entry
  <2>2. PICK S : q \in Seq(S) /\ Len(q) = Len(list)
    BY <1>1, <1>3, QueueEntries
  <2>3. DOMAIN q = DOMAIN list /\ DOMAIN list = 1..Len(list)
    BY <2>2, OnList
  <2>4. \A i \in 1..Len(list) : q[i] = Entry(os, list[i])
    BY <1>1, <1>3, QueueEntries
  <2> QED
    BY <2>1, <2>3, <2>4
<1>5. DOMAIN L = {q[i].key : i \in DOMAIN q}
  <2>1. DOMAIN L = {LevelKey(os[x]) : x \in ToSet(list)}
    BY <1>2 DEF LevelsOf
  <2>2. \A x \in ToSet(list) : \E i \in DOMAIN list : x = list[i]
    BY OnList
  <2>3. \A i \in DOMAIN list : list[i] \in ToSet(list)
    BY OnList
  <2> QED
    BY <1>4, <2>1, <2>2, <2>3, SMTT(60)
<1>6. ASSUME NEW key \in DOMAIN L
      PROVE  LET at == {j \in DOMAIN q : q[j].key = key}
             IN  /\ L[key].lots = SumFunction([i \in at |-> q[i].lots])
                 /\ L[key].count = Cardinality(at)
  <2>1. PICK at : at = {j \in DOMAIN q : q[j].key = key}
    OBVIOUS
  <2>2. PICK ids : ids = IdsAt(list, os, key)
    OBVIOUS
  <2>3. PICK x : L[key] = LevelFrom(ids, os, x)
    BY <1>1, <1>2, <2>2, LevelOfOldest DEF BookSide
  <2> DEFINE f == [id \in ids |-> os[id].resd]
             h == [i \in at |-> list[i]]
  <2>4. IsFiniteSet(ids)
    BY <2>2, ListFinite
  <2>5. h \in [at -> ids] /\ f \in [ids -> Int]
    <3>1. \A i \in at : list[i] \in ids
      BY <1>4, <2>1, <2>2, OnList DEF IdsAt
    <3>2. \A id \in ids : os[id].resd \in Int
      BY <1>1, <2>2 DEF BookSide, IdsAt, Priced
    <3> QED
      BY <3>1, <3>2
  <2>6. \A a, b \in at : h[a] = h[b] => a = b
    <3>1. IsInjective(list)
      BY <1>1, InOrderInjective DEF BookSide
    <3> QED
      BY <1>4, <2>1, <3>1 DEF IsInjective
  <2>7. \A d \in ids : \E a \in at : h[a] = d
    <3> SUFFICES ASSUME NEW d \in ids
                 PROVE  \E a \in at : list[a] = d
      OBVIOUS
    <3>1. PICK a \in DOMAIN list : list[a] = d
      BY <2>2, OnList DEF IdsAt
    <3>2. a \in at
      BY <1>4, <2>1, <2>2, <3>1 DEF IdsAt
    <3> QED
      BY <3>1, <3>2
  <2>8. [i \in at |-> q[i].lots] = [i \in at |-> f[h[i]]]
    BY <1>4, <2>1, <2>5
  <2>9. SumOfResd(ids, os) = SumFunction(f)
    BY DEF SumOfResd
  <2> HIDE DEF f, h
  <2>10. SumFunction([i \in at |-> f[h[i]]]) = SumFunction(f)
    BY <2>4, <2>5, <2>6, <2>7, SumReindex, SMTT(60)
  <2>11. Cardinality(at) = Cardinality(ids)
    <3>1. IsFiniteSet(at)
      <4>1. at \subseteq 1..Len(list) /\ Len(list) \in Nat
        BY <1>4, <2>1, OnList
      <4>2. IsFiniteSet(1..Len(list))
        BY <4>1, FS_Interval
      <4> QED
        BY <4>1, <4>2, FS_Subset
    <3>2. h \in Bijection(at, ids)
      BY <2>5, <2>6, <2>7 DEF Bijection, Injection, Surjection, IsInjective
    <3>3. ExistsBijection(at, ids)
      BY <3>2 DEF ExistsBijection
    <3> QED
      BY <3>1, <3>3, FS_Bijection
  <2> QED
    BY <2>1, <2>3, <2>8, <2>9, <2>10, <2>11 DEF LevelFrom
<1>7. ShownDepth(s) = QueueDepth(q)
  <2>1. ShownDepth(s) = [key \in DOMAIN L |->
                            [lots |-> L[key].lots, count |-> L[key].count]]
    BY <1>2 DEF ShownDepth
  <2> QED
    BY <1>5, <1>6, <2>1 DEF QueueDepth
<1> QED
  BY <1>3, <1>7, SameDepth

\* An order that insert_order puts on a side arrives in the queue behind all
\* that are no worse.
LEMMA InsertArrives ==
    ASSUME NEW s, NEW os, BookSide(s, os), NEW id, NEW ns, NEW order,
           Arrives(ToSet(s.list), os, id, ns, order), NEW q, q = QueueOf(s, os),
           NEW r, r = QueueOf(InsertOrder(s, id, order), ns)
    PROVE  /\ Len(r) = Len(q) + 1
           /\ \E p \in DOMAIN r :
                /\ q = RemoveAt(r, p)
                /\ \A i \in DOMAIN q : q[i].id # r[p].id
                /\ \A i \in 1..(p - 1) : q[i].key =< r[p].key
                /\ \A i \in p..Len(q) : q[i].key > r[p].key
<1>1. PICK list \in Seq(Nat) : list = s.list
  BY DEF BookSide
<1>2. PICK k \in Int : k = LevelKey(order) /\ k = LevelKey(ns[id])
  BY DEF Arrives, Priced
<1>3. PICK p \in 1..(Len(list) + 1) :
        /\ InsertOrder(s, id, order).list = InsertAt(list, p, id)
        /\ \A i \in DOMAIN list :
                /\ i < p => LevelKey(os[list[i]]) =< k
                /\ i >= p => LevelKey(os[list[i]]) > k
  <2>1. \E p \in 1..(Len(s.list) + 1) :
            /\ InsertOrder(s, id, order).list = InsertAt(s.list, p, id)
            /\ \A i \in DOMAIN s.list :
                /\ i < p => LevelKey(os[s.list[i]]) =< LevelKey(order)
                /\ i >= p => LevelKey(os[s.list[i]]) > LevelKey(order)
    BY <1>2, InsertPlace DEF Arrives
  <2> QED
    BY <1>1, <1>2, <2>1
<1>4. PICK t \in Seq(Nat) : t = InsertAt(list, p, id) /\ Inserted(list, p, id, t)
  BY InsertAtIs DEF Arrives
<1>5. /\ q \in Seq({Entry(os, x) : x \in ToSet(list)}) /\ Len(q) = Len(list)
      /\ \A i \in 1..Len(list) : q[i] = Entry(os, list[i])
  BY <1>1, QueueEntries
<1>6. /\ r \in Seq({Entry(ns, x) : x \in ToSet(t)}) /\ Len(r) = Len(t)
      /\ \A i \in 1..Len(t) : r[i] = Entry(ns, t[i])
  BY <1>3, <1>4, QueueEntries
<1>7. /\ Len(list) \in Nat /\ DOMAIN list = 1..Len(list) /\ p \in Int
      /\ \A i \in 1..Len(list) : /\ list[i] \in ToSet(list)
                                 /\ list[i] # id
                                 /\ Entry(ns, list[i]) = Entry(os, list[i])
  <2>1. \A x \in ToSet(list) : x # id /\ Entry(ns, x) = Entry(os, x)
    BY <1>1 DEF Arrives, Agree, Entry
  <2> QED
    BY <2>1, OnList
<1>8. Inserted(q, p, Entry(ns, id), r)
  <2>1. Len(r) = Len(q) + 1
    BY <1>4, <1>5, <1>6 DEF Inserted
  <2>2. ASSUME NEW i \in 1..(Len(q) + 1)
        PROVE  r[i] = IF i < p THEN q[i] ELSE IF i = p THEN Entry(ns, id) ELSE q[i - 1]
    <3>1. /\ i \in 1..Len(t) /\ i \in 1..(Len(list) + 1)
          /\ i < p => i \in 1..Len(list)
          /\ i > p => i - 1 \in 1..Len(list)
      BY <1>5, <1>6, <1>7, <2>1
    <3>2. /\ r[i] = Entry(ns, t[i])
          /\ t[i] = IF i < p THEN list[i] ELSE IF i = p THEN id ELSE list[i - 1]
      BY <1>4, <1>6, <3>1 DEF Inserted
    <3>3. CASE i < p
      BY <1>5, <1>7, <3>1, <3>2, <3>3
    <3>4. CASE i = p
      BY <1>7, <3>2, <3>4
    <3>5. CASE i > p
      <4>1. ~(i < p) /\ i # p /\ i - 1 \in 1..Len(list)
        BY <1>7, <3>1, <3>5
      <4> QED
        BY <1>5, <1>7, <3>2, <4>1
    <3> QED
      BY <1>7, <3>3, <3>4, <3>5
  <2> QED
    BY <2>1, <2>2 DEF Inserted
<1>9. q = RemoveAt(r, p) /\ Len(r) = Len(q) + 1 /\ p \in DOMAIN r /\ r[p] = Entry(ns, id)
  <2>1. PICK S : q \in Seq(S)
    BY <1>5
  <2>2. PICK T : r \in Seq(T)
    BY <1>6
  <2>3. p \in 1..(Len(q) + 1)
    BY <1>5
  <2> QED
    BY ONLY <1>8, <2>1, <2>2, <2>3, InsertedRemoved
<1>10. r[p].id = id /\ r[p].key = k
  BY <1>2, <1>9 DEF Entry
<1>11. DOMAIN q = 1..Len(list)
  BY <1>5
<1>12. \A i \in 1..Len(list) : q[i].id = list[i] /\ q[i].key = LevelKey(os[list[i]])
  <2>1. \A x : Entry(os, x).id = x /\ Entry(os, x).key = LevelKey(os[x])
    BY DEF Entry
  <2> QED
    BY <1>5, <2>1
<1>13. \A i \in 1..(p - 1) : i \in 1..Len(list) /\ i < p
  BY <1>7
<1>14. \A i \in p..Len(q) : i \in 1..Len(list) /\ i >= p
  BY <1>5, <1>7
<1> QED
  BY <1>3, <1>7, <1>9, <1>10, <1>11, <1>12, <1>13, <1>14

\* An order that remove_order takes off a side leaves the queue.
LEMMA RemoveLeaves ==
    ASSUME NEW s, NEW os, BookSide(s, os), NEW id, NEW ns, NEW order,
           Leaves(ToSet(s.list), os, id, ns, order), NEW q, q = QueueOf(s, os),
           NEW r, r = QueueOf(RemoveOrder(s, id, order), ns)
    PROVE  \E p \in DOMAIN q : r = RemoveAt(q, p)
<1>1. PICK list \in Seq(Nat) : list = s.list
  BY DEF BookSide
<1>2. /\ Len(list) \in Nat /\ DOMAIN list = 1..Len(list)
      /\ IsInjective(list)
  BY <1>1, OnList, InOrderInjective DEF BookSide
<1>3. PICK p \in 1..Len(list) :
        list[p] = id /\ RemoveOrder(s, id, order).list = RemoveAt(list, p)
  <2>1. TakenOff(s.list, id, RemoveOrder(s, id, order).list)
    BY RemoveOrderKeeps
  <2> QED
    BY <1>1, <1>2, <2>1 DEF TakenOff
<1>4. PICK t \in Seq(Nat) : t = RemoveAt(list, p) /\ Removed(list, p, t)
  BY RemoveAtIs
<1>5. /\ q \in Seq({Entry(os, x) : x \in ToSet(list)}) /\ Len(q) = Len(list)
      /\ \A i \in 1..Len(list) : q[i] = Entry(os, list[i])
  BY <1>1, QueueEntries
<1>6. /\ r \in Seq({Entry(ns, x) : x \in ToSet(t)}) /\ Len(r) = Len(t)
      /\ \A i \in 1..Len(t) : r[i] = Entry(ns, t[i])
  BY <1>3, <1>4, QueueEntries, ZenonT(60)
<1>7. PICK S : q \in Seq(S)
  BY <1>5
<1>8. PICK u \in Seq(S) : u = RemoveAt(q, p) /\ Removed(q, p, u)
  BY <1>3, <1>5, <1>7, RemoveAtIs
<1>9. Len(u) = Len(r)
  BY <1>4, <1>5, <1>6, <1>8 DEF Removed
<1>10. ASSUME NEW i \in 1..Len(u)
       PROVE  u[i] = r[i]
  <2>1. PICK j : j = IF i < p THEN i ELSE i + 1
    OBVIOUS
  <2>2. /\ i \in 1..(Len(list) - 1) /\ i \in 1..(Len(q) - 1) /\ i \in 1..Len(t)
        /\ j \in 1..Len(list) /\ j # p
    BY <1>2, <1>4, <1>5, <1>8, <2>1 DEF Removed
  <2>3. u[i] = q[j] /\ t[i] = list[j]
    BY <1>4, <1>8, <2>1, <2>2 DEF Removed
  <2>4. list[j] \in ToSet(list) \ {id}
    BY <1>2, <1>3, <2>2, OnList DEF IsInjective
  <2>5. Entry(ns, list[j]) = Entry(os, list[j])
    BY <1>1, <2>4 DEF Leaves, Agree, Entry
  <2> QED
    BY <1>5, <1>6, <2>2, <2>3, <2>5
<1>11. u = r
  <2>1. PICK T : r \in Seq(T)
    BY <1>6
  <2> QED
    BY <1>9, <1>10, <2>1, SameList
<1>12. p \in DOMAIN q
  BY <1>5
<1> QED
  BY <1>8, <1>11, <1>12

\* The queue r is q with one order of "old" lots, which now has "new".
Reduced(q, old, r, new) ==
    /\ \E p \in DOMAIN q :
            /\ q[p].lots = old /\ r[p].lots = new
            /\ r = [q EXCEPT ![p].lots = r[p].lots]
    /\ DOMAIN r = DOMAIN q
    /\ new = old => r = q

\* An order that reduce_level reduces keeps its place in the queue.
LEMMA ReduceReduces ==
    ASSUME NEW s, NEW os, BookSide(s, os), NEW id, NEW ns,
           OneChanged(ToSet(s.list), os, id, ns),
           NEW t, t.list = s.list,
           NEW q, q = QueueOf(s, os), NEW r, r = QueueOf(t, ns)
    PROVE  Reduced(q, os[id].resd, r, ns[id].resd)
<1>1. PICK list \in Seq(Nat) : list = s.list
  BY DEF BookSide
<1>2. /\ Len(list) \in Nat /\ DOMAIN list = 1..Len(list)
      /\ IsInjective(list)
  BY <1>1, OnList, InOrderInjective DEF BookSide
<1>3. PICK p \in 1..Len(list) : list[p] = id
  BY <1>1, <1>2, OnList DEF OneChanged
<1>4. /\ q \in Seq({Entry(os, x) : x \in ToSet(list)}) /\ Len(q) = Len(list)
      /\ \A i \in 1..Len(list) : q[i] = Entry(os, list[i])
  BY <1>1, QueueEntries
<1>5. /\ r \in Seq({Entry(ns, x) : x \in ToSet(list)}) /\ Len(r) = Len(list)
      /\ \A i \in 1..Len(list) : r[i] = Entry(ns, list[i])
  BY <1>1, QueueEntries, ZenonT(60)
<1>6. \A i \in 1..Len(list) : i # p => r[i] = q[i]
  <2>1. \A i \in 1..Len(list) : i # p => list[i] \in ToSet(list) \ {id}
    BY <1>2, <1>3, OnList DEF IsInjective
  <2>2. \A x \in ToSet(list) \ {id} : Entry(ns, x) = Entry(os, x)
    BY <1>1 DEF OneChanged, Agree, Entry
  <2> QED
    BY <1>4, <1>5, <2>1, <2>2
<1>7. r[p] = [q[p] EXCEPT !.lots = r[p].lots]
  <2>1. q[p] = Entry(os, id) /\ r[p] = Entry(ns, id)
    BY <1>3, <1>4, <1>5
  <2>2. LevelKey(ns[id]) = LevelKey(os[id])
    BY DEF OneChanged
  <2> QED
    BY <2>1, <2>2 DEF Entry
<1>8. q[p].lots = os[id].resd /\ r[p].lots = ns[id].resd
  <2>1. q[p] = Entry(os, id) /\ r[p] = Entry(ns, id)
    BY <1>3, <1>4, <1>5
  <2> QED
    BY <2>1 DEF Entry
<1>9. PICK v : v = r[p].lots
  OBVIOUS
<1>10. /\ q = [i \in 1..Len(list) |-> q[i]] /\ r = [i \in 1..Len(list) |-> r[i]]
       /\ DOMAIN q = 1..Len(list) /\ DOMAIN r = 1..Len(list)
  BY <1>2, <1>4, <1>5
<1>11. r = [q EXCEPT ![p] = [q[p] EXCEPT !.lots = v]]
  BY <1>6, <1>7, <1>9, <1>10
<1>12. [q EXCEPT ![p] = [q[p] EXCEPT !.lots = v]] = [q EXCEPT ![p].lots = v]
  OBVIOUS
<1>13. ASSUME ns[id].resd = os[id].resd
       PROVE  r = q
  <2>1. r[p] = q[p]
    BY <1>3, <1>4, <1>5, <1>13 DEF Entry, OneChanged
  <2> QED
    BY <1>6, <1>10, <2>1
<1> QED
  BY <1>3, <1>8, <1>9, <1>10, <1>11, <1>12, <1>13 DEF Reduced

\* A list that nothing stands on shows an empty queue without depth.
LEMMA InitImplements == Init => Abstract!Init
<1> SUFFICES ASSUME Init
             PROVE  Abstract!Init
  OBVIOUS
<1>1. side.list = <<>> /\ side.levels = <<>>
  BY DEF Init, EmptySide
<1>2. DOMAIN side.list = {} /\ DOMAIN side.levels = {}
  BY <1>1
<1>3. QueueOf(side, orders) = <<>>
  BY <1>2 DEF QueueOf
<1>4. ShownDepth(side) = <<>>
  BY <1>2 DEF ShownDepth
<1> QED
  BY <1>3, <1>4 DEF Abstract!Init

\* The library is the same on both sides of the mapping.
LEMMA SameRemoveAt ==
    ASSUME NEW q, NEW p
    PROVE  Abstract!RemoveAt(q, p) = RemoveAt(q, p)
BY DEF Abstract!RemoveAt, RemoveAt

\* Every step of a side that is right is a step of the abstract queue, or one
\* that does not change it: a revision to the lots that an order already has.
LEMMA NextImplements ==
    ASSUME SideInv, SideInv', [Next]_vars
    PROVE  [Abstract!Next]_(Abstract!vars)
<1>1. CASE UNCHANGED vars
  BY <1>1 DEF vars, Abstract!vars, QueueOf, ShownDepth
<1>2. CASE Next
  <2>1. PICK s, os, t, ns : s = side /\ os = orders /\ t = side' /\ ns = orders'
    OBVIOUS
  <2>2. BookSide(s, os) /\ BookSide(t, ns) /\ ToSet(s.list) = DOMAIN os
    BY <2>1 DEF SideInv, Ids
  <2>3. PICK q, r : q = QueueOf(s, os) /\ r = QueueOf(t, ns)
    OBVIOUS
  <2>4. ShownDepth(t) = Abstract!DepthOf(r)
    BY <2>2, <2>3, DepthIsShown
  <2>5. CASE \E ticks \in 1..MaxTicks, lots \in 1..MaxLots, exec \in 0..(MaxLots - 1) :
                Insert(ticks, lots, exec)
    <3>1. PICK ticks \in 1..MaxTicks, lots \in 1..MaxLots, exec \in 0..(MaxLots - 1) :
            Insert(ticks, lots, exec)
      BY <2>5
    <3>2. PICK order : order = [side |-> which, ticks |-> ticks, lots |-> lots,
                                resd |-> lots - exec, exec |-> exec]
      OBVIOUS
    <3>3. PICK id : id = nextId
      OBVIOUS
    <3>4. t = InsertOrder(s, id, order) /\ ns = Put(os, id, order) /\ exec < lots
      BY <2>1, <3>1, <3>2, <3>3 DEF Insert
    <3>5. Arrives(ToSet(s.list), os, id, ns, order)
      <4>1. /\ id \in Nat /\ id \notin DOMAIN os /\ \A x \in DOMAIN os : x < id
            /\ which \in Sides
        BY <2>1, <3>3, BoundsAssumption DEF SideInv, Ids
      <4>2. order.resd \in Nat /\ LevelKey(order) \in Int
        BY <3>2, <3>4, <4>1, BoundsAssumption DEF LevelKey
      <4>3. ns[id] = order /\ \A x \in DOMAIN os : ns[x] = os[x]
        BY <3>4, <4>1 DEF Put
      <4> QED
        BY <2>2, <4>1, <4>2, <4>3 DEF Arrives, Agree, Priced
    <3>6. /\ Len(r) = Len(q) + 1
          /\ \E p \in DOMAIN r :
               /\ q = Abstract!RemoveAt(r, p)
               /\ \A i \in DOMAIN q : q[i].id # r[p].id
               /\ \A i \in 1..(p - 1) : q[i].key =< r[p].key
               /\ \A i \in p..Len(q) : q[i].key > r[p].key
      BY <2>2, <2>3, <3>4, <3>5, InsertArrives, SameRemoveAt
    <3> QED
      BY <2>1, <2>3, <2>4, <3>6 DEF Abstract!Next, Abstract!Arrive
  <2>6. CASE \E id \in Ids : /\ side' = RemoveOrder(side, id, orders[id])
                             /\ orders' = Drop(orders, {id})
    <3>1. PICK id \in DOMAIN os : t = RemoveOrder(s, id, os[id]) /\ ns = Drop(os, {id})
      BY <2>1, <2>6 DEF Ids
    <3>2. Leaves(ToSet(s.list), os, id, ns, os[id])
      BY <2>2, <3>1 DEF Leaves, Agree, Drop
    <3>3. \E p \in DOMAIN q : r = Abstract!RemoveAt(q, p)
      BY <2>2, <2>3, <3>1, <3>2, RemoveLeaves, SameRemoveAt
    <3> QED
      BY <2>1, <2>3, <2>4, <3>3 DEF Abstract!Next, Abstract!Leave
  <2>7. CASE \E id \in Ids, delta \in Nat, new \in Order :
                    /\ delta < orders[id].resd
                    /\ new.resd + new.exec = new.lots
                    /\ LevelKey(new) = LevelKey(orders[id])
                    /\ new.resd = orders[id].resd - delta
                    /\ side' = ReduceLevel(side, id, orders[id], delta)
                    /\ orders' = Put(orders, id, new)
    <3>1. PICK id \in DOMAIN os, delta \in Nat, new \in Order :
                    /\ delta < os[id].resd
                    /\ LevelKey(new) = LevelKey(os[id])
                    /\ new.resd = os[id].resd - delta
                    /\ t = ReduceLevel(s, id, os[id], delta)
                    /\ ns = Put(os, id, new)
      BY <2>1, <2>7 DEF Ids
    <3>2. new.resd \in Nat /\ os[id].resd \in Nat
      BY <2>1, OrderFields DEF SideInv, Ids
    <3>3. ns[id] = new /\ \A x \in DOMAIN os \ {id} : ns[x] = os[x]
      BY <3>1 DEF Put
    <3>4. OneChanged(ToSet(s.list), os, id, ns)
      BY <2>2, <3>1, <3>2, <3>3 DEF OneChanged, Agree
    <3>5. t.list = s.list
      BY <2>2, <3>1, <3>3, <3>4, ReduceLevelKeeps
    <3>6. Reduced(q, os[id].resd, r, ns[id].resd)
      BY <2>2, <2>3, <3>4, <3>5, ReduceReduces
    <3>7. CASE delta = 0
      <4>1. r = q
        BY <3>1, <3>2, <3>3, <3>6, <3>7 DEF Reduced
      <4>2. ShownDepth(s) = Abstract!DepthOf(q)
        BY <2>2, <2>3, DepthIsShown
      <4> QED
        BY <2>1, <2>3, <2>4, <4>1, <4>2 DEF Abstract!vars
    <3>8. CASE delta > 0
      <4>1. PICK p \in DOMAIN q :
                /\ q[p].lots = os[id].resd /\ r[p].lots = ns[id].resd
                /\ r = [q EXCEPT ![p].lots = r[p].lots]
        BY <3>6 DEF Reduced
      <4>2. r[p].lots \in 1..(q[p].lots - 1) /\ DOMAIN r = DOMAIN q
        BY <3>1, <3>2, <3>3, <3>6, <3>8, <4>1 DEF Reduced
      <4> QED
        BY <2>1, <2>3, <2>4, <4>1, <4>2 DEF Abstract!Next, Abstract!Reduce
    <3> QED
      BY <3>7, <3>8
  <2> QED
    BY <1>2, <2>5, <2>6, <2>7, SideSteps
<1> QED
  BY <1>1, <1>2

\* A market side is a price-time queue with correct depth: each call on the list
\* and the levels is one step of the abstract queue, or changes nothing
\* (MarketSide.cpp, insert_order, remove_order, reduce_level).
THEOREM PriceTimeImplemented == Spec => ImplementsPriceTime
<1>1. SideInv /\ SideInv' /\ [Next]_vars => [Abstract!Next]_(Abstract!vars)
  BY NextImplements
<1> QED
  BY <1>1, InitImplements, SideInvHolds, PTL DEF Spec, ImplementsPriceTime, Abstract!Spec
=============================================================================
