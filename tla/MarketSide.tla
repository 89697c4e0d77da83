----------------------------- MODULE MarketSide ------------------------------
(***************************************************************************)
(* One side of a market driven through every operation that the engine     *)
(* performs on it (src/src/swirly/fin/MarketSide.hpp).                     *)
(*                                                                         *)
(* Every action is one call.  Its guards are the asserts of the code: the  *)
(* callers, modelled in Engine, establish them.  insert_order can throw    *)
(* bad_alloc when the level cannot be allocated; that happens before       *)
(* anything is changed, so the call is then a stuttering step.             *)
(***************************************************************************)
EXTENDS OrderBook

CONSTANTS
    MaxTicks,    \* prices are 1..MaxTicks
    MaxLots,     \* order sizes are 1..MaxLots
    MaxId        \* at most MaxId orders are ever inserted

ASSUME BoundsAssumption ==
    /\ MaxTicks \in Nat \ {0}
    /\ MaxLots \in Nat \ {0}
    /\ MaxId \in Nat

VARIABLES
    which,     \* the side, "Buy" or "Sell"
    side,      \* the MarketSide
    orders,    \* the resting orders, by id
    nextId     \* ids are handed out in increasing order by Market::alloc_id

vars == <<which, side, orders, nextId>>

Ids == DOMAIN orders

Init ==
    /\ which \in Sides
    /\ side = EmptySide
    /\ orders = <<>>
    /\ nextId = 1

\* insert_order; an order that traded on its way in is inserted with what is
\* left of it.
Insert(ticks, lots, exec) ==
    LET order == [side |-> which, ticks |-> ticks, lots |-> lots,
                  resd |-> lots - exec, exec |-> exec]
    IN  /\ nextId =< MaxId
        /\ exec < lots
        /\ side' = InsertOrder(side, nextId, order)
        /\ orders' = Put(orders, nextId, order)
        /\ nextId' = nextId + 1
        /\ UNCHANGED which

\* remove_order: the state of the order is not affected.
Withdraw(id) ==
    /\ side' = RemoveOrder(side, id, orders[id])
    /\ orders' = Drop(orders, {id})
    /\ UNCHANGED <<which, nextId>>

\* Faulty: a revised order is put behind the others at its price.
ReviseAndRequeue(id, lots) ==
    LET order   == orders[id]
        revised == ReviseLots(order, lots)
        removed == RemoveOrder(side, id, order)
    IN  /\ lots =< order.lots
        /\ lots > order.exec
        /\ side' = InsertOrder(removed, id, revised)
        /\ orders' = Put(orders, id, revised)
        /\ UNCHANGED <<which, nextId>>

\* revise_order: the level is reduced by the old order, then the order changes.
Revise(id, lots) ==
    LET order   == orders[id]
        revised == ReviseLots(order, lots)
    IN  /\ lots =< order.lots
        /\ lots >= order.exec
        /\ side' = ReduceLevel(side, id, order, order.lots - lots)
        /\ orders' = IF Done(revised) THEN Drop(orders, {id})
                     ELSE Put(orders, id, revised)
        /\ UNCHANGED <<which, nextId>>

\* cancel_order: the order is done, whatever was left of it.
Cancel(id) ==
    /\ side' = RemoveOrder(side, id, orders[id])
    /\ orders' = Drop(orders, {id})
    /\ UNCHANGED <<which, nextId>>

\* take_order.
Take(id, lots) ==
    LET order == orders[id]
        taken == [order EXCEPT !.resd = @ - lots, !.exec = @ + lots]
    IN  /\ lots =< order.resd
        /\ side' = ReduceLevel(side, id, order, lots)
        /\ orders' = IF Done(taken) THEN Drop(orders, {id})
                     ELSE Put(orders, id, taken)
        /\ UNCHANGED <<which, nextId>>

Next ==
    \/ \E ticks \in 1..MaxTicks, lots \in 1..MaxLots, exec \in 0..(MaxLots - 1) :
        Insert(ticks, lots, exec)
    \/ \E id \in Ids : Withdraw(id) \/ Cancel(id)
    \/ \E id \in Ids, lots \in 1..MaxLots : Revise(id, lots) \/ Take(id, lots)

Spec == Init /\ [][Next]_vars

-----------------------------------------------------------------------------
Order == [side : {which}, ticks : 1..MaxTicks, lots : 1..MaxLots,
          resd : 1..MaxLots, exec : 0..(MaxLots - 1)]

\* The type invariant: ids on the list and orders are the same, without
\* duplicates.
TypeOK ==
    /\ which \in Sides
    /\ nextId \in 1..(MaxId + 1)
    /\ Ids \subseteq 1..(nextId - 1)
    /\ \A id \in Ids : orders[id] \in Order
    /\ side.list \in Seq(Ids)
    /\ ToSet(side.list) = Ids
    /\ IsInjective(side.list)

-----------------------------------------------------------------------------
(* Correctness. *)

\* The levels, which MarketSide maintains order by order, always agree with
\* the orders on the list: a level for each price that has orders and for no
\* other, its lots and count the totals of those orders, and first_order the
\* first of them on the list.  insert_order relies on first_order to find the
\* place of a new order, and the depth published for a market is read from the
\* levels (MarketSide.cpp, insert_level, remove_order and reduce_level).
LevelsSummariseOrders ==
    side.levels = LevelsOf(side.list, orders)

\* A resting order never overtakes another one: operations on other orders,
\* and partial fills and revisions of the order itself, leave the relative
\* order of the survivors alone.  revise_order only takes lots away, so it
\* need not cost the order its time priority (MarketSide.hpp, revise_order).
PriorityIsKept ==
    [][\A a, b \in Ids \cap DOMAIN orders' :
        Position(side.list, a) < Position(side.list, b)
            => Position(side'.list, a) < Position(side'.list, b)]_vars

\* The abstract queue seen through the list, and the abstract depth seen
\* through the levels.
QueueOf(s, ords) ==
    [i \in DOMAIN s.list |->
        [id |-> s.list[i], key |-> LevelKey(ords[s.list[i]]),
         lots |-> ords[s.list[i]].resd]]

ShownDepth(s) ==
    [key \in DOMAIN s.levels |->
        [lots |-> s.levels[key].lots, count |-> s.levels[key].count]]

Abstract == INSTANCE PriceTime WITH
    queue <- QueueOf(side, orders),
    depth <- ShownDepth(side)

\* A market side is a price-time queue with correct depth: each call on the
\* list and the levels is one step of the abstract queue (MarketSide.cpp,
\* insert_order places an order with one look at the next level).
ImplementsPriceTime == Abstract!Spec
=============================================================================
