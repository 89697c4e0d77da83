------------------------------ MODULE OrderBook ------------------------------
(***************************************************************************)
(* Orders, price levels and market sides, as pure operators.               *)
(*                                                                         *)
(* Models src/src/swirly/fin: the state changes of Order (Order.hpp), the  *)
(* aggregation done by Level (Level.hpp, Level.cpp) and the container      *)
(* MarketSide (MarketSide.hpp, MarketSide.cpp).                            *)
(*                                                                         *)
(* An order is a record that has at least the fields                       *)
(*   side, ticks, lots, resd, exec, cost, minLots                          *)
(* (exec_cost is "cost").  A market side is a record                       *)
(*   list    the ids of its orders, an intrusive list in the code;         *)
(*   levels  a function from level keys to [first, lots, count], an        *)
(*           intrusive set of Level objects ordered by key in the code.    *)
(* Order::level(), the pointer from an order to its level, is null exactly *)
(* when the order's id is not on the list: the two are set and cleared     *)
(* together.                                                               *)
(***************************************************************************)
EXTENDS Integers, Sequences, FiniteSetsExt, SequencesExt

Sides == {"Buy", "Sell"}

Opposite(side) == IF side = "Buy" THEN "Sell" ELSE "Buy"

EmptySide == [list |-> <<>>, levels |-> <<>>]

\* f with x mapped to v, whether or not x was in its domain.
Put(f, x, v) == [y \in DOMAIN f \union {x} |-> IF y = x THEN v ELSE f[y]]

\* f restricted to the arguments outside S.
Drop(f, S) == [y \in DOMAIN f \ S |-> f[y]]

-----------------------------------------------------------------------------
(* Order.hpp: what revise, cancel and trade do to the order itself. *)

Done(order) == order.resd = 0

\* Faulty: what is left is not reduced.
ReviseLotsOnly(order, lots) == [order EXCEPT !.lots = lots]

ReviseLots(order, lots) ==
    [order EXCEPT !.lots = lots, !.resd = @ - (order.lots - lots)]

\* Executed lots are not affected.
CancelLots(order) == [order EXCEPT !.resd = 0]

TradeLots(order, lots, cost) ==
    [order EXCEPT !.resd = @ - lots, !.exec = @ + lots, !.cost = @ + cost]

-----------------------------------------------------------------------------
(* Level.hpp and Level.cpp. *)

\* Better prices have smaller keys on both sides.
LevelKey(order) == IF order.side = "Buy" THEN -order.ticks ELSE order.ticks

NewLevel(id, order) == [first |-> id, lots |-> order.resd, count |-> 1]

AddOrder(level, order) ==
    [level EXCEPT !.lots = @ + order.resd, !.count = @ + 1]

SubOrder(level, order) ==
    [level EXCEPT !.lots = @ - order.resd, !.count = @ - 1]

-----------------------------------------------------------------------------
(* MarketSide.cpp. *)

Position(list, id) == CHOOSE i \in DOMAIN list : list[i] = id

InsertLevel(levels, id, order) ==
    LET key == LevelKey(order)
    IN  Put(levels, key, IF key \in DOMAIN levels
                         THEN AddOrder(levels[key], order)
                         ELSE NewLevel(id, order))

\* Faulty: an order goes in front of its own level's first order.
InsertOrderInFront(side, id, order) ==
    LET levels == InsertLevel(side.levels, id, order)
        worse  == {key \in DOMAIN side.levels : key >= LevelKey(order)}
        pos    == IF worse = {} THEN Len(side.list) + 1
                  ELSE Position(side.list, levels[Min(worse)].first)
    IN  [list |-> InsertAt(side.list, pos, id), levels |-> levels]

\* An order goes in front of the next level's first order, or to the back.
InsertOrder(side, id, order) ==
    LET levels == InsertLevel(side.levels, id, order)
        worse  == {key \in DOMAIN levels : key > LevelKey(order)}
        pos    == IF worse = {} THEN Len(side.list) + 1
                  ELSE Position(side.list, levels[Min(worse)].first)
    IN  [list |-> InsertAt(side.list, pos, id), levels |-> levels]

\* Faulty: a level keeps its first order when that is removed.
RemoveOrderOnly(side, id, order) ==
    LET key   == LevelKey(order)
        level == SubOrder(side.levels[key], order)
    IN  [list   |-> RemoveAt(side.list, Position(side.list, id)),
         levels |-> IF level.count = 0 THEN Drop(side.levels, {key})
                    ELSE Put(side.levels, key, level)]

\* Faulty: a level stays when its last order goes.
RemoveOrderNotLevel(side, id, order) ==
    LET key   == LevelKey(order)
        pos   == Position(side.list, id)
        level == SubOrder(side.levels[key], order)
    IN  [list   |-> RemoveAt(side.list, pos),
         levels |-> IF level.first = id /\ level.count > 0
                    THEN Put(side.levels, key,
                             [level EXCEPT !.first = side.list[pos + 1]])
                    ELSE Put(side.levels, key, level)]

\* A level goes with its last order; a level that loses its first order takes
\* the order that follows it on the list.
RemoveOrder(side, id, order) ==
    LET key   == LevelKey(order)
        pos   == Position(side.list, id)
        level == SubOrder(side.levels[key], order)
    IN  [list   |-> RemoveAt(side.list, pos),
         levels |-> IF level.count = 0 THEN Drop(side.levels, {key})
                    ELSE IF level.first = id
                    THEN Put(side.levels, key,
                             [level EXCEPT !.first = side.list[pos + 1]])
                    ELSE Put(side.levels, key, level)]

\* Faulty: an order of which nothing is left stays.
ReduceLevelOnly(side, id, order, delta) ==
    IF delta =< order.resd
    THEN [side EXCEPT !.levels[LevelKey(order)].lots = @ - delta]
    ELSE RemoveOrder(side, id, order)

\* Take delta off the level, or the whole order off the side.
ReduceLevel(side, id, order, delta) ==
    IF delta < order.resd
    THEN [side EXCEPT !.levels[LevelKey(order)].lots = @ - delta]
    ELSE RemoveOrder(side, id, order)

-----------------------------------------------------------------------------
(* What a side should look like, given its orders. *)

\* The ids on the list at one key.
IdsAt(list, orders, key) ==
    {id \in ToSet(list) : LevelKey(orders[id]) = key}

SumOfResd(ids, orders) ==
    SumFunction([id \in ids |-> orders[id].resd])

\* The levels that a list of orders ought to have.
LevelsOf(list, orders) ==
    [key \in {LevelKey(orders[id]) : id \in ToSet(list)} |->
        LET ids == IdsAt(list, orders, key)
        IN  [first |-> list[Min({i \in DOMAIN list : list[i] \in ids})],
             lots  |-> SumOfResd(ids, orders),
             count |-> Cardinality(ids)]]
=============================================================================
