-------------------------------- MODULE Posn ---------------------------------
(***************************************************************************)
(* The position of an account in a market, as pure operators               *)
(* (src/src/swirly/fin/Posn.hpp, Posn.cpp).                                *)
(***************************************************************************)
EXTENDS Integers

\* What the model database hands over at start-up, or a new, flat position:
\* the net cost is the difference of the totals.
MakePosn(buyLots, buyCost, sellLots, sellCost) ==
    [buyLots |-> buyLots, buyCost |-> buyCost,
     sellLots |-> sellLots, sellCost |-> sellCost,
     netCost |-> buyCost - sellCost]

FlatPosn == MakePosn(0, 0, 0, 0)

NetLots(posn) == posn.buyLots - posn.sellLots

\* The net cost after a trade that changes the net lots by delta at ticks: a
\* position that is extended or partly closed adds the cost of the trade; one
\* that changes sign, or is closed, starts from what is left of the trade.
NetCostAfter(posn, delta, ticks) ==
    LET net  == NetLots(posn) + delta
        kept == IF delta > 0 THEN net < 0 \/ net >= delta
                ELSE net > 0 \/ net =< delta
    IN  IF kept THEN posn.netCost + delta * ticks ELSE net * ticks

AddBuy(posn, lots, ticks) ==
    [posn EXCEPT !.buyLots = @ + lots, !.buyCost = @ + lots * ticks,
                 !.netCost = NetCostAfter(posn, lots, ticks)]

AddSell(posn, lots, ticks) ==
    [posn EXCEPT !.sellLots = @ + lots, !.sellCost = @ + lots * ticks,
                 !.netCost = NetCostAfter(posn, -lots, ticks)]

AddTrade(posn, side, lots, ticks) ==
    IF side = "Buy" THEN AddBuy(posn, lots, ticks) ELSE AddSell(posn, lots, ticks)
=============================================================================
