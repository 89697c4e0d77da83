------------------------------ MODULE Matching -------------------------------
(***************************************************************************)
(* The execs that describe what happens to an order, and the matching of   *)
(* an incoming order with the opposite side of a market, as pure operators *)
(* (Exec.hpp and Exec.cpp of src/src/swirly/fin; match_orders, new_match   *)
(* and commit_matches of src/src/swirly/lob/App.cpp).                      *)
(*                                                                         *)
(* An order here also has the fields accnt and ref.                        *)
(***************************************************************************)
EXTENDS OrderBook

CONSTANT NoAccnt    \* no counter-party

MinOf(a, b) == IF a < b THEN a ELSE b

-----------------------------------------------------------------------------
(* Execs (Exec.hpp, and new_exec, new_manual of App.cpp).  The fields that   *)
(* repeat an order's last fill are set on trades only.                       *)

NewExec(m, oid, order, id) ==
    [accnt |-> order.accnt, market |-> m, id |-> id, orderId |-> oid,
     ref |-> order.ref, state |-> "New", side |-> order.side,
     lots |-> order.lots, ticks |-> order.ticks, resd |-> order.resd,
     exec |-> order.exec, cost |-> order.cost, minLots |-> order.minLots,
     lastLots |-> 0, lastTicks |-> 0, matchId |-> 0, cpty |-> NoAccnt]

\* Faulty: what was executed before is forgotten.
ReviseExecAnew(exec, lots) ==
    [exec EXCEPT !.state = "Revise", !.lots = lots, !.resd = lots]

ReviseExec(exec, lots) ==
    [exec EXCEPT !.state = "Revise", !.lots = lots,
                 !.resd = @ - (exec.lots - lots)]

CancelExec(exec) == [exec EXCEPT !.state = "Cancel", !.resd = 0]

\* Faulty: each fill repeats those before.
TradeExecOfSum(exec, sumLots, sumCost, lastLots, lastTicks, matchId, cpty) ==
    [exec EXCEPT !.state = "Trade", !.resd = @ - sumLots, !.exec = @ + sumLots,
                 !.cost = @ + sumCost, !.lastLots = sumLots,
                 !.lastTicks = lastTicks, !.matchId = matchId, !.cpty = cpty]

TradeExec(exec, sumLots, sumCost, lastLots, lastTicks, matchId, cpty) ==
    [exec EXCEPT !.state = "Trade", !.resd = @ - sumLots, !.exec = @ + sumLots,
                 !.cost = @ + sumCost, !.lastLots = lastLots,
                 !.lastTicks = lastTicks, !.matchId = matchId, !.cpty = cpty]

ManualExec(a, m, id, ref, side, lots, ticks, cpty) ==
    [accnt |-> a, market |-> m, id |-> id, orderId |-> 0, ref |-> ref,
     state |-> "Trade", side |-> side, lots |-> lots, ticks |-> ticks,
     resd |-> 0, exec |-> lots, cost |-> lots * ticks, minLots |-> 1,
     lastLots |-> lots, lastTicks |-> ticks, matchId |-> 0, cpty |-> cpty]

OppositeExec(exec, id) ==
    [exec EXCEPT !.accnt = exec.cpty, !.id = id, !.side = Opposite(exec.side),
                 !.cpty = exec.accnt]

-----------------------------------------------------------------------------
(* Matching (App.cpp, match_orders and new_match). *)

\* Faulty: equal prices do not trade.
CrossesStrictly(taker, maker) ==
    IF taker.side = "Buy" THEN maker.ticks < taker.ticks
    ELSE maker.ticks > taker.ticks

\* Faulty: as if every taker were a buyer.
CrossesAsBuy(taker, maker) == maker.ticks =< taker.ticks

\* The spread of taker and maker is not positive.
Crosses(taker, maker) ==
    IF taker.side = "Buy" THEN maker.ticks =< taker.ticks
    ELSE maker.ticks >= taker.ticks

\* Faulty: a maker gives all it has.
MatchedLotsOfMakers(taker, list, ords) ==
    LET reach == {i \in DOMAIN list :
                    \A j \in 1..i : Crosses(taker, ords[list[j]])}
        sum[i \in 0..Len(list)] ==
            IF i = 0 THEN 0
            ELSE sum[i - 1] + (IF i \in reach /\ sum[i - 1] < taker.resd
                               THEN ords[list[i]].resd ELSE 0)
    IN  sum

\* sum[i] is what the taker has got from the first i orders of the opposite
\* side: the loop stops at the first price that does not cross.
MatchedLots(taker, list, ords) ==
    LET reach == {i \in DOMAIN list :
                    \A j \in 1..i : Crosses(taker, ords[list[j]])}
        sum[i \in 0..Len(list)] ==
            IF i = 0 THEN 0
            ELSE sum[i - 1] + (IF i \in reach
                               THEN MinOf(taker.resd - sum[i - 1],
                                          ords[list[i]].resd)
                               ELSE 0)
    IN  sum

\* The number of iterations that made a match.
MatchCount(sum) == Cardinality({i \in DOMAIN sum \ {0} : sum[i] > sum[i - 1]})

\* The matches of a taker: maker i gives "lots" at "ticks", and the taker has
\* "sumLots" at "sumCost" by then.
Matches(taker, list, ords) ==
    LET sum     == MatchedLots(taker, list, ords)
        fill(i) == sum[i] - sum[i - 1]
        paid(i) == fill(i) * ords[list[i]].ticks
    IN  [i \in 1..MatchCount(sum) |->
            [id |-> list[i], maker |-> ords[list[i]],
             lots |-> fill(i), ticks |-> ords[list[i]].ticks,
             sumLots |-> sum[i], sumCost |-> SumFunction([j \in 1..i |-> paid(j)])]]

\* The execs of a new order: the order itself, then for each match the trade
\* of the maker and that of the taker.  Ids are allocated in this order.
OrderExecs(m, id, taker, matches) ==
    LET makerTrade(i) ==
            TradeExec(NewExec(m, matches[i].id, matches[i].maker, id + 2*i - 1),
                      matches[i].lots, matches[i].lots * matches[i].ticks,
                      matches[i].lots, matches[i].ticks, id + 2*i, taker.accnt)
        takerTrade(i) ==
            TradeExec(NewExec(m, id, taker, id + 2*i),
                      matches[i].sumLots, matches[i].sumCost,
                      matches[i].lots, matches[i].ticks, id + 2*i - 1,
                      matches[i].maker.accnt)
    IN  [k \in 1..(2 * Len(matches) + 1) |->
            IF k = 1 THEN NewExec(m, id, taker, id)
            ELSE IF k % 2 = 0 THEN makerTrade(k \div 2)
            ELSE takerTrade(k \div 2)]

\* The taker after all its matches.
AfterMatches(taker, matches) ==
    IF matches = <<>> THEN taker
    ELSE TradeLots(taker, Last(matches).sumLots, Last(matches).sumCost)

\* The opposite side after take_order for each match in turn.
TakeMakers(side, matches) ==
    LET took[i \in 0..Len(matches)] ==
            IF i = 0 THEN side
            ELSE LET x == matches[i]
                 IN  ReduceLevel(took[i - 1], x.id, x.maker, x.lots)
    IN  took[Len(matches)]

\* Faulty: only the last maker is looked at.
DoneMakersLast(matches) ==
    {matches[i].id : i \in {j \in DOMAIN matches :
                                /\ j = Len(matches)
                                /\ matches[j].lots = matches[j].maker.resd}}

\* The orders that are done once their matches are committed.
DoneMakers(matches) ==
    {matches[i].id : i \in {j \in DOMAIN matches :
                                matches[j].lots = matches[j].maker.resd}}

\* The market's orders after the makers have traded and "new" has come.
TradedOrders(ords, matches, new) ==
    [id \in (DOMAIN ords \ DoneMakers(matches)) \union DOMAIN new |->
        IF id \in DOMAIN new THEN new[id]
        ELSE IF \E i \in DOMAIN matches : matches[i].id = id
        THEN LET x == matches[CHOOSE i \in DOMAIN matches : matches[i].id = id]
             IN  TradeLots(ords[id], x.lots, x.lots * x.ticks)
        ELSE ords[id]]
=============================================================================
