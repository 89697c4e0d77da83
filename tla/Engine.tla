------------------------------- MODULE Engine --------------------------------
(***************************************************************************)
(* The matching engine: src/src/swirly/lob (App.cpp, Sess, Response) over  *)
(* the market and session state of src/src/swirly/fin.                     *)
(*                                                                         *)
(* The engine is single-threaded.  Each public operation of App runs to    *)
(* completion on the reactor thread, so each is one action here; inside it *)
(* the code goes through validation, id allocation, matching, journalling  *)
(* (posts to the message queue) and commit, and it can leave early at each *)
(* of these points by throwing.  The actions spell out every such exit:    *)
(* what had already been changed stays changed.                            *)
(*                                                                         *)
(* "out" holds the messages that the last operation left on the queue and  *)
(* "res" how it ended: "ok", "error" (it threw) or "abort" (an assert of   *)
(* its commit phase failed).                                               *)
(***************************************************************************)
EXTENDS Matching, Posn

CONSTANTS
    Accnts,       \* accounts
    Markets,      \* market ids
    SettlDay,     \* the settlement day of each market, 0 for none
    Refs,         \* order references
    NoRef,        \* the empty reference
    MarketStates, \* states of a market; the engine only stores them
    MaxExecs,     \* capacity of a session's history of execs
    MaxIds,       \* ids that fit in one ArchiveTrade message
    IdLists,      \* the lists of ids that callers pass to the list operations
    Faults,       \* what may fail: "queue" (message queue), "memory" (pool)
    Ops,          \* what callers do: "create", "change" (orders), "trade"
    MinLots,      \* the minima that callers ask for
    MaxTicks, MaxLots, MaxId, MaxDay  \* bounds

ASSUME EngineAssumption ==
    /\ NoAccnt \notin Accnts
    /\ NoRef \notin Refs
    /\ SettlDay \in [Markets -> Nat]
    /\ MaxExecs \in Nat \ {0}
    /\ MaxIds \in Nat \ {0}
    /\ MaxTicks \in Nat \ {0}
    /\ MaxLots \in Nat \ {0}
    /\ MaxId \in Nat
    /\ MaxDay \in Nat \ {0}
    /\ IdLists \subseteq Seq(1..MaxId) \ {<<>>}
    /\ Faults \subseteq {"queue", "memory"}
    /\ Ops \subseteq {"create", "change", "trade"}
    /\ MinLots \subseteq Nat

\* Only sums over the accounts need this.
ASSUME AccntsAssumption == IsFiniteSet(Accnts)

VARIABLES
    day,         \* the current business day
    markets,     \* the created markets: [state, maxId, lastLots, lastTicks]
    books,       \* for each created market, its two sides
    orders,      \* for each created market, its live orders by id
    sessOrders,  \* for each account, the keys <<market, id>> of its orders
    refIdx,      \* for each account, its orders that have a reference
    trades,      \* for each account, the keys of its unarchived trades
    execs,       \* for each account, its most recent execs, newest first
    posns,       \* for each account, its positions by market
    out, res

sessVars == <<sessOrders, refIdx, trades, execs>>
vars == <<day, markets, books, orders, sessVars, posns, out, res>>

Init ==
    /\ day = 1
    /\ markets = <<>>
    /\ books = <<>>
    /\ orders = <<>>
    /\ sessOrders = [a \in Accnts |-> {}]
    /\ refIdx = [a \in Accnts |-> <<>>]
    /\ trades = [a \in Accnts |-> {}]
    /\ execs = [a \in Accnts |-> <<>>]
    /\ posns = [a \in Accnts |-> <<>>]
    /\ out = <<>>
    /\ res = "ok"

-----------------------------------------------------------------------------
(* Ways for an operation to end. *)

\* Nothing was changed when the operation threw.
Refuse ==
    /\ res' = "error"
    /\ out' = <<>>
    /\ UNCHANGED <<day, markets, books, orders, sessVars, posns>>

\* The operation threw after it had taken n ids from market m: exec ids are
\* not given back.  What else had changed is said by the caller.
FailAfterIds(m, n) ==
    /\ res' = "error"
    /\ markets' = [markets EXCEPT ![m].maxId = @ + n]
    /\ UNCHANGED <<day, books, orders, sessVars>>

\* The message queue did not take all of the batch: it may have been found
\* short of space before the first post, or a post failed after others had
\* succeeded, since the space that reserve() reports includes elements that
\* the consumer has claimed and not yet released (see MemQueue).
QueueFails(batch) ==
    /\ "queue" \in Faults
    /\ \E n \in 0..(Len(batch) - 1) : out' = SubSeq(batch, 1, n)

\* An allocation from the memory pool threw bad_alloc.
MemoryFails ==
    /\ "memory" \in Faults
    /\ out' = <<>>

Post(batch) ==
    /\ res' = "ok"
    /\ out' = batch

\* Posting a sequence of execs, one message each.
ExecMsgs(batch) ==
    [k \in DOMAIN batch |-> [type |-> "CreateExec", exec |-> batch[k]]]

-----------------------------------------------------------------------------
(* Sessions (Sess.hpp). *)

\* push_exec_front for each exec in turn: the circular buffer forgets the
\* oldest.
PushExecs(hist, batch) ==
    LET push(h, e) ==
            [h EXCEPT ![e.accnt] = SubSeq(<<<<e.market, e.id>>>> \o @, 1,
                                          MinOf(Len(@) + 1, MaxExecs))]
        pushed[k \in 0..Len(batch)] ==
            IF k = 0 THEN hist ELSE push(pushed[k - 1], batch[k])
    IN  pushed[Len(batch)]

\* insert_trade for each trade.
InsertTrades(held, batch) ==
    [a \in Accnts |-> held[a] \union
        {<<batch[k].market, batch[k].id>> :
            k \in {j \in DOMAIN batch : /\ batch[j].accnt = a
                                        /\ batch[j].state = "Trade"}}]

\* Sess::posn creates a flat position for an account that has none.
EnsurePosns(ps, accnts, m) ==
    [a \in Accnts |-> IF a \in accnts /\ m \notin DOMAIN ps[a]
                      THEN Put(ps[a], m, FlatPosn) ELSE ps[a]]

\* Faulty: each trade is added to the position as it was before the operation.
AddTradesToOld(ps, batch) ==
    LET add(p, e) ==
            IF e.state = "Trade"
            THEN [p EXCEPT ![e.accnt][e.market] =
                    AddTrade(ps[e.accnt][e.market], e.side, e.lastLots, e.lastTicks)]
            ELSE p
        added[k \in 0..Len(batch)] ==
            IF k = 0 THEN ps ELSE add(added[k - 1], batch[k])
    IN  added[Len(batch)]

\* add_trade for each trade in turn.
AddTrades(ps, batch) ==
    LET add(p, e) ==
            IF e.state = "Trade"
            THEN [p EXCEPT ![e.accnt][e.market] =
                    AddTrade(@, e.side, e.lastLots, e.lastTicks)]
            ELSE p
        added[k \in 0..Len(batch)] ==
            IF k = 0 THEN ps ELSE add(added[k - 1], batch[k])
    IN  added[Len(batch)]

\* remove_order for the done orders "gone" of market m, then insert_order for
\* the new order if there is one: only orders with a reference are indexed.
SessUpdate(m, gone, new) ==
    LET goneKeys == {<<m, id>> : id \in gone}
        newOf(a) == {id \in DOMAIN new : new[id].accnt = a}
    IN  /\ sessOrders' = [a \in Accnts |->
                (sessOrders[a] \ goneKeys) \union {<<m, id>> : id \in newOf(a)}]
        /\ refIdx' = [a \in Accnts |->
            LET kept == {r \in DOMAIN refIdx[a] : refIdx[a][r] \notin goneKeys}
                came == {new[id].ref : id \in newOf(a)} \ {NoRef}
            IN  [r \in kept \union came |->
                    IF r \in came
                    THEN <<m, CHOOSE id \in newOf(a) : new[id].ref = r>>
                    ELSE refIdx[a][r]]]

-----------------------------------------------------------------------------
(* Operations of App. *)

SettlBefore(m) == SettlDay[m] # 0 /\ SettlDay[m] < day

CreateMarket(m, state) ==
    LET msg == <<[type |-> "CreateMarket", market |-> m, state |-> state]>>
        new == [state |-> state, maxId |-> 0, lastLots |-> 0, lastTicks |-> 0]
    IN  \/ /\ SettlBefore(m) \/ m \in DOMAIN markets
           /\ Refuse
        \/ /\ ~SettlBefore(m) /\ m \notin DOMAIN markets
           /\ \/ /\ Post(msg)
                 /\ markets' = Put(markets, m, new)
                 /\ books' = Put(books, m, [s \in Sides |-> EmptySide])
                 /\ orders' = Put(orders, m, <<>>)
                 /\ UNCHANGED <<day, sessVars, posns>>
              \/ /\ QueueFails(msg)
                 /\ res' = "error"
                 /\ UNCHANGED <<day, markets, books, orders, sessVars, posns>>

UpdateMarket(m, state) ==
    LET msg == <<[type |-> "UpdateMarket", market |-> m, state |-> state]>>
    IN  /\ \/ /\ Post(msg)
              /\ markets' = [markets EXCEPT ![m].state = state]
           \/ /\ QueueFails(msg)
              /\ res' = "error"
              /\ UNCHANGED markets
        /\ UNCHANGED <<day, books, orders, sessVars, posns>>

\* create_order: validation, id allocation, matching, position and level
\* allocation, journalling, commit.
CreateOrder(a, m, ref, side, lots, ticks, minLots) ==
    LET order   == [accnt |-> a, ref |-> ref, side |-> side, ticks |-> ticks,
                    lots |-> lots, resd |-> lots, exec |-> 0, cost |-> 0,
                    minLots |-> minLots]
        id      == markets[m].maxId + 1
        own     == books[m][side]
        opp     == books[m][Opposite(side)]
        matches == Matches(order, opp.list, orders[m])
        count   == Len(matches)
        batch   == OrderExecs(m, id, order, matches)
        rest    == AfterMatches(order, matches)
        new     == IF Done(rest) THEN <<>> ELSE Put(<<>>, id, rest)
        makers(j) == {matches[i].maker.accnt : i \in 1..j}
        allPosns  == EnsurePosns(posns, IF count = 0 THEN {}
                                        ELSE makers(count) \union {a}, m)
        inserted  == IF Done(rest) THEN own ELSE InsertOrder(own, id, rest)
        undone    == IF Done(rest) THEN inserted
                     ELSE RemoveOrder(inserted, id, rest)
    IN  \/ /\ \/ ref # NoRef /\ ref \in DOMAIN refIdx[a]
              \/ SettlBefore(m)
              \/ lots = 0
              \/ lots < minLots
           /\ Refuse
        \/ /\ ~(ref # NoRef /\ ref \in DOMAIN refIdx[a])
           /\ ~SettlBefore(m)
           /\ lots > 0 /\ lots >= minLots
           /\ id + 2 * count =< MaxId
           /\ \/ \* Everything is allocated and the queue takes all execs.
                 /\ Post(ExecMsgs(batch))
                 /\ markets' = [markets EXCEPT
                        ![m].maxId = @ + Len(batch),
                        ![m].lastLots = IF count = 0 THEN @ ELSE Last(matches).lots,
                        ![m].lastTicks = IF count = 0 THEN @ ELSE Last(matches).ticks]
                 /\ books' = [books EXCEPT
                        ![m][side] = inserted,
                        ![m][Opposite(side)] = TakeMakers(opp, matches)]
                 /\ orders' = [orders EXCEPT
                        ![m] = TradedOrders(orders[m], matches, new)]
                 /\ SessUpdate(m, DoneMakers(matches), new)
                 /\ trades' = InsertTrades(trades, batch)
                 /\ execs' = PushExecs(execs, batch)
                 /\ posns' = AddTrades(allPosns, batch)
                 /\ UNCHANGED day
              \/ \* The queue refuses: the insertion in the market is undone.
                 /\ QueueFails(ExecMsgs(batch))
                 /\ res' = "error"
                 /\ markets' = [markets EXCEPT ![m].maxId = @ + Len(batch)]
                 /\ books' = [books EXCEPT ![m][side] = undone]
                 /\ posns' = allPosns
                 /\ UNCHANGED <<day, orders, sessVars>>
              \/ \* Memory runs out at the order, in match j, at the taker's
                 \* position or at the level.
                 /\ MemoryFails
                 /\ \E j \in 0..count :
                    /\ FailAfterIds(m, 1 + 2 * j)
                    /\ \/ posns' = EnsurePosns(posns, makers(j - 1), m)
                       \/ posns' = EnsurePosns(posns, makers(j), m)
                       \/ j = count /\ posns' = allPosns

\* The k-th entry of a list of ids is the first one for its order.
FirstEntry(ids, k) == \A j \in 1..(k - 1) : ids[j] # ids[k]

\* The sides of a market after the commit phase of a change to each order of a
\* list, where after[id] is what becomes of an order: its first entry takes what
\* it loses off its level, and later entries change nothing.
ReduceOrders(book, ords, ids, after) ==
    LET taken(k) == IF FirstEntry(ids, k)
                    THEN ords[ids[k]].resd - after[ids[k]].resd ELSE 0
        reduced[k \in 0..Len(ids)] ==
            IF k = 0 THEN book
            ELSE LET order == ords[ids[k]]
                 IN  [reduced[k - 1] EXCEPT ![order.side] =
                        ReduceLevel(@, ids[k], order, taken(k))]
    IN  reduced[Len(ids)]

\* What revise_order and cancel_order have in common.  The ids are looked up
\* and validated one by one, and each valid one takes an exec id, so an invalid
\* one throws after ids have been taken.  All execs are then posted together
\* and each order is changed in the commit phase.  "bad" are the positions of
\* the ids that are refused.
\* A call for a single order is the call with a list of one id.  An order that
\* is done by an earlier entry of the same list is no longer in the session
\* when the commit phase looks it up: the process ends there, with all execs
\* posted, and what it had changed in memory is gone with it.
ChangeOrders(m, ids, bad, batch, after) ==
    LET ords  == orders[m]
        done  == {id \in ToSet(ids) : Done(after[id])}
        stale == \E k \in DOMAIN ids : ids[k] \in done /\ ~FirstEntry(ids, k)
    IN  /\ markets[m].maxId + Len(ids) =< MaxId
        /\ \/ /\ bad # {}
              /\ FailAfterIds(m, Min(bad) - 1)
              /\ out' = <<>>
              /\ UNCHANGED posns
           \/ /\ bad = {}
              /\ ~stale
              /\ Post(ExecMsgs(batch))
              /\ markets' = [markets EXCEPT ![m].maxId = @ + Len(ids)]
              /\ books' = [books EXCEPT ![m] = ReduceOrders(@, ords, ids, after)]
              /\ orders' = [orders EXCEPT
                    ![m] = [id \in DOMAIN ords \ done |->
                              IF id \in ToSet(ids) THEN after[id] ELSE ords[id]]]
              /\ SessUpdate(m, done, <<>>)
              /\ execs' = PushExecs(execs, batch)
              /\ UNCHANGED <<day, trades, posns>>
           \/ /\ bad = {}
              /\ stale
              /\ res' = "abort"
              /\ out' = ExecMsgs(batch)
              /\ markets' = [markets EXCEPT ![m].maxId = @ + Len(ids)]
              /\ UNCHANGED <<day, books, orders, sessVars, posns>>
           \/ /\ bad = {}
              /\ FailAfterIds(m, Len(ids))
              /\ QueueFails(ExecMsgs(batch))
              /\ UNCHANGED posns
           \/ /\ MemoryFails
              /\ \E j \in 1..(IF bad = {} THEN Len(ids) ELSE Min(bad) - 1) :
                    FailAfterIds(m, j)
              /\ UNCHANGED posns

\* revise_order: the new lots may be neither zero nor more than the lots, nor
\* less than what is executed or than the minimum.
ReviseOrder(a, m, ids, lots) ==
    LET bad == {i \in DOMAIN ids :
                    \/ <<m, ids[i]>> \notin sessOrders[a]
                    \/ lots = 0
                    \/ lots > orders[m][ids[i]].lots
                    \/ lots < orders[m][ids[i]].exec
                    \/ lots < orders[m][ids[i]].minLots}
        exec(k) == ReviseExec(NewExec(m, ids[k], orders[m][ids[k]],
                                      markets[m].maxId + k), lots)
    IN  ChangeOrders(m, ids, bad, [k \in DOMAIN ids |-> exec(k)],
                     [id \in ToSet(ids) |-> ReviseLots(orders[m][id], lots)])

\* cancel_order.
CancelOrder(a, m, ids) ==
    LET bad == {i \in DOMAIN ids : <<m, ids[i]>> \notin sessOrders[a]}
        exec(k) == CancelExec(NewExec(m, ids[k], orders[m][ids[k]],
                                      markets[m].maxId + k))
    IN  ChangeOrders(m, ids, bad, [k \in DOMAIN ids |-> exec(k)],
                     [id \in ToSet(ids) |-> CancelLots(orders[m][id])])

\* The overloads that take a reference find the order in the session's index;
\* the market is the order's own.
ReviseOrderByRef(a, ref, lots) ==
    IF ref \in DOMAIN refIdx[a]
    THEN ReviseOrder(a, refIdx[a][ref][1], <<refIdx[a][ref][2]>>, lots)
    ELSE Refuse

CancelOrderByRef(a, ref) ==
    IF ref \in DOMAIN refIdx[a]
    THEN CancelOrder(a, refIdx[a][ref][1], <<refIdx[a][ref][2]>>)
    ELSE Refuse

\* create_trade: a manual trade and, if there is a counter-party, the opposite
\* trade in its account, which is committed first.
CreateTrade(a, m, side, lots, ticks, cpty) ==
    LET id       == markets[m].maxId + 1
        trade    == ManualExec(a, m, id, NoRef, side, lots, ticks, cpty)
        batch    == IF cpty = NoAccnt THEN <<trade>>
                    ELSE <<trade, OppositeExec(trade, id + 1)>>
        newPosns == EnsurePosns(posns, {a, cpty}, m)
    IN  /\ id + 1 =< MaxId
        /\ \/ /\ Post(ExecMsgs(batch))
              /\ markets' = [markets EXCEPT ![m].maxId = @ + Len(batch)]
              /\ trades' = InsertTrades(trades, batch)
              /\ execs' = PushExecs(execs, Reverse(batch))
              /\ posns' = AddTrades(newPosns, Reverse(batch))
              /\ UNCHANGED <<day, books, orders, sessOrders, refIdx>>
           \/ /\ QueueFails(ExecMsgs(batch))
              /\ FailAfterIds(m, Len(batch))
              /\ posns' = newPosns
           \/ /\ MemoryFails
              /\ \/ FailAfterIds(m, 0) /\ UNCHANGED posns
                 \/ FailAfterIds(m, 1) /\ posns' = EnsurePosns(posns, {a}, m)
                 \/ FailAfterIds(m, Len(batch)) /\ posns' = newPosns

\* archive_trade: all ids are validated first; one message holds MaxIds ids.
ArchiveTrade(a, m, ids) ==
    LET keys     == {<<m, ids[i]>> : i \in DOMAIN ids}
        steps    == (Len(ids) + MaxIds - 1) \div MaxIds
        chunk(k) == SubSeq(ids, (k - 1) * MaxIds + 1,
                           MinOf(k * MaxIds, Len(ids)))
        batch    == [k \in 1..steps |->
                        [type |-> "ArchiveTrade", market |-> m, ids |-> chunk(k)]]
    IN  \/ /\ ~(keys \subseteq trades[a])
           /\ Refuse
        \/ /\ keys \subseteq trades[a]
           /\ IsInjective(ids)
           /\ Post(batch)
           /\ trades' = [trades EXCEPT ![a] = @ \ keys]
           /\ UNCHANGED <<day, markets, books, orders, sessOrders, refIdx,
                          execs, posns>>
        \/ /\ keys \subseteq trades[a]
           /\ ~IsInjective(ids)
           /\ res' = "abort"
           /\ out' = batch
           /\ UNCHANGED <<day, markets, books, orders, sessVars, posns>>
        \/ /\ keys \subseteq trades[a]
           /\ QueueFails(batch)
           /\ res' = "error"
           /\ UNCHANGED <<day, markets, books, orders, sessVars, posns>>

\* The business day that the engine derives from the time of the call.
NextDay ==
    /\ day < MaxDay
    /\ day' = day + 1
    /\ res' = "ok"
    /\ out' = <<>>
    /\ UNCHANGED <<markets, books, orders, sessVars, posns>>

CreateOrders ==
    /\ "create" \in Ops
    /\ \E a \in Accnts, m \in DOMAIN markets, ref \in Refs \union {NoRef},
          side \in Sides, lots \in 0..MaxLots, ticks \in 1..MaxTicks,
          minLots \in MinLots :
            CreateOrder(a, m, ref, side, lots, ticks, minLots)

ChangeOrder ==
    /\ "change" \in Ops
    /\ \E a \in Accnts :
        \/ \E m \in DOMAIN markets, ids \in IdLists :
            \/ CancelOrder(a, m, ids)
            \/ \E lots \in 0..MaxLots : ReviseOrder(a, m, ids, lots)
        \/ \E ref \in Refs :
            \/ CancelOrderByRef(a, ref)
            \/ \E lots \in 0..MaxLots : ReviseOrderByRef(a, ref, lots)

TradeOps ==
    /\ "trade" \in Ops
    /\ \E a \in Accnts, m \in DOMAIN markets :
        \/ \E side \in Sides, lots \in 1..MaxLots, ticks \in 1..MaxTicks,
              cpty \in Accnts \union {NoAccnt} :
                CreateTrade(a, m, side, lots, ticks, cpty)
        \/ \E ids \in IdLists : ArchiveTrade(a, m, ids)

MarketOps ==
    \E m \in Markets, state \in MarketStates :
        \/ CreateMarket(m, state)
        \/ m \in DOMAIN markets /\ UpdateMarket(m, state)

\* After an abort the process is gone.
Next ==
    /\ res # "abort"
    /\ CreateOrders \/ ChangeOrder \/ TradeOps \/ MarketOps \/ NextDay

Spec == Init /\ [][Next]_vars

-----------------------------------------------------------------------------
Order == [accnt : Accnts, ref : Refs \union {NoRef}, side : Sides,
          ticks : 1..MaxTicks, lots : 1..MaxLots, resd : 1..MaxLots,
          exec : 0..MaxLots, cost : 0..(MaxLots * MaxTicks), minLots : MinLots]

\* The type invariant.
TypeOK ==
    /\ day \in 1..MaxDay
    /\ DOMAIN markets \subseteq Markets
    /\ DOMAIN books = DOMAIN markets /\ DOMAIN orders = DOMAIN markets
    /\ \A m \in DOMAIN markets :
        /\ markets[m] \in [state : MarketStates, maxId : 0..MaxId,
                           lastLots : 0..MaxLots, lastTicks : 0..MaxTicks]
        /\ DOMAIN orders[m] \subseteq 1..markets[m].maxId
        /\ \A id \in DOMAIN orders[m] : orders[m][id] \in Order
        /\ \A s \in Sides : books[m][s].list \in Seq(DOMAIN orders[m])
    /\ \A a \in Accnts :
        /\ sessOrders[a] \union trades[a] \subseteq Markets \X (1..MaxId)
        /\ DOMAIN refIdx[a] \subseteq Refs
        /\ execs[a] \in Seq(Markets \X (1..MaxId)) /\ Len(execs[a]) =< MaxExecs
        /\ DOMAIN posns[a] \subseteq Markets
    /\ res \in {"ok", "error", "abort"}

-----------------------------------------------------------------------------
(* Invariants.  Most relate structures that the code updates one by one in   *)
(* its commit phases.                                                        *)

\* Market and sessions hold the same orders: every live order stands exactly
\* once in its market, on its own side, and is in its owner's session; it can
\* be found by its reference, and no reference finds anything else (commit
\* phases of App.cpp; Sess::insert_order, Sess::remove_order).
MarketsAndSessionsAgree ==
    /\ \A m \in DOMAIN markets, s \in Sides :
        LET list == books[m][s].list
        IN  /\ ToSet(list) = {id \in DOMAIN orders[m] : orders[m][id].side = s}
            /\ IsInjective(list)
    /\ \A a \in Accnts :
        /\ sessOrders[a] = {k \in Markets \X (1..MaxId) :
                /\ k[1] \in DOMAIN markets
                /\ k[2] \in DOMAIN orders[k[1]]
                /\ orders[k[1]][k[2]].accnt = a}
        /\ \A k \in sessOrders[a] :
            LET ref == orders[k[1]][k[2]].ref
            IN  ref = NoRef \/ (ref \in DOMAIN refIdx[a] /\ refIdx[a][ref] = k)
        /\ \A r \in DOMAIN refIdx[a] :
            /\ refIdx[a][r] \in sessOrders[a]
            /\ orders[refIdx[a][r][1]][refIdx[a][r][2]].ref = r

\* Lots are accounted for: what is left of a live order and what was executed
\* make up its lots, and something is left (Order::revise, Order::trade).
LotsAddUp ==
    \A m \in DOMAIN markets : \A id \in DOMAIN orders[m] :
        LET order == orders[m][id]
        IN  /\ order.resd > 0
            /\ order.resd + order.exec = order.lots
            /\ order.lots >= order.minLots

\* No bid meets an offer once an operation is over: whatever could trade has
\* traded (match_orders).
NotCrossed ==
    \A m \in DOMAIN markets :
        \A b \in ToSet(books[m]["Buy"].list), o \in ToSet(books[m]["Sell"].list) :
            orders[m][b].ticks < orders[m][o].ticks

\* Each side is sorted by price and then by the age of the order, and its
\* levels are those of the orders on it.
BooksAreInOrder ==
    \A m \in DOMAIN markets, s \in Sides :
        LET list   == books[m][s].list
            key(i) == LevelKey(orders[m][list[i]])
        IN  /\ \A i \in 1..(Len(list) - 1) :
                \/ key(i) < key(i + 1)
                \/ key(i) = key(i + 1) /\ list[i] < list[i + 1]
            /\ books[m][s].levels = LevelsOf(list, orders[m])

\* The asserts of the commit phases (App.cpp:325 and others): an order that was
\* found before it was journalled is found when the change is committed.
CommitsFindTheirOrders == res # "abort"

-----------------------------------------------------------------------------
(* Action properties.  Sent are the execs posted by a step. *)

Sent == {out'[k].exec : k \in {j \in DOMAIN out' : out'[j].type = "CreateExec"}}

SentTrades == {e \in Sent : e.state = "Trade"}

Signed(e) == IF e.side = "Buy" THEN e.lastLots ELSE -e.lastLots

\* An operation that throws changes neither the markets' orders nor the
\* sessions, and no position changes: it may only have used up ids and created
\* flat positions (the undo of the market insertion in create_order; the
\* journalling before each commit phase).
FailureChangesNothing ==
    [][res' = "error" =>
        /\ UNCHANGED <<books, orders, sessVars>>
        /\ \A a \in Accnts : \A m \in DOMAIN posns'[a] :
            posns'[a][m] = IF m \in DOMAIN posns[a] THEN posns[a][m]
                           ELSE FlatPosn]_vars

\* The order that an exec describes.
OrderIn(e) ==
    [accnt |-> e.accnt, ref |-> e.ref, side |-> e.side, ticks |-> e.ticks, lots |-> e.lots,
     resd |-> e.resd, exec |-> e.exec, cost |-> e.cost, minLots |-> e.minLots]

\* What one message makes of the orders: the New exec of an order inserts it,
\* later execs replace its lots, residue, executed lots and cost, and an order
\* is live as long as something is left of it.
Applied(live, msg) ==
    LET e == msg.exec
    IN  IF msg.type # "CreateExec" THEN live
        ELSE IF e.orderId = 0 THEN live
        ELSE IF e.resd = 0
        THEN [live EXCEPT ![e.market] = Drop(@, {e.orderId})]
        ELSE [live EXCEPT ![e.market] = Put(@, e.orderId, OrderIn(e))]

\* What the journal makes of the orders.
Replayed(ords, msgs) ==
    LET replayed[k \in 0..Len(msgs)] ==
            IF k = 0 THEN ords ELSE Applied(replayed[k - 1], msgs[k])
    IN  replayed[Len(msgs)]

\* The messages of a successful operation, which are written before its commit
\* phase, say exactly what the commit phase then does to the orders: nothing
\* can be lost by replaying the journal instead (new_exec, Exec::trade,
\* Exec::revise and Exec::cancel against Order::trade, revise and cancel).
JournalTellsOrders ==
    [][res' = "ok" /\ DOMAIN markets' = DOMAIN markets
        => orders' = Replayed(orders, out')]_vars

\* Exec ids are never given out twice: each exec has an id greater than all
\* that were allocated in its market before (Market::alloc_id).
IdsAreFresh ==
    [][/\ \A e \in Sent : e.id > markets[e.market].maxId
                          /\ e.id =< markets'[e.market].maxId
       /\ \A i, j \in DOMAIN out' :
            i # j /\ out'[i].type = "CreateExec" /\ out'[j].type = "CreateExec"
            /\ out'[i].exec.market = out'[j].exec.market
                => out'[i].exec.id # out'[j].exec.id]_vars

\* Every match has two sides: the two trades name each other, agree on lots,
\* price and market, and are opposite (new_match).
TradesComeInPairs ==
    [][res' = "ok" => \A e \in SentTrades : e.orderId # 0 =>
        \E f \in SentTrades :
            /\ f.id = e.matchId /\ f.matchId = e.id
            /\ f.market = e.market /\ f.cpty = e.accnt /\ e.cpty = f.accnt
            /\ f.side = Opposite(e.side)
            /\ f.lastLots = e.lastLots /\ f.lastTicks = e.lastTicks]_vars

\* No order is traded through: an order trades at its own limit or better, and
\* an order that rests in the market does not trade while another one with a
\* better price, or the same price and an earlier id, keeps anything
\* (match_orders).
NoTradeThrough ==
    [][res' = "ok" => \A e \in SentTrades : e.orderId # 0 =>
        LET ords   == orders[e.market]
            before == {id \in DOMAIN ords :
                        /\ ords[id].side = e.side
                        /\ \/ LevelKey(ords[id]) < LevelKey(e)
                           \/ LevelKey(ords[id]) = LevelKey(e) /\ id < e.orderId}
        IN  /\ IF e.side = "Buy" THEN e.lastTicks =< e.ticks
               ELSE e.lastTicks >= e.ticks
            /\ e.orderId \in DOMAIN ords =>
                before \cap DOMAIN orders'[e.market] = {}]_vars

\* What a match promises: price and time are kept, it has two sides, and its
\* execs have ids of their own (match_orders, new_match, Market::alloc_id).
MatchesAreFair == NoTradeThrough /\ TradesComeInPairs /\ IdsAreFresh

\* Lots and cost of all positions in a market together.
TotalLots(m) ==
    LET held == {a \in Accnts : m \in DOMAIN posns[a]}
    IN  SumFunction([a \in held |-> NetLots(posns[a][m])])

TotalCost(m) ==
    LET held == {a \in Accnts : m \in DOMAIN posns[a]}
    IN  SumFunction([a \in held |->
            posns[a][m].buyCost - posns[a][m].sellCost])

\* Positions are a zero-sum game: the lots and the costs of all accounts
\* together change by manual trades without a counter-party and by nothing
\* else (commit_matches, create_trade).
PositionsBalance ==
    [][res' = "ok" => \A m \in DOMAIN markets :
        LET single == {e \in SentTrades : e.cpty = NoAccnt /\ e.market = m}
            paid(e) == Signed(e) * e.lastTicks
        IN  /\ TotalLots(m)' - TotalLots(m) = SumFunction([e \in single |-> Signed(e)])
            /\ TotalCost(m)' - TotalCost(m) = SumFunction([e \in single |-> paid(e)])]_vars

NetOf(a, m) == IF m \in DOMAIN posns[a] THEN NetLots(posns[a][m]) ELSE 0

\* An account's position moves by exactly the trades that its session is given
\* in the same step (commit_matches, create_trade).
PositionsFollowTrades ==
    [][res' = "ok" => \A a \in Accnts, m \in DOMAIN markets :
        LET mine == {e \in SentTrades : /\ e.accnt = a
                                        /\ <<m, e.id>> \in trades'[a] \ trades[a]}
        IN  NetOf(a, m)' - NetOf(a, m) = SumFunction([e \in mine |-> Signed(e)])]_vars
=============================================================================
