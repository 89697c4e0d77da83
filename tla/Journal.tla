------------------------------- MODULE Journal -------------------------------
(***************************************************************************)
(* The engine together with what makes it durable: the message queue, the  *)
(* thread that writes its messages to the database, the triggers of the    *)
(* database, and the loading of the model when the process starts again    *)
(* (src/src/swirly/db, src/etc/sql/schema.sqlite, App::load).              *)
(*                                                                         *)
(* The engine's operations are those of Engine; the messages of each go to *)
(* "queue".  The journal thread takes one message at a time.  The process  *)
(* may end at any point: by an assert, a signal, a crash.  The messages in *)
(* an anonymous queue are then gone; those in a queue that is mapped from  *)
(* a file (mq_file) are still there when the process comes back.           *)
(***************************************************************************)
EXTENDS Engine

CONSTANTS
    QueueIsFile,   \* mq_file is configured
    DbFaults,      \* whether a write may fail for a reason of the database's own
    BaseOf,        \* the market id of each market with its day bits cleared
    MaxQueue       \* bound on the messages that wait for the journal

ASSUME JournalAssumption ==
    /\ QueueIsFile \in BOOLEAN /\ DbFaults \in BOOLEAN
    /\ BaseOf \in [Markets -> Markets]
    /\ MaxQueue \in Nat

VARIABLES
    db,         \* the tables: markets, orders, execs in the order of insertion
    queue,      \* messages that were posted and not yet taken
    journalUp   \* the journal thread is running

journalVars == <<db, queue, journalUp>>
allVars == <<vars, journalVars>>

EmptyDb == [markets |-> <<>>, orders |-> <<>>, execs |-> <<>>]

-----------------------------------------------------------------------------
(* Writing (SqliteJourn.cpp and the triggers on exec_t). *)

\* The row of an order as the trigger inserts it.
OrderRow(e) ==
    [accnt |-> e.accnt, ref |-> e.ref, side |-> e.side, ticks |-> e.ticks,
     lots |-> e.lots, resd |-> e.resd, exec |-> e.exec, cost |-> e.cost,
     minLots |-> e.minLots]

\* A later exec updates the rows that have the order's id, in every market.
UpdateOrders(orderRows, e) ==
    [k \in DOMAIN orderRows |->
        IF k[2] = e.orderId
        THEN [orderRows[k] EXCEPT !.lots = e.lots, !.resd = e.resd,
                                  !.exec = e.exec, !.cost = e.cost]
        ELSE orderRows[k]]

\* The last trade of a market is that of any trade, also of a manual one.
UpdateLast(marketRows, e) ==
    IF e.state # "Trade" THEN marketRows
    ELSE [marketRows EXCEPT ![e.market].lastLots = e.lastLots,
                            ![e.market].lastTicks = e.lastTicks]

\* The triggers run before the exec's own row is inserted.
InsertExec(d, e) ==
    [markets |-> UpdateLast(d.markets, e),
     orders  |-> IF e.orderId = 0 THEN d.orders
                 ELSE IF e.state = "New"
                 THEN Put(d.orders, <<e.market, e.orderId>>, OrderRow(e))
                 ELSE UpdateOrders(d.orders, e),
     execs   |-> Append(d.execs,
                    [accnt |-> e.accnt, market |-> e.market, id |-> e.id,
                     state |-> e.state, side |-> e.side,
                     lastLots |-> e.lastLots, lastTicks |-> e.lastTicks,
                     archived |-> FALSE])]

InsertMarket(d, msg) ==
    [d EXCEPT !.markets = Put(@, msg.market,
        [state |-> msg.state, lastLots |-> 0, lastTicks |-> 0])]

UpdateMarketRow(d, msg) == [d EXCEPT !.markets[msg.market].state = msg.state]

\* All ids of a message are archived in one transaction.
ArchiveTrades(d, msg) ==
    [d EXCEPT !.execs = [i \in DOMAIN @ |->
        IF @[i].market = msg.market /\ @[i].id \in ToSet(msg.ids)
        THEN [@[i] EXCEPT !.archived = TRUE] ELSE @[i]]]

Written(d, msg) ==
    CASE msg.type = "CreateMarket" -> InsertMarket(d, msg)
      [] msg.type = "UpdateMarket" -> UpdateMarketRow(d, msg)
      [] msg.type = "CreateExec"   -> InsertExec(d, msg.exec)
      [] msg.type = "ArchiveTrade" -> ArchiveTrades(d, msg)

\* The primary keys: market_t by id, order_t and exec_t by market and id.  A
\* statement that breaks one is undone with what its triggers did.  Foreign
\* keys are not enforced (sqlite_enable_fkey).
Accepted(d, msg) ==
    CASE msg.type = "CreateMarket" -> msg.market \notin DOMAIN d.markets
      [] msg.type = "CreateExec" ->
            LET e == msg.exec
            IN  /\ \A r \in ToSet(d.execs) : ~(r.market = e.market /\ r.id = e.id)
                /\ e.orderId # 0 /\ e.state = "New"
                    => <<e.market, e.orderId>> \notin DOMAIN d.orders
      [] OTHER -> TRUE

-----------------------------------------------------------------------------
(* Loading (Sql.hxx, SqliteModel.cpp and the views of the schema). *)

\* Orders of which something is left.
LiveRows(d) == {k \in DOMAIN d.orders : d.orders[k].resd > 0}

\* Faulty: the id to go on from is that of the last order.
LoadedMaxIdOfOrders(d, m) ==
    Max({0} \union {k[2] : k \in {j \in DOMAIN d.orders : j[1] = m}})

\* market_v: ids go on from the greatest exec id.
LoadedMaxId(d, m) ==
    Max({0} \union {row.id : row \in {r \in ToSet(d.execs) : r.market = m}})

LoadedMarkets(d) ==
    [m \in DOMAIN d.markets |->
        [state |-> d.markets[m].state, maxId |-> LoadedMaxId(d, m),
         lastLots |-> d.markets[m].lastLots,
         lastTicks |-> d.markets[m].lastTicks]]

LoadedOrders(d) ==
    [m \in DOMAIN d.markets |->
        [id \in {k[2] : k \in {j \in LiveRows(d) : j[1] = m}} |->
            d.orders[<<m, id>>]]]

\* Trades that were not archived.
LoadedTrades(d, a) ==
    {<<row.market, row.id>> : row \in {r \in ToSet(d.execs) :
        r.accnt = a /\ r.state = "Trade" /\ ~r.archived}}

\* Faulty: rows are read oldest first.
LoadedExecsOldestFirst(d, a) ==
    LET rows == SelectSeq(d.execs, LAMBDA r : r.accnt = a)
        keys == [i \in DOMAIN rows |-> <<rows[i].market, rows[i].id>>]
    IN  SubSeq(keys, Max({1, Len(keys) - MaxExecs + 1}), Len(keys))

\* The account's execs, newest first; push_exec_back on a full circular buffer
\* forgets the front, so the oldest are left.
LoadedExecs(d, a) ==
    LET rows == SelectSeq(d.execs, LAMBDA r : r.accnt = a)
        keys == Reverse([i \in DOMAIN rows |-> <<rows[i].market, rows[i].id>>])
    IN  SubSeq(keys, Max({1, Len(keys) - MaxExecs + 1}), Len(keys))

\* The market that a position is loaded into: one that settles by today is
\* added to that of its instrument without a day.
RolledMarket(m) == IF SettlDay[m] # 0 /\ SettlDay[m] =< day THEN BaseOf[m] ELSE m

\* posn_v: the lots and costs of the trades of one side.
SideLots(rows, side) ==
    MapThenSumSet(LAMBDA r : r.lastLots, {r \in rows : r.side = side})

SideCost(rows, side) ==
    MapThenSumSet(LAMBDA r : r.lastLots * r.lastTicks,
                  {r \in rows : r.side = side})

\* Faulty: the positions of settled markets are dropped.
LoadedPosnsUnsettled(d, a) ==
    LET mine(b) == {r \in ToSet(d.execs) : /\ r.accnt = a /\ r.state = "Trade"
                                           /\ r.market = b
                                           /\ RolledMarket(b) = b}
    IN  [b \in {m \in Markets : mine(m) # {}} |->
            MakePosn(SideLots(mine(b), "Buy"), SideCost(mine(b), "Buy"),
                     SideLots(mine(b), "Sell"), SideCost(mine(b), "Sell"))]

\* The positions of an account, each made of the totals of its sides.
LoadedPosns(d, a) ==
    LET mine(b) == {r \in ToSet(d.execs) : /\ r.accnt = a /\ r.state = "Trade"
                                           /\ RolledMarket(r.market) = b}
    IN  [b \in {m \in Markets : mine(m) # {}} |->
            MakePosn(SideLots(mine(b), "Buy"), SideCost(mine(b), "Buy"),
                     SideLots(mine(b), "Sell"), SideCost(mine(b), "Sell"))]

\* Each order is inserted in its market and session as its row is read.  The
\* query asks for no order of rows.
LoadBooks(d, rows) ==
    LET insert(bs, k) ==
            [bs EXCEPT ![k[1]][d.orders[k].side] =
                InsertOrder(@, k[2], d.orders[k])]
    IN  FoldLeft(insert, [m \in DOMAIN d.markets |-> [s \in Sides |-> EmptySide]],
                 rows)

Load(d, rows) ==
    LET mine(a) == {k \in LiveRows(d) : d.orders[k].accnt = a}
        refs(a) == {d.orders[k].ref : k \in mine(a)} \ {NoRef}
    IN  /\ markets' = LoadedMarkets(d)
        /\ books' = LoadBooks(d, rows)
        /\ orders' = LoadedOrders(d)
        /\ sessOrders' = [a \in Accnts |-> mine(a)]
        /\ refIdx' = [a \in Accnts |-> [r \in refs(a) |->
                        CHOOSE k \in mine(a) : d.orders[k].ref = r]]
        /\ trades' = [a \in Accnts |-> LoadedTrades(d, a)]
        /\ execs' = [a \in Accnts |-> LoadedExecs(d, a)]
        /\ posns' = [a \in Accnts |-> LoadedPosns(d, a)]

-----------------------------------------------------------------------------
JInit ==
    /\ Init
    /\ db = EmptyDb
    /\ queue = <<>>
    /\ journalUp = TRUE

\* An operation of the engine on the reactor thread.
Serve ==
    /\ Next
    /\ Len(queue) + Len(out') =< MaxQueue
    /\ queue' = queue \o out'
    /\ UNCHANGED <<db, journalUp>>

\* The journal agent takes a message and writes it.
WriteNext ==
    /\ journalUp /\ queue # <<>>
    /\ Accepted(db, Head(queue))
    /\ db' = Written(db, Head(queue))
    /\ queue' = Tail(queue)
    /\ UNCHANGED <<vars, journalUp>>

\* The database refuses a message, or fails: the exception ends the thread,
\* which asks the process to terminate.  The message is off the queue already.
WriteFails ==
    /\ journalUp /\ queue # <<>>
    /\ DbFaults \/ ~Accepted(db, Head(queue))
    /\ queue' = Tail(queue)
    /\ journalUp' = FALSE
    /\ UNCHANGED <<vars, db>>

\* The process ends, and comes back: it maps the queue, loads the model and
\* only then starts its threads.
Restart ==
    /\ \E rows \in SetToSeqs(LiveRows(db)) : Load(db, rows)
    /\ queue' = IF QueueIsFile THEN queue ELSE <<>>
    /\ journalUp' = TRUE
    /\ out' = <<>>
    /\ res' = "ok"
    /\ UNCHANGED <<day, db>>

JNext == Serve \/ WriteNext \/ WriteFails \/ Restart

JSpec == JInit /\ [][JNext]_allVars

-----------------------------------------------------------------------------
(* What a restart would find once the journal has written all that waits. *)

Caught ==
    LET caught[k \in 0..Len(queue)] ==
            IF k = 0 THEN db ELSE Written(caught[k - 1], queue[k])
    IN  caught[Len(queue)]

\* Lots and costs of an account in all markets that settle into one.
HeldIn(a, b) ==
    LET held == {m \in DOMAIN posns[a] : BaseOf[m] = b}
        sum(F) == MapThenSumSet(LAMBDA m : posns[a][m][F], held)
    IN  <<sum("buyLots"), sum("buyCost"), sum("sellLots"), sum("sellCost")>>

JournalledIn(a, b) ==
    LET rows == {r \in ToSet(Caught.execs) : /\ r.accnt = a /\ r.state = "Trade"
                                             /\ BaseOf[r.market] = b}
    IN  <<SideLots(rows, "Buy"), SideCost(rows, "Buy"),
          SideLots(rows, "Sell"), SideCost(rows, "Sell")>>

\* What the engine holds in memory is what the tables will hold when the queue
\* is written: orders field by field, trades to be confirmed, states of the
\* markets, and no id is free in the tables that memory has given out.  It
\* stays so across crashes that lose part of the queue, because memory is lost
\* with it, and until the journal thread has failed (mq_.create_exec and the
\* commit phases of App.cpp, the triggers on exec_t, App::load).
OrdersAreJournalled ==
    journalUp /\ res # "abort" =>
        /\ DOMAIN Caught.markets = DOMAIN markets
        /\ orders = LoadedOrders(Caught)
        /\ \A m \in DOMAIN markets :
            /\ markets[m].state = Caught.markets[m].state
            /\ markets[m].maxId >= LoadedMaxId(Caught, m)

\* The same of trades and of positions; a position in a market that has settled
\* may have been added to another of its instrument by a restart, and no lots
\* or cost are lost or counted twice by that (posn_v, do_read_posn).
TradesAreJournalled ==
    journalUp /\ res # "abort" =>
        \A a \in Accnts :
            /\ trades[a] = LoadedTrades(Caught, a)
            /\ \A b \in Markets : HeldIn(a, b) = JournalledIn(a, b)

\* The journal thread never meets a primary key that is taken: ids go on from
\* where the tables end, whatever was lost on the way (market_v,
\* Market::alloc_id, PRIMARY KEY (market_id, id)).
KeysAreNew ==
    journalUp /\ queue # <<>> => Accepted(db, Head(queue))

\* What the daemon did is not undone by its end, and what it does after its start
\* does not collide with it (the tables, App::load).
OrdersSurvive == OrdersAreJournalled /\ KeysAreNew

\* When each exec of an account was inserted.
InsertedAt(k) ==
    CHOOSE i \in DOMAIN Caught.execs :
        <<Caught.execs[i].market, Caught.execs[i].id>> = k

\* A session's history is newest first, and a restart does not turn it round
\* (push_exec_front, push_exec_back, ORDER BY seq_id DESC).
HistoryIsNewestFirst ==
    journalUp /\ res # "abort" =>
        \A a \in Accnts : \A i \in 1..(Len(execs[a]) - 1) :
            InsertedAt(execs[a][i]) > InsertedAt(execs[a][i + 1])
=============================================================================
