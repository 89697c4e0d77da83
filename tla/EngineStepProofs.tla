--------------------------- MODULE EngineStepProofs ---------------------------
(***************************************************************************)
(* What Engine says of the steps of the matching engine, proved for any    *)
(* number of accounts and markets, any bounds and any lists of ids: which  *)
(* execs an operation posts, that matches are fair, that positions move by *)
(* the trades of the sessions and add up to nothing, and that the messages *)
(* tell what becomes of the orders.  Then of Journal, up to the first      *)
(* restart: the tables follow the engine, message by message.              *)
(***************************************************************************)
EXTENDS EngineProofs, Journal

-----------------------------------------------------------------------------
(* The kinds of steps. *)

\* A step that posts no exec.
PostsNoExec ==
    /\ Len(out') \in Nat /\ DOMAIN out' = 1..Len(out')
    /\ out' = [k \in 1..Len(out') |-> out'[k]]
    /\ \A k \in DOMAIN out' : \/ out'[k].type = "ArchiveTrade"
                              \/ out'[k].type # "CreateExec" /\ MarketOps

\* Such a step, which touches neither orders nor, if it succeeds, positions,
\* except that a new market gets no orders.
Quiet ==
    /\ PostsNoExec
    /\ \/ UNCHANGED orders
       \/ \E m : orders' = Put(orders, m, <<>>) /\ DOMAIN markets' # DOMAIN markets
    /\ res' = "ok" => UNCHANGED posns

\* An order comes to the market m and is committed, or undone.
IsBooked(m, id, order, ms) ==
    \E a, ref, side, lots, ticks, minLots :
        /\ NewOrder(a, m, ref, side, lots, ticks, minLots, id, order, ms)
        /\ OrderBooked(a, m, side, id, order, ms)

IsUndone(m, id, order, ms) ==
    \E a, ref, side, lots, ticks, minLots :
        /\ NewOrder(a, m, ref, side, lots, ticks, minLots, id, order, ms)
        /\ OrderUndone(a, m, side, id, order, ms)

\* A manual trade.
IsManual ==
    \E a \in Accnts, m \in DOMAIN markets, side \in Sides, lots \in 1..MaxLots,
       ticks \in 1..MaxTicks, cpty \in Accnts \union {NoAccnt} :
            CreateTrade(a, m, side, lots, ticks, cpty)

\* create_order.
LEMMA CreateOrderKinds ==
    ASSUME NEW a \in Accnts, NEW m \in DOMAIN markets,
           NEW ref \in Refs \union {NoRef}, NEW side \in Sides, NEW lots \in 0..MaxLots,
           NEW ticks \in 1..MaxTicks, NEW minLots \in MinLots,
           CreateOrder(a, m, ref, side, lots, ticks, minLots)
    PROVE  Quiet \/ \E id, order, ms : IsBooked(m, id, order, ms) \/ IsUndone(m, id, order, ms)
<1>1. PICK order : order = OrderOf(a, ref, side, lots, ticks, minLots)
  OBVIOUS
<1>2. PICK id, ms : /\ id = markets[m].maxId + 1
                    /\ ms = Matches(order, books[m][Opposite(side)].list, orders[m])
  OBVIOUS
<1>3. \/ Refuse
      \/ /\ OrderPasses(a, ref, lots, minLots, id, ms)
         /\ \/ OrderBooked(a, m, side, id, order, ms)
            \/ OrderUndone(a, m, side, id, order, ms)
            \/ OrderDropped(a, m, ms)
  BY <1>1, <1>2, CreateOrderIs
<1>4. CASE Refuse
  BY <1>4 DEF Refuse, Quiet, PostsNoExec
<1>5. CASE OrderDropped(a, m, ms)
  BY <1>5 DEF OrderDropped, MemoryFails, FailAfterIds, Quiet, PostsNoExec
<1>6. ASSUME OrderPasses(a, ref, lots, minLots, id, ms),
             \/ OrderBooked(a, m, side, id, order, ms)
             \/ OrderUndone(a, m, side, id, order, ms)
      PROVE  IsBooked(m, id, order, ms) \/ IsUndone(m, id, order, ms)
  <2>1. NewOrder(a, m, ref, side, lots, ticks, minLots, id, order, ms)
    BY <1>1, <1>2, <1>6 DEF NewOrder
  <2> QED
    BY <1>6, <2>1, Zenon DEF IsBooked, IsUndone
<1> QED
  BY <1>3, <1>4, <1>5, <1>6

\* Messages of other types.
LEMMA OtherMessages ==
    ASSUME NEW n \in Nat, NEW batch, batch = [k \in 1..n |-> batch[k]],
           \A k \in 1..n : \/ batch[k].type = "ArchiveTrade"
                           \/ batch[k].type # "CreateExec" /\ MarketOps,
           out' = <<>> \/ out' = batch \/ QueueFails(batch)
    PROVE  PostsNoExec
<1>0. CASE out' = <<>>
  BY <1>0 DEF PostsNoExec
<1>1. CASE out' = batch
  <2>1. Len(batch) = n /\ DOMAIN batch = 1..n
    OBVIOUS
  <2> QED
    BY <1>1, <2>1 DEF PostsNoExec
<1>2. CASE QueueFails(batch)
  <2>1. Len(batch) = n
    OBVIOUS
  <2>2. PICK c \in 0..(n - 1) : out' = SubSeq(batch, 1, c)
    BY <1>2, <2>1 DEF QueueFails
  <2>3. SubSeq(batch, 1, c) = [k \in 1..c |-> batch[k]]
    BY <2>1, <2>2
  <2> QED
    BY <2>2, <2>3 DEF PostsNoExec
<1> QED
  BY <1>0, <1>1, <1>2

\* archive_trade posts no execs.
LEMMA ArchiveTradeQuiet ==
    ASSUME NEW a, NEW m, NEW ids \in Seq(1..MaxId), ArchiveTrade(a, m, ids)
    PROVE  Quiet
<1> DEFINE steps == (Len(ids) + MaxIds - 1) \div MaxIds
           chunk(k) == SubSeq(ids, (k - 1) * MaxIds + 1, MinOf(k * MaxIds, Len(ids)))
           batch == [k \in 1..steps |->
                        [type |-> "ArchiveTrade", market |-> m, ids |-> chunk(k)]]
<1>1. /\ out' = <<>> \/ out' = batch \/ QueueFails(batch)
      /\ UNCHANGED <<markets, orders, posns>>
  BY DEF ArchiveTrade, Refuse, Post
<1>2. steps \in Nat
  <2>1. PICK n \in Nat, c \in Nat \ {0} : n = Len(ids) /\ c = MaxIds
    BY EngineAssumption
  <2>2. (n + c - 1) \div c \in Nat
    BY <2>1
  <2> QED
    BY <2>1, <2>2
<1>3. \A k \in 1..steps : batch[k].type = "ArchiveTrade"
  <2> HIDE DEF steps, chunk
  <2> QED
    OBVIOUS
<1>4. batch = [k \in 1..steps |-> batch[k]]
  OBVIOUS
<1>5. PostsNoExec
  <2> HIDE DEF steps, batch
  <2> QED
    BY <1>1, <1>2, <1>3, <1>4, OtherMessages
<1> QED
  BY <1>1, <1>5 DEF Quiet

\* Neither do the operations on markets, nor the passing of a day.
LEMMA MarketOpsQuiet ==
    ASSUME MarketOps \/ NextDay
    PROVE  Quiet
<1>1. CASE NextDay
  BY <1>1 DEF NextDay, Quiet, PostsNoExec
<1>2. ASSUME NEW m, NEW state, NEW t \in {"CreateMarket", "UpdateMarket"},
             NEW msg, msg = <<[type |-> t, market |-> m, state |-> state]>>,
             MarketOps, out' = <<>> \/ out' = msg \/ QueueFails(msg)
      PROVE  PostsNoExec
  <2>1. PICK n \in Nat : n = 1
    OBVIOUS
  <2>2. msg = [k \in 1..n |-> msg[k]] /\ \A k \in 1..n : msg[k].type # "CreateExec"
    BY <1>2, <2>1
  <2> QED
    BY <1>2, <2>2, OtherMessages
<1>3. ASSUME NEW m, NEW state, CreateMarket(m, state), MarketOps
      PROVE  Quiet
  <2>1. PICK msg : msg = <<[type |-> "CreateMarket", market |-> m, state |-> state]>>
    OBVIOUS
  <2>2. /\ out' = <<>> \/ out' = msg \/ QueueFails(msg)
        /\ UNCHANGED posns
        /\ \/ UNCHANGED orders
           \/ /\ m \notin DOMAIN markets /\ \E x : markets' = Put(markets, m, x)
              /\ orders' = Put(orders, m, <<>>)
    BY <1>3, <2>1 DEF CreateMarket, Refuse, Post
  <2>3. ASSUME m \notin DOMAIN markets, NEW x, markets' = Put(markets, m, x)
        PROVE  DOMAIN markets' # DOMAIN markets
    BY <2>3 DEF Put
  <2> QED
    BY <1>2, <1>3, <2>1, <2>2, <2>3 DEF Quiet
<1>4. ASSUME NEW m, NEW state, UpdateMarket(m, state), MarketOps
      PROVE  Quiet
  <2>1. PICK msg : msg = <<[type |-> "UpdateMarket", market |-> m, state |-> state]>>
    OBVIOUS
  <2>2. /\ out' = msg \/ QueueFails(msg)
        /\ UNCHANGED <<orders, posns>>
    BY <1>4, <2>1 DEF UpdateMarket, Post
  <2> QED
    BY <1>2, <1>4, <2>1, <2>2 DEF Quiet
<1>5. CASE MarketOps
  <2>1. PICK m, state : CreateMarket(m, state) \/ UpdateMarket(m, state)
    BY <1>5 DEF MarketOps
  <2> QED
    BY <1>3, <1>4, <1>5, <2>1
<1> QED
  BY <1>1, <1>5

\* Every step is one of these.
LEMMA StepKinds ==
    ASSUME EngineInv, Next
    PROVE  \/ Quiet
           \/ \E m, id, order, ms : IsBooked(m, id, order, ms) \/ IsUndone(m, id, order, ms)
           \/ IsChange
           \/ IsManual
<1>1. CASE CreateOrders
  BY <1>1, CreateOrderKinds DEF CreateOrders
<1>2. CASE ChangeOrder
  <2>1. ASSUME Refuse
        PROVE  Quiet
    BY <2>1 DEF Refuse, Quiet, PostsNoExec
  <2> QED
    BY <1>2, <2>1, ChangeOrderIs
<1>3. CASE TradeOps
  <2>1. IdLists \subseteq Seq(1..MaxId)
    BY EngineAssumption
  <2> QED
    BY <1>3, <2>1, ArchiveTradeQuiet DEF TradeOps, IsManual
<1> QED
  BY <1>1, <1>2, <1>3, MarketOpsQuiet DEF Next

-----------------------------------------------------------------------------
(* What a step posts. *)

\* The step posts the first n execs of the batch.
PostsFirst(batch, n) ==
    /\ n \in 0..Len(batch) /\ DOMAIN out' = 1..n /\ out' = [k \in 1..n |-> out'[k]]
    /\ \A k \in 1..n : out'[k] = [type |-> "CreateExec", exec |-> batch[k]]

\* An operation posts its execs, as many of them as the queue takes, or none.
LEMMA ExecsPosted ==
    ASSUME NEW batch, Len(batch) \in Nat, DOMAIN batch = 1..Len(batch)
    PROVE  /\ out' = ExecMsgs(batch) => PostsFirst(batch, Len(batch))
           /\ QueueFails(ExecMsgs(batch)) => \E n \in 0..Len(batch) : PostsFirst(batch, n)
           /\ out' = <<>> => PostsFirst(batch, 0)
<1>1. PICK n \in Nat : n = Len(batch)
  OBVIOUS
<1>2. PICK msgs : msgs = ExecMsgs(batch)
  OBVIOUS
<1>3. /\ msgs = [k \in 1..n |-> [type |-> "CreateExec", exec |-> batch[k]]]
      /\ DOMAIN msgs = 1..n /\ Len(msgs) = n
  BY <1>1, <1>2 DEF ExecMsgs
<1>4. ASSUME out' = msgs
      PROVE  PostsFirst(batch, n)
  BY <1>1, <1>3, <1>4 DEF PostsFirst
<1>5. ASSUME QueueFails(msgs)
      PROVE  \E k \in 0..n : PostsFirst(batch, k)
  <2>1. PICK k \in 0..(n - 1) : out' = SubSeq(msgs, 1, k)
    BY <1>3, <1>5 DEF QueueFails
  <2>2. k \in 0..n /\ k \in Nat
    BY <2>1
  <2>3. SubSeq(msgs, 1, k) = [i \in 1..k |-> msgs[i]]
    BY <1>3, <2>1, <2>2
  <2> QED
    BY <1>1, <1>3, <2>1, <2>2, <2>3 DEF PostsFirst
<1>6. ASSUME out' = <<>>
      PROVE  PostsFirst(batch, 0)
  BY <1>1, <1>6 DEF PostsFirst
<1> QED
  BY <1>1, <1>2, <1>4, <1>5, <1>6

\* What is sent then.
LEMMA SentAre ==
    ASSUME NEW batch, NEW n, PostsFirst(batch, n)
    PROVE  Sent = {batch[k] : k \in 1..n}
BY DEF PostsFirst, Sent

-----------------------------------------------------------------------------
(* The execs of a new order. *)

\* The trades e of the maker and f of the taker in the match x, of which e has
\* the id "next".
PairIs(e, f, m, id, order, x, next) ==
    /\ e.market = m /\ e.id = next /\ e.orderId = x.id /\ e.state = "Trade"
    /\ e.accnt = x.maker.accnt /\ e.side = x.maker.side /\ e.ticks = x.maker.ticks
    /\ e.lastLots = x.lots /\ e.lastTicks = x.ticks
    /\ e.matchId = next + 1 /\ e.cpty = order.accnt
    /\ f.market = m /\ f.id = next + 1 /\ f.orderId = id /\ f.state = "Trade"
    /\ f.accnt = order.accnt /\ f.side = order.side /\ f.ticks = order.ticks
    /\ f.lastLots = x.lots /\ f.lastTicks = x.ticks
    /\ f.matchId = next /\ f.cpty = x.maker.accnt

\* The batch of execs of an order that meets n makers.
OrderBatch(batch, n, m, id, order, ms) ==
    /\ n \in Nat /\ Len(batch) = 2 * n + 1 /\ DOMAIN batch = 1..(2 * n + 1)
    /\ batch[1].state = "New" /\ batch[1].market = m /\ batch[1].id = id
    /\ batch[1].orderId = id
    /\ \A i \in 1..n :
        PairIs(batch[2 * i], batch[2 * i + 1], m, id, order, ms[i], id + 2 * i - 1)

\* new_match makes a pair of trades of each match.
LEMMA OrderExecsAre ==
    ASSUME NEW m, NEW id \in Nat, NEW order, NEW ms, Len(ms) \in Nat
    PROVE  OrderBatch(OrderExecs(m, id, order, ms), Len(ms), m, id, order, ms)
<1>1. PICK n \in Nat : n = Len(ms)
  OBVIOUS
<1>2. PICK batch : batch = OrderExecs(m, id, order, ms)
  OBVIOUS
<1> DEFINE maker(i) ==
            TradeExec(NewExec(m, ms[i].id, ms[i].maker, id + 2*i - 1),
                      ms[i].lots, ms[i].lots * ms[i].ticks,
                      ms[i].lots, ms[i].ticks, id + 2*i, order.accnt)
           taker(i) ==
            TradeExec(NewExec(m, id, order, id + 2*i),
                      ms[i].sumLots, ms[i].sumCost,
                      ms[i].lots, ms[i].ticks, id + 2*i - 1,
                      ms[i].maker.accnt)
<1>3. batch = [k \in 1..(2 * n + 1) |->
                IF k = 1 THEN NewExec(m, id, order, id)
                ELSE IF k % 2 = 0 THEN maker(k \div 2) ELSE taker(k \div 2)]
  BY <1>1, <1>2 DEF OrderExecs
<1>4. DOMAIN batch = 1..(2 * n + 1) /\ Len(batch) = 2 * n + 1
  BY <1>3
<1>5. /\ batch[1].state = "New" /\ batch[1].market = m /\ batch[1].id = id
      /\ batch[1].orderId = id
  BY <1>3, SMTT(60) DEF NewExec
<1>6. ASSUME NEW i \in 1..n
      PROVE  PairIs(batch[2 * i], batch[2 * i + 1], m, id, order, ms[i], id + 2 * i - 1)
  <2>1. /\ 2 * i \in 1..(2 * n + 1) /\ 2 * i + 1 \in 1..(2 * n + 1)
        /\ 2 * i # 1 /\ 2 * i + 1 # 1
        /\ (2 * i) % 2 = 0 /\ (2 * i + 1) % 2 # 0
        /\ (2 * i) \div 2 = i /\ (2 * i + 1) \div 2 = i
    OBVIOUS
  <2>2. batch[2 * i] = maker(i) /\ batch[2 * i + 1] = taker(i)
    <3> HIDE DEF maker, taker
    <3> QED
      BY <1>3, <2>1
  <2>3. PICK e, f, next : e = maker(i) /\ f = taker(i) /\ next = id + 2 * i - 1
    OBVIOUS
  <2>4. next + 1 = id + 2 * i
    BY <2>3
  <2>5. /\ e.market = m /\ e.id = next /\ e.orderId = ms[i].id /\ e.state = "Trade"
        /\ e.accnt = ms[i].maker.accnt /\ e.side = ms[i].maker.side
        /\ e.ticks = ms[i].maker.ticks
        /\ e.lastLots = ms[i].lots /\ e.lastTicks = ms[i].ticks
        /\ e.matchId = next + 1 /\ e.cpty = order.accnt
    BY <2>3, <2>4 DEF TradeExec, NewExec
  <2>6. /\ f.market = m /\ f.id = next + 1 /\ f.orderId = id /\ f.state = "Trade"
        /\ f.accnt = order.accnt /\ f.side = order.side /\ f.ticks = order.ticks
        /\ f.lastLots = ms[i].lots /\ f.lastTicks = ms[i].ticks
        /\ f.matchId = next /\ f.cpty = ms[i].maker.accnt
    BY <2>3, <2>4 DEF TradeExec, NewExec
  <2> QED
    BY <2>2, <2>3, <2>5, <2>6 DEF PairIs
<1> QED
  BY <1>1, <1>2, <1>4, <1>5, <1>6 DEF OrderBatch

\* Each of them is the New exec or one of a pair.
LEMMA OneOfPair ==
    ASSUME NEW n \in Nat, NEW k \in 1..(2 * n + 1)
    PROVE  k = 1 \/ \E i \in 1..n : k = 2 * i \/ k = 2 * i + 1
<1>1. k = 2 * (k \div 2) + (k % 2) /\ (k % 2) \in {0, 1} /\ k \div 2 \in Nat
  OBVIOUS
<1>2. CASE k \div 2 = 0
  BY <1>1, <1>2
<1>3. CASE k \div 2 # 0
  <2>1. k \div 2 \in 1..n
    BY <1>1, <1>3
  <2> QED
    BY <1>1, <2>1
<1> QED
  BY <1>2, <1>3

\* The exec has this id; an exec that is New has the id of its order.
IsNext(e, m, id) ==
    e.market = m /\ e.id = id /\ (e.state = "New" => e.orderId = id)

\* They have the next ids of the market.
LEMMA OrderIds ==
    ASSUME NEW batch, NEW n, NEW m, NEW id \in Nat, NEW order, NEW ms,
           OrderBatch(batch, n, m, id, order, ms), NEW k \in 1..Len(batch)
    PROVE  IsNext(batch[k], m, (id - 1) + k)
<1>1. n \in Nat /\ k \in 1..(2 * n + 1)
  BY DEF OrderBatch
<1>2. CASE k = 1
  <2>1. (id - 1) + k = id
    BY <1>2
  <2> QED
    BY <1>2, <2>1 DEF OrderBatch, IsNext
<1>3. ASSUME NEW i \in 1..n
      PROVE  /\ IsNext(batch[2 * i], m, (id - 1) + 2 * i)
             /\ IsNext(batch[2 * i + 1], m, (id - 1) + (2 * i + 1))
  <2>1. PairIs(batch[2 * i], batch[2 * i + 1], m, id, order, ms[i], id + 2 * i - 1)
    BY DEF OrderBatch
  <2>2. (id + 2 * i - 1) + 1 = (id - 1) + (2 * i + 1) /\ id + 2 * i - 1 = (id - 1) + 2 * i
    BY <1>1
  <2> QED
    BY <2>1, <2>2 DEF PairIs, IsNext
<1>4. k = 1 \/ \E i \in 1..n : k = 2 * i \/ k = 2 * i + 1
  BY <1>1, OneOfPair
<1> QED
  BY <1>2, <1>3, <1>4

-----------------------------------------------------------------------------
(* Which execs a step posts. *)

\* The step posts the first n execs of a batch, which have the next ids of the
\* market m, and it takes these ids.
PostsNext(m, batch, n) ==
    /\ m \in DOMAIN markets /\ markets[m].maxId \in Nat
    /\ PostsFirst(batch, n) /\ Len(batch) \in Nat
    /\ \A k \in 1..Len(batch) : IsNext(batch[k], m, markets[m].maxId + k)
    /\ markets'[m].maxId \in Nat /\ markets[m].maxId + n =< markets'[m].maxId

PostsExecs == PostsNoExec \/ \E m, batch, n : PostsNext(m, batch, n)

\* Nothing is posted.
LEMMA NothingPosted ==
    ASSUME out' = <<>>
    PROVE  PostsExecs
BY DEF PostsExecs, PostsNoExec

\* A batch with the next ids of its market is posted as far as the queue takes it.
LEMMA NextPosted ==
    ASSUME EngineInv, NEW m \in DOMAIN markets, NEW batch, NEW c \in Nat,
           Len(batch) = c, DOMAIN batch = 1..c,
           \A k \in 1..c : IsNext(batch[k], m, markets[m].maxId + k),
           out' = ExecMsgs(batch) \/ QueueFails(ExecMsgs(batch)),
           markets'[m].maxId = markets[m].maxId + c
    PROVE  PostsExecs
<1>1. PICK n \in 0..c : PostsFirst(batch, n)
  <2>1. c \in 0..c
    OBVIOUS
  <2> QED
    BY <2>1, ExecsPosted
<1>2. markets[m].maxId \in Nat
  BY TheMarket DEF EngineInv
<1>3. markets'[m].maxId \in Nat /\ markets[m].maxId + n =< markets'[m].maxId
  BY <1>1, <1>2
<1>4. PostsNext(m, batch, n)
  BY <1>1, <1>2, <1>3 DEF PostsNext
<1> QED
  BY <1>4 DEF PostsExecs

\* What the execs of an order that passes are.
LEMMA NewOrderBatch ==
    ASSUME EngineInv, NEW a, NEW m, NEW ref, NEW side, NEW lots, NEW ticks, NEW minLots,
           NEW id, NEW order, NEW ms,
           NewOrder(a, m, ref, side, lots, ticks, minLots, id, order, ms)
    PROVE  /\ OrderBatch(OrderExecs(m, id, order, ms), Len(ms), m, id, order, ms)
           /\ id \in Nat /\ id - 1 = markets[m].maxId /\ m \in DOMAIN markets
<1>1. m \in DOMAIN markets /\ id = markets[m].maxId + 1
  BY DEF NewOrder
<1>2. markets[m].maxId \in Nat
  BY <1>1, TheMarket DEF EngineInv
<1>3. Len(ms) \in Nat
  BY NewOrderArrives
<1>4. id \in Nat /\ id - 1 = markets[m].maxId
  BY <1>1, <1>2
<1> QED
  BY <1>1, <1>3, <1>4, OrderExecsAre

\* create_order.
LEMMA NewOrderPosts ==
    ASSUME EngineInv, NEW m, NEW id, NEW order, NEW ms,
           IsBooked(m, id, order, ms) \/ IsUndone(m, id, order, ms)
    PROVE  PostsExecs
<1>1. PICK a, ref, side, lots, ticks, minLots :
            /\ NewOrder(a, m, ref, side, lots, ticks, minLots, id, order, ms)
            /\ OrderBooked(a, m, side, id, order, ms) \/ OrderUndone(a, m, side, id, order, ms)
  BY DEF IsBooked, IsUndone
<1>2. PICK batch : batch = OrderExecs(m, id, order, ms)
  OBVIOUS
<1>3. /\ OrderBatch(batch, Len(ms), m, id, order, ms)
      /\ id \in Nat /\ id - 1 = markets[m].maxId /\ m \in DOMAIN markets
  BY <1>1, <1>2, NewOrderBatch
<1>4. PICK c \in Nat : c = Len(batch) /\ DOMAIN batch = 1..c
  BY <1>3 DEF OrderBatch
<1>5. \A k \in 1..c : IsNext(batch[k], m, markets[m].maxId + k)
  BY <1>3, <1>4, OrderIds
<1>6. out' = ExecMsgs(batch) \/ QueueFails(ExecMsgs(batch))
  BY <1>1, <1>2 DEF OrderBooked, OrderUndone, Post
<1>7. markets[m] \in Market
  BY <1>3, TheMarket DEF EngineInv
<1>8. markets'[m].maxId = markets[m].maxId + c
  BY <1>1, <1>2, <1>3, <1>4, <1>7 DEF OrderBooked, OrderUndone, Market
<1> QED
  BY <1>3, <1>4, <1>5, <1>6, <1>8, NextPosted

\* revise_order and cancel_order.
LEMMA ChangePosts ==
    ASSUME EngineInv, IsChange
    PROVE  PostsExecs
<1>2. ASSUME NEW a, NEW m, NEW ids, NEW bad, NEW batch, NEW after,
             GoodChange(a, m, ids, bad, batch, after),
             ChangeOrders(m, ids, bad, batch, after)
      PROVE  PostsExecs
  <2>1. m \in DOMAIN markets /\ markets[m] \in Market
    BY <1>2, TheMarket DEF GoodChange, EngineInv
  <2>2. PICK c \in Nat : c = Len(ids) /\ batch = [k \in 1..c |-> batch[k]]
    BY <1>2 DEF GoodChange
  <2>3. Len(batch) = c /\ DOMAIN batch = 1..c
    BY <2>2
  <2>4. ASSUME bad = {},
               out' = ExecMsgs(batch) \/ QueueFails(ExecMsgs(batch)),
               markets' = [markets EXCEPT ![m].maxId = @ + c]
        PROVE  PostsExecs
    <3>1. \A k \in 1..c : ExecIs(batch[k], a, m, markets[m].maxId + k, 0, 0)
      BY <1>2, <2>2, <2>4 DEF GoodChange
    <3>2. \A k \in 1..c : IsNext(batch[k], m, markets[m].maxId + k)
      <4>1. \A k \in 1..c : batch[k].state # "New"
        BY <1>2, <2>2, <2>4 DEF GoodChange
      <4> QED
        BY <3>1, <4>1 DEF ExecIs, IsNext
    <3>3. markets'[m].maxId = markets[m].maxId + c
      BY <2>1, <2>4 DEF Market
    <3> QED
      BY <2>1, <2>3, <2>4, <3>2, <3>3, NextPosted
  <2>5. CASE ChangeFailed(m, ids, bad, batch)
    <3>1. \/ out' = <<>>
          \/ /\ bad = {} /\ QueueFails(ExecMsgs(batch))
             /\ markets' = [markets EXCEPT ![m].maxId = @ + c]
      BY <2>2, <2>5 DEF ChangeFailed, FailAfterIds, MemoryFails
    <3> QED
      BY <2>4, <3>1, NothingPosted
  <2>6. CASE bad = {} /\ ChangeBooked(m, ids, batch, after)
    BY <2>2, <2>4, <2>6 DEF ChangeBooked, Post
  <2>7. CASE bad = {} /\ ChangeAborted(m, ids, batch)
    BY <2>2, <2>4, <2>7 DEF ChangeAborted
  <2> QED
    BY <1>2, <2>5, <2>6, <2>7, ChangeOrdersIs
<1> QED
  BY <1>2 DEF IsChange

\* create_trade.
LEMMA ManualPosts ==
    ASSUME EngineInv, IsManual
    PROVE  PostsExecs
<1>1. PICK a \in Accnts, m \in DOMAIN markets, side \in Sides, lots \in 1..MaxLots,
           ticks \in 1..MaxTicks, cpty \in Accnts \union {NoAccnt} :
                CreateTrade(a, m, side, lots, ticks, cpty)
  BY DEF IsManual
<1>2. PICK id, batch, newPosns :
        /\ id = markets[m].maxId + 1
        /\ batch = ManualTrades(a, m, id, side, lots, ticks, cpty)
        /\ newPosns = EnsurePosns(posns, {a, cpty}, m)
  OBVIOUS
<1>3. TradeBooked(m, batch, newPosns) \/ TradeFailed(a, m, batch, newPosns)
  BY <1>1, <1>2, CreateTradeIs
<1>4. PICK t, o : /\ t = ManualExec(a, m, id, NoRef, side, lots, ticks, cpty)
                  /\ o = OppositeExec(t, id + 1)
  OBVIOUS
<1>5. /\ ExecIs(t, a, m, id, lots, ticks) /\ ExecIs(o, cpty, m, id + 1, lots, ticks)
      /\ t.state = "Trade" /\ o.state = "Trade"
  <2>1. t.state = "Trade"
    BY <1>4 DEF ManualExec
  <2>2. o.state = t.state
    BY <1>4 DEF ManualExec, OppositeExec
  <2> QED
    BY <1>4, <2>1, <2>2, ManualExecIs
<1>6. batch = <<t>> \/ batch = <<t, o>>
  BY <1>2, <1>4 DEF ManualTrades
<1>7. markets[m] \in Market /\ markets[m].maxId \in Nat
  BY TheMarket DEF EngineInv
<1>8. PICK c \in {1, 2} : /\ Len(batch) = c /\ DOMAIN batch = 1..c
                          /\ batch[1] = t /\ (c = 2 => batch[2] = o)
  BY <1>6
<1>9. \A k \in 1..c : IsNext(batch[k], m, markets[m].maxId + k)
  <2>1. IsNext(t, m, markets[m].maxId + 1)
    BY <1>2, <1>5 DEF ExecIs, IsNext
  <2>2. IsNext(o, m, markets[m].maxId + 2)
    BY <1>2, <1>5, <1>7 DEF ExecIs, IsNext
  <2> QED
    BY <1>8, <2>1, <2>2
<1>10. CASE out' = <<>>
  BY <1>10, NothingPosted
<1>11. ASSUME out' = ExecMsgs(batch) \/ QueueFails(ExecMsgs(batch)),
              markets' = [markets EXCEPT ![m].maxId = @ + Len(batch)]
       PROVE  PostsExecs
  <2>1. markets'[m].maxId = markets[m].maxId + c
    BY <1>7, <1>8, <1>11 DEF Market
  <2> QED
    BY <1>8, <1>9, <1>11, <2>1, NextPosted
<1> QED
  BY <1>3, <1>10, <1>11 DEF TradeBooked, TradeFailed, FailAfterIds, MemoryFails, Post

\* Every step posts execs with the next ids of one market, or none.
LEMMA StepPosts ==
    ASSUME EngineInv, Next
    PROVE  PostsExecs
BY StepKinds, NewOrderPosts, ChangePosts, ManualPosts DEF Quiet, PostsExecs

\* Execs have ids of their own, greater than all that their market gave out
\* before (Market::alloc_id).
THEOREM IdsHold == Spec => IdsAreFresh
<1>1. ASSUME EngineInv, Next
      PROVE  /\ \A e \in Sent : e.id > markets[e.market].maxId
                                /\ e.id =< markets'[e.market].maxId
             /\ \A i, j \in DOMAIN out' :
                    i # j /\ out'[i].type = "CreateExec" /\ out'[j].type = "CreateExec"
                    /\ out'[i].exec.market = out'[j].exec.market
                        => out'[i].exec.id # out'[j].exec.id
  <2>1. CASE PostsNoExec
    BY <2>1 DEF PostsNoExec, Sent
  <2>2. ASSUME NEW m, NEW batch, NEW n, PostsNext(m, batch, n)
        PROVE  /\ \A e \in Sent : e.id > markets[e.market].maxId
                                  /\ e.id =< markets'[e.market].maxId
               /\ \A i, j \in DOMAIN out' : i # j => out'[i].exec.id # out'[j].exec.id
    <3>1. PICK last \in Nat, next \in Nat :
            /\ last = markets[m].maxId /\ next = markets'[m].maxId /\ last + n =< next
            /\ n \in Nat /\ n =< Len(batch) /\ Len(batch) \in Nat
      BY <2>2 DEF PostsNext, PostsFirst
    <3>2. \A k \in 1..n : batch[k].market = m /\ batch[k].id = last + k
      BY <2>2, <3>1 DEF PostsNext, IsNext
    <3>3. Sent = {batch[k] : k \in 1..n}
      BY <2>2, SentAre DEF PostsNext
    <3>4. ASSUME NEW e \in Sent
          PROVE  e.id > markets[e.market].maxId /\ e.id =< markets'[e.market].maxId
      <4>1. PICK k \in 1..n : e = batch[k]
        BY <3>3
      <4>2. e.market = m /\ e.id = last + k /\ last + k > last /\ last + k =< next
        BY <3>1, <3>2, <4>1, SMTT(60)
      <4> QED
        BY <3>1, <4>2
    <3>5. DOMAIN out' = 1..n /\ \A k \in 1..n : out'[k].exec = batch[k]
      BY <2>2 DEF PostsNext, PostsFirst
    <3>6. \A i, j \in 1..n : i # j => last + i # last + j
      BY <3>1
    <3> QED
      BY <3>2, <3>4, <3>5, <3>6
  <2> QED
    BY <1>1, <2>1, <2>2, StepPosts DEF PostsExecs
<1>2. EngineInv /\ [Next]_vars =>
        [/\ \A e \in Sent : e.id > markets[e.market].maxId
                            /\ e.id =< markets'[e.market].maxId
         /\ \A i, j \in DOMAIN out' :
                i # j /\ out'[i].type = "CreateExec" /\ out'[j].type = "CreateExec"
                /\ out'[i].exec.market = out'[j].exec.market
                    => out'[i].exec.id # out'[j].exec.id]_vars
  BY <1>1
<1> QED
  BY <1>2, InvHolds, PTL DEF Spec, IdsAreFresh

-----------------------------------------------------------------------------
(* Matches are fair. *)

\* An order that stands before one that trades keeps nothing: match_orders goes
\* through the list from its front.
LEMMA EarlierMakers ==
    ASSUME NEW b, NEW os, NEW id, NEW order, NEW ms, Arrival(b, os, id, order, ms),
           NEW i \in 1..Len(ms), NEW y \in OnSide(os, Opposite(order.side)),
           Before(os, y, ms[i].id)
    PROVE  y \in DoneMakers(ms)
<1>1. PICK s : s = b[Opposite(order.side)]
  OBVIOUS
<1>2. /\ ToSet(s.list) = OnSide(os, Opposite(order.side))
      /\ Meets(order, s, os, ms)
  BY <1>1, ArrivalMeets
<1>3. PICK list \in Seq(Nat) : list = s.list
  BY <1>2 DEF Meets, Offered
<1>4. /\ DOMAIN list = 1..Len(list) /\ Len(list) \in Nat
      /\ \A k \in DOMAIN list : list[k] \in ToSet(list)
      /\ \A x \in ToSet(list) : \E k \in DOMAIN list : x = list[k]
  BY OnList
<1>5. /\ MatchesFit(order, list, os, ms) /\ InOrder(list, os)
      /\ Priced(ToSet(list), os)
      /\ ToSet(list) = OnSide(os, Opposite(order.side))
  BY <1>2, <1>3 DEF Meets, BookSide
<1>6. PICK n \in Nat : n = Len(ms) /\ n =< Len(list) /\ DOMAIN ms = 1..n
  <2>1. ms = [k \in 1..Len(ms) |-> ms[k]] /\ Len(ms) \in 0..Len(list)
    BY <1>5 DEF MatchesFit
  <2> QED
    BY <1>4, <2>1
<1>7. PICK j \in 1..Len(list) : y = list[j]
  BY <1>4, <1>5
<1>8. ms[i].id = list[i] /\ i \in 1..n /\ i \in 1..Len(list) /\ i \in Nat
  <2>1. MatchFits(order, list, os, ms, i)
    BY <1>5 DEF MatchesFit
  <2> QED
    BY <1>4, <1>6, <2>1 DEF MatchFits
<1>9. LevelKey(os[y]) \in Int /\ LevelKey(os[list[i]]) \in Int /\ y \in Nat /\ list[i] \in Nat
  <2>1. list[i] \in ToSet(list) /\ list[i] \in Nat /\ y \in ToSet(list) /\ list[j] \in Nat
    BY <1>4, <1>7, <1>8
  <2> QED
    BY <1>5, <1>7, <2>1 DEF Priced
<1>10. j < i
  <2>1. CASE j = i
    BY <1>7, <1>8, <1>9, <2>1 DEF Before
  <2>2. CASE i < j
    <3>1. Before(os, list[i], y)
      BY <1>4, <1>5, <1>7, <1>8, <2>2 DEF InOrder
    <3> QED
      BY <1>8, <1>9, <3>1 DEF Before
  <2> QED
    BY <1>7, <1>8, <2>1, <2>2
<1>11. j \in 1..Len(ms) /\ j < Len(ms) /\ j \in DOMAIN ms
  BY <1>6, <1>8, <1>10
<1>12. MatchFits(order, list, os, ms, j)
  BY <1>5, <1>11 DEF MatchesFit
<1>13. ms[j].id = y /\ ms[j].lots = ms[j].maker.resd
  BY <1>7, <1>11, <1>12 DEF MatchFits
<1> QED
  BY <1>11, <1>13 DEF DoneMakers

\* What an order that is committed posts.
LEMMA BookedPosts ==
    ASSUME EngineInv, NEW m, NEW id, NEW order, NEW ms, IsBooked(m, id, order, ms)
    PROVE  \E batch : /\ OrderBatch(batch, Len(ms), m, id, order, ms)
                      /\ out' = ExecMsgs(batch)
                      /\ Sent = {batch[k] : k \in 1..(2 * Len(ms) + 1)}
                      /\ Arrival(books[m], orders[m], id, order, ms)
                      /\ Len(ms) \in Nat
<1>1. PICK a, ref, side, lots, ticks, minLots :
            /\ NewOrder(a, m, ref, side, lots, ticks, minLots, id, order, ms)
            /\ OrderBooked(a, m, side, id, order, ms)
  BY DEF IsBooked
<1>2. PICK batch : batch = OrderExecs(m, id, order, ms)
  OBVIOUS
<1>3. OrderBatch(batch, Len(ms), m, id, order, ms)
  BY <1>1, <1>2, NewOrderBatch
<1>4. out' = ExecMsgs(batch)
  BY <1>1, <1>2 DEF OrderBooked, Post
<1>5. Arrival(books[m], orders[m], id, order, ms) /\ Len(ms) \in Nat
  BY <1>1, NewOrderArrives
<1>6. Len(batch) = 2 * Len(ms) + 1 /\ Len(batch) \in Nat /\ DOMAIN batch = 1..Len(batch)
  BY <1>3, <1>5 DEF OrderBatch
<1>7. PostsFirst(batch, Len(batch))
  BY <1>4, <1>6, ExecsPosted
<1>8. Sent = {batch[k] : k \in 1..Len(batch)}
  BY <1>7, SentAre
<1> QED
  BY <1>3, <1>4, <1>5, <1>6, <1>8

\* The orders of its market then.
LEMMA BookedOrders ==
    ASSUME EngineInv, NEW m, NEW id, NEW order, NEW ms, IsBooked(m, id, order, ms)
    PROVE  /\ DOMAIN orders' = DOMAIN orders /\ m \in DOMAIN orders
           /\ \A x \in DOMAIN orders \ {m} : orders'[x] = orders[x]
           /\ orders'[m] = TradedOrders(orders[m], ms, Rest(id, order, ms))
           /\ DOMAIN orders'[m]
                = (DOMAIN orders[m] \ DoneMakers(ms)) \union DOMAIN Rest(id, order, ms)
<1>1. PICK a, ref, side, lots, ticks, minLots :
            /\ NewOrder(a, m, ref, side, lots, ticks, minLots, id, order, ms)
            /\ OrderBooked(a, m, side, id, order, ms)
  BY DEF IsBooked
<1>2. m \in DOMAIN orders
  BY <1>1, NewOrderArrives
<1>3. orders' = [orders EXCEPT ![m] = TradedOrders(orders[m], ms, Rest(id, order, ms))]
  BY <1>1 DEF OrderBooked
<1> QED
  BY <1>2, <1>3 DEF TradedOrders

\* Each trade of it is one of a pair.
OneOfMatch(e, batch, n, m, id, order, ms, i) ==
    /\ e = batch[2 * i] \/ e = batch[2 * i + 1]
    /\ PairIs(batch[2 * i], batch[2 * i + 1], m, id, order, ms[i], id + 2 * i - 1)
    /\ 2 * i \in 1..(2 * n + 1) /\ 2 * i + 1 \in 1..(2 * n + 1)

\* The trades of a new order are those of its matches (new_match).
LEMMA BookedTrades ==
    ASSUME NEW batch, NEW n, NEW m, NEW id, NEW order, NEW ms,
           OrderBatch(batch, n, m, id, order, ms),
           NEW e, e \in {batch[k] : k \in 1..(2 * n + 1)}, e.state = "Trade"
    PROVE  \E i \in 1..n : OneOfMatch(e, batch, n, m, id, order, ms, i)
<1>1. n \in Nat /\ batch[1].state # "Trade"
  BY DEF OrderBatch
<1>2. PICK k \in 1..(2 * n + 1) : e = batch[k]
  OBVIOUS
<1>3. k # 1
  BY <1>1, <1>2
<1>4. PICK i \in 1..n : k = 2 * i \/ k = 2 * i + 1
  BY <1>1, <1>3, OneOfPair
<1>5. 2 * i \in 1..(2 * n + 1) /\ 2 * i + 1 \in 1..(2 * n + 1)
  BY <1>1
<1> QED
  BY <1>2, <1>4, <1>5 DEF OrderBatch, OneOfMatch

\* An operation that succeeds posts all execs of its batch.
LEMMA OkSent ==
    ASSUME NEW batch, Len(batch) \in Nat, DOMAIN batch = 1..Len(batch),
           out' = ExecMsgs(batch)
    PROVE  Sent = {batch[k] : k \in 1..Len(batch)}
BY ExecsPosted, SentAre

\* A change to orders that succeeds, and what it posts.
LEMMA ChangeOkIs ==
    ASSUME res' = "ok", IsChange
    PROVE  \E a, m, ids, batch, after :
                /\ GoodChange(a, m, ids, {}, batch, after)
                /\ ~Stale(ids, after)
                /\ ChangeBooked(m, ids, batch, after)
                /\ Sent = {batch[k] : k \in 1..Len(ids)}
                /\ Len(batch) = Len(ids) /\ DOMAIN batch = 1..Len(ids)
<1>1. PICK a, m, ids, bad, batch, after :
        GoodChange(a, m, ids, bad, batch, after) /\ ChangeOrders(m, ids, bad, batch, after)
  BY DEF IsChange
<1>2. ~ChangeFailed(m, ids, bad, batch) /\ ~ChangeAborted(m, ids, batch)
  BY DEF ChangeFailed, ChangeAborted, FailAfterIds
<1>3. bad = {} /\ ~Stale(ids, after) /\ ChangeBooked(m, ids, batch, after)
  BY <1>1, <1>2, ChangeOrdersIs
<1>4. batch = [k \in 1..Len(ids) |-> batch[k]] /\ Len(ids) \in Nat
  BY <1>1 DEF GoodChange
<1>5. Len(batch) = Len(ids) /\ DOMAIN batch = 1..Len(ids)
  BY <1>4
<1>6. out' = ExecMsgs(batch)
  BY <1>3 DEF ChangeBooked, Post
<1>7. Sent = {batch[k] : k \in 1..Len(ids)}
  BY <1>4, <1>5, <1>6, OkSent
<1> QED
  BY <1>1, <1>3, <1>5, <1>7, Zenon

\* A manual trade that is committed.
ManualBooked(a, m, id, side, lots, ticks, cpty, batch) ==
    /\ a \in Accnts /\ m \in DOMAIN markets /\ id \in 1..MaxId /\ side \in Sides
    /\ lots \in 1..MaxLots /\ ticks \in 1..MaxTicks /\ cpty \in Accnts \union {NoAccnt}
    /\ batch = ManualTrades(a, m, id, side, lots, ticks, cpty)
    /\ id = markets[m].maxId + 1 /\ id + 1 \in 1..MaxId
    /\ TradeBooked(m, batch, EnsurePosns(posns, {a, cpty}, m))

\* One that succeeds.
LEMMA ManualOkIs ==
    ASSUME EngineInv, res' = "ok", IsManual
    PROVE  \E a, m, id, side, lots, ticks, cpty, batch :
                ManualBooked(a, m, id, side, lots, ticks, cpty, batch)
<1>1. PICK a \in Accnts, m \in DOMAIN markets, side \in Sides, lots \in 1..MaxLots,
           ticks \in 1..MaxTicks, cpty \in Accnts \union {NoAccnt} :
                CreateTrade(a, m, side, lots, ticks, cpty)
  BY DEF IsManual
<1>2. PICK id, batch, newPosns :
        /\ id = markets[m].maxId + 1
        /\ batch = ManualTrades(a, m, id, side, lots, ticks, cpty)
        /\ newPosns = EnsurePosns(posns, {a, cpty}, m)
  OBVIOUS
<1>3. /\ TradeBooked(m, batch, newPosns) \/ TradeFailed(a, m, batch, newPosns)
      /\ id + 1 =< MaxId
  BY <1>1, <1>2, CreateTradeIs
<1>4. ~TradeFailed(a, m, batch, newPosns)
  BY DEF TradeFailed, FailAfterIds
<1>5. markets[m].maxId \in Nat
  BY TheMarket DEF EngineInv
<1>6. id \in 1..MaxId /\ id + 1 \in 1..MaxId
  BY <1>2, <1>3, <1>5, EngineAssumption
<1>7. ManualBooked(a, m, id, side, lots, ticks, cpty, batch)
  BY <1>1, <1>2, <1>3, <1>4, <1>6 DEF ManualBooked
<1> QED
  BY <1>7, Zenon

\* What the trades of create_trade say: the first trade, and its opposite.
ManualIs(e, id, a, m, side, lots, ticks, cpty) ==
    /\ e.orderId = 0 /\ e.state = "Trade" /\ e.market = m /\ e.id = id
    /\ e.accnt = a /\ e.side = side /\ e.cpty = cpty
    /\ e.lastLots = lots /\ e.lastTicks = ticks

\* create_trade makes one trade, or two that are opposite.
LEMMA ManualTradesAre ==
    ASSUME NEW a, NEW m, NEW id, NEW side, NEW lots, NEW ticks, NEW cpty, NEW batch,
           batch = ManualTrades(a, m, id, side, lots, ticks, cpty)
    PROVE  \/ /\ cpty = NoAccnt /\ Len(batch) = 1 /\ DOMAIN batch = 1..1
              /\ ManualIs(batch[1], id, a, m, side, lots, ticks, NoAccnt)
           \/ /\ cpty # NoAccnt /\ Len(batch) = 2 /\ DOMAIN batch = 1..2
              /\ ManualIs(batch[1], id, a, m, side, lots, ticks, cpty)
              /\ ManualIs(batch[2], id + 1, cpty, m, Opposite(side), lots, ticks, a)
<1>1. PICK t, o : /\ t = ManualExec(a, m, id, NoRef, side, lots, ticks, cpty)
                  /\ o = OppositeExec(t, id + 1)
  OBVIOUS
<1>2. ManualIs(t, id, a, m, side, lots, ticks, cpty)
  BY <1>1 DEF ManualExec, ManualIs
<1>3. ManualIs(o, id + 1, cpty, m, Opposite(side), lots, ticks, a)
  <2>1. t = [accnt |-> a, market |-> m, id |-> id, orderId |-> 0, ref |-> NoRef,
             state |-> "Trade", side |-> side, lots |-> lots, ticks |-> ticks,
             resd |-> 0, exec |-> lots, cost |-> lots * ticks, minLots |-> 1,
             lastLots |-> lots, lastTicks |-> ticks, matchId |-> 0, cpty |-> cpty]
    BY <1>1 DEF ManualExec
  <2>2. o = [t EXCEPT !.accnt = t.cpty, !.id = id + 1, !.side = Opposite(t.side),
                      !.cpty = t.accnt]
    BY <1>1 DEF OppositeExec
  <2>3. t.side = side /\ t.cpty = cpty /\ t.accnt = a
    BY <2>1
  <2> QED
    BY <2>1, <2>2, <2>3 DEF ManualIs
<1>4. CASE cpty = NoAccnt
  <2>1. batch = <<t>>
    BY <1>1, <1>4 DEF ManualTrades
  <2> QED
    BY <1>2, <1>4, <2>1
<1>5. CASE cpty # NoAccnt
  <2>1. batch = <<t, o>>
    BY <1>1, <1>5 DEF ManualTrades
  <2> QED
    BY <1>2, <1>3, <1>5, <2>1
<1> QED
  BY <1>4, <1>5

\* Only create_order makes trades of orders.
LEMMA OnlyOrdersMatch ==
    ASSUME EngineInv, res' = "ok", Quiet \/ IsChange \/ IsManual,
           NEW e \in SentTrades
    PROVE  e.orderId = 0
<1>1. CASE Quiet
  BY <1>1 DEF Quiet, PostsNoExec, Sent, SentTrades
<1>2. CASE IsChange
  <2>1. PICK a, m, ids, batch, after :
                /\ GoodChange(a, m, ids, {}, batch, after)
                /\ Sent = {batch[k] : k \in 1..Len(ids)}
    BY <1>2, ChangeOkIs
  <2>2. \A k \in 1..Len(ids) : batch[k].state # "Trade"
    BY <2>1 DEF GoodChange
  <2> QED
    BY <2>1, <2>2 DEF SentTrades
<1>3. CASE IsManual
  <2>1. PICK a, m, id, side, lots, ticks, cpty, batch :
                ManualBooked(a, m, id, side, lots, ticks, cpty, batch)
    BY <1>3, ManualOkIs, Zenon
  <2>2. /\ Len(batch) \in Nat /\ DOMAIN batch = 1..Len(batch)
        /\ \A k \in 1..Len(batch) : batch[k].orderId = 0
    BY <2>1, ManualTradesAre DEF ManualBooked, ManualIs
  <2>3. out' = ExecMsgs(batch)
    BY <2>1 DEF ManualBooked, TradeBooked, Post
  <2>4. Sent = {batch[k] : k \in 1..Len(batch)}
    BY <2>2, <2>3, OkSent
  <2> QED
    BY <2>2, <2>4 DEF SentTrades
<1> QED
  BY <1>1, <1>2, <1>3

\* The trade e has its other side among the trades that are posted with it.
HasPair(e) ==
    \E f \in SentTrades :
        /\ f.id = e.matchId /\ f.matchId = e.id
        /\ f.market = e.market /\ f.cpty = e.accnt /\ e.cpty = f.accnt
        /\ f.side = Opposite(e.side)
        /\ f.lastLots = e.lastLots /\ f.lastTicks = e.lastTicks

\* new_match makes two sides.
LEMMA BookedPairs ==
    ASSUME EngineInv, NEW m, NEW id, NEW order, NEW ms, IsBooked(m, id, order, ms),
           NEW e \in SentTrades
    PROVE  HasPair(e)
<1>1. PICK batch : /\ OrderBatch(batch, Len(ms), m, id, order, ms)
                   /\ Sent = {batch[k] : k \in 1..(2 * Len(ms) + 1)}
                   /\ Arrival(books[m], orders[m], id, order, ms)
  BY BookedPosts
<1>2. e \in {batch[k] : k \in 1..(2 * Len(ms) + 1)} /\ e.state = "Trade"
  BY <1>1 DEF SentTrades
<1>3. PICK i \in 1..Len(ms) : OneOfMatch(e, batch, Len(ms), m, id, order, ms, i)
  BY <1>1, <1>2, BookedTrades
<1>4. PICK p, q, x, next : /\ p = batch[2 * i] /\ q = batch[2 * i + 1] /\ x = ms[i]
                           /\ next = id + 2 * i - 1
  OBVIOUS
<1>5. p \in Sent /\ q \in Sent
  BY <1>1, <1>3, <1>4 DEF OneOfMatch
<1>6. PairIs(p, q, m, id, order, x, next)
  BY <1>3, <1>4 DEF OneOfMatch
<1>7. x.maker.side = Opposite(order.side) /\ Opposite(x.maker.side) = order.side
  <2>1. PICK y : y = x.id /\ y \in OnSide(orders[m], Opposite(order.side))
                 /\ x.maker = orders[m][y]
    BY <1>1, <1>4, MakerIs
  <2>2. order.side \in Sides
    BY <1>1, OrderFields DEF Arrival, GoodOrder
  <2> QED
    BY <2>1, <2>2, SidesAre DEF OnSide
<1>8. p \in SentTrades /\ q \in SentTrades
  BY <1>5, <1>6 DEF SentTrades, PairIs
<1>9. CASE e = p
  BY <1>6, <1>7, <1>8, <1>9 DEF HasPair, PairIs
<1>10. CASE e = q
  BY <1>6, <1>7, <1>8, <1>10 DEF HasPair, PairIs
<1> QED
  BY <1>3, <1>4, <1>9, <1>10 DEF OneOfMatch

\* The two trades of a match name each other and agree (new_match).
THEOREM PairsHold == Spec => TradesComeInPairs
<1>1. ASSUME EngineInv, Next, res' = "ok", NEW e \in SentTrades, e.orderId # 0
      PROVE  HasPair(e)
  <2>1. ASSUME NEW m, NEW id, NEW order, NEW ms, IsUndone(m, id, order, ms)
        PROVE  FALSE
    BY <1>1, <2>1 DEF IsUndone, OrderUndone
  <2> QED
    BY <1>1, <2>1, StepKinds, OnlyOrdersMatch, BookedPairs
<1>2. EngineInv /\ [Next]_vars =>
        [res' = "ok" => \A e \in SentTrades : e.orderId # 0 =>
            \E f \in SentTrades :
                /\ f.id = e.matchId /\ f.matchId = e.id
                /\ f.market = e.market /\ f.cpty = e.accnt /\ e.cpty = f.accnt
                /\ f.side = Opposite(e.side)
                /\ f.lastLots = e.lastLots /\ f.lastTicks = e.lastTicks]_vars
  BY <1>1 DEF HasPair
<1> QED
  BY <1>2, InvHolds, PTL DEF Spec, TradesComeInPairs

\* The trade e is within the limit of its order, and no order that stands before
\* one that rests and trades keeps anything.
NotThrough(e) ==
    LET ords   == orders[e.market]
        before == {id \in DOMAIN ords :
                    /\ ords[id].side = e.side
                    /\ \/ LevelKey(ords[id]) < LevelKey(e)
                       \/ LevelKey(ords[id]) = LevelKey(e) /\ id < e.orderId}
    IN  /\ IF e.side = "Buy" THEN e.lastTicks =< e.ticks
           ELSE e.lastTicks >= e.ticks
        /\ e.orderId \in DOMAIN ords =>
            before \cap DOMAIN orders'[e.market] = {}

\* match_orders trades at the makers' prices, and takes the makers in order.
LEMMA BookedNotThrough ==
    ASSUME EngineInv, NEW m, NEW id, NEW order, NEW ms, IsBooked(m, id, order, ms),
           NEW e \in SentTrades
    PROVE  NotThrough(e)
<1>1. PICK batch : /\ OrderBatch(batch, Len(ms), m, id, order, ms)
                   /\ Sent = {batch[k] : k \in 1..(2 * Len(ms) + 1)}
                   /\ Arrival(books[m], orders[m], id, order, ms)
  BY BookedPosts
<1>2. e \in {batch[k] : k \in 1..(2 * Len(ms) + 1)} /\ e.state = "Trade"
  BY <1>1 DEF SentTrades
<1>3. PICK i \in 1..Len(ms) : OneOfMatch(e, batch, Len(ms), m, id, order, ms, i)
  BY <1>1, <1>2, BookedTrades
<1>4. PICK p, q, x, next : /\ p = batch[2 * i] /\ q = batch[2 * i + 1] /\ x = ms[i]
                           /\ next = id + 2 * i - 1
  OBVIOUS
<1>5. PairIs(p, q, m, id, order, x, next)
  BY <1>3, <1>4 DEF OneOfMatch
<1>6. PICK os, y : /\ os = orders[m] /\ y = x.id /\ y \in OnSide(os, Opposite(order.side))
                   /\ y \in DOMAIN os /\ x.maker = os[y] /\ x.ticks = os[y].ticks
                   /\ GoodOrder(os[y])
  BY <1>1, <1>4, MakerIs
<1>7. /\ order.side \in Sides /\ Opposite(order.side) \in Sides
      /\ order.ticks \in Nat /\ os[y].ticks \in Nat /\ os[y].side = Opposite(order.side)
  BY <1>1, <1>6, OrderFields, SidesAre DEF Arrival, GoodOrder, OnSide
<1>8. Crosses(order, os[y])
  <2>1. PICK s : s = books[m][Opposite(order.side)]
    OBVIOUS
  <2>2. MatchesFit(order, s.list, os, ms)
    BY <1>1, <1>6, <2>1, ArrivalMeets DEF Meets
  <2>3. MatchFits(order, s.list, os, ms, i)
    BY <2>2 DEF MatchesFit
  <2> QED
    BY <1>4, <1>6, <2>3 DEF MatchFits
<1>9. CASE e = q
  <2>1. e.side = order.side /\ e.lastTicks = os[y].ticks /\ e.ticks = order.ticks
        /\ e.orderId = id /\ e.market = m
    BY <1>5, <1>6, <1>9 DEF PairIs
  <2>2. IF e.side = "Buy" THEN e.lastTicks =< e.ticks ELSE e.lastTicks >= e.ticks
    BY <1>8, <2>1 DEF Crosses
  <2>3. id \notin DOMAIN os
    BY <1>1, <1>6 DEF Arrival, GoodOrders
  <2> QED
    BY <1>6, <2>1, <2>2, <2>3 DEF NotThrough
<1>10. CASE e = p
  <2>1. e.side = os[y].side /\ e.lastTicks = os[y].ticks /\ e.ticks = os[y].ticks
        /\ e.orderId = y /\ e.market = m
    BY <1>5, <1>6, <1>10 DEF PairIs
  <2>2. IF e.side = "Buy" THEN e.lastTicks =< e.ticks ELSE e.lastTicks >= e.ticks
    BY <1>7, <2>1
  <2>3. LevelKey(e) = LevelKey(os[y])
    BY <2>1 DEF LevelKey
  <2>4. DOMAIN orders'[m] = (DOMAIN os \ DoneMakers(ms)) \union DOMAIN Rest(id, order, ms)
    BY <1>6, BookedOrders
  <2>5. ASSUME NEW z \in DOMAIN os, os[z].side = e.side,
               \/ LevelKey(os[z]) < LevelKey(e)
               \/ LevelKey(os[z]) = LevelKey(e) /\ z < e.orderId
        PROVE  z \notin DOMAIN orders'[m]
    <3>1. z \in OnSide(os, Opposite(order.side))
      BY <1>7, <2>1, <2>5 DEF OnSide
    <3>2. Before(os, z, ms[i].id)
      BY <1>4, <1>6, <2>1, <2>3, <2>5 DEF Before
    <3>3. z \in DoneMakers(ms)
      BY <1>1, <1>6, <3>1, <3>2, EarlierMakers
    <3>4. z # id
      BY <1>1, <1>6 DEF Arrival, GoodOrders
    <3>5. DOMAIN Rest(id, order, ms) \subseteq {id}
      BY RestDomain
    <3> QED
      BY <2>4, <3>3, <3>4, <3>5
  <2>6. {z \in DOMAIN os : /\ os[z].side = e.side
                           /\ \/ LevelKey(os[z]) < LevelKey(e)
                              \/ LevelKey(os[z]) = LevelKey(e) /\ z < e.orderId}
            \cap DOMAIN orders'[m] = {}
    BY <2>5
  <2> QED
    BY <1>6, <2>1, <2>2, <2>6 DEF NotThrough
<1> QED
  BY <1>3, <1>4, <1>9, <1>10 DEF OneOfMatch

\* No order is traded through, at the price or at its place (match_orders).
THEOREM NoneTradedThrough == Spec => NoTradeThrough
<1>1. ASSUME EngineInv, Next, res' = "ok", NEW e \in SentTrades, e.orderId # 0
      PROVE  NotThrough(e)
  <2>1. ASSUME NEW m, NEW id, NEW order, NEW ms, IsUndone(m, id, order, ms)
        PROVE  FALSE
    BY <1>1, <2>1 DEF IsUndone, OrderUndone
  <2> QED
    BY <1>1, <2>1, StepKinds, OnlyOrdersMatch, BookedNotThrough
<1>2. EngineInv /\ [Next]_vars =>
        [res' = "ok" => \A e \in SentTrades : e.orderId # 0 => NotThrough(e)]_vars
  BY <1>1
<1>3. EngineInv /\ [Next]_vars =>
        [res' = "ok" => \A e \in SentTrades : e.orderId # 0 =>
            LET ords   == orders[e.market]
                before == {id \in DOMAIN ords :
                            /\ ords[id].side = e.side
                            /\ \/ LevelKey(ords[id]) < LevelKey(e)
                               \/ LevelKey(ords[id]) = LevelKey(e) /\ id < e.orderId}
            IN  /\ IF e.side = "Buy" THEN e.lastTicks =< e.ticks
                   ELSE e.lastTicks >= e.ticks
                /\ e.orderId \in DOMAIN ords =>
                    before \cap DOMAIN orders'[e.market] = {}]_vars
  BY <1>2, Zenon DEF NotThrough
<1> QED
  BY <1>3, InvHolds, PTL DEF Spec, NoTradeThrough

\* What a match promises: price and time, two sides, ids of its own.
THEOREM MatchesHold == Spec => MatchesAreFair
BY NoneTradedThrough, PairsHold, IdsHold, PTL DEF MatchesAreFair

-----------------------------------------------------------------------------
(* Replaying messages. *)

\* The recursive function behind Replayed.
IsReplayed(f, n, ords, msgs) ==
    f = [k \in 0..n |-> IF k = 0 THEN ords ELSE Applied(f[k - 1], msgs[k])]

\* It exists.
LEMMA ReplayedExists ==
    ASSUME NEW ords, NEW msgs, NEW n \in Nat
    PROVE  \E f : IsReplayed(f, n, ords, msgs)
<1> DEFINE Good == {i \in Nat : \E f : IsReplayed(f, i, ords, msgs)}
           g(i, t) == Applied(t, msgs[i])
<1> HIDE DEF g
<1>1. \A f, i : IsReplayed(f, i, ords, msgs)
                    <=> f = [k \in 0..i |-> IF k = 0 THEN ords ELSE g(k, f[k - 1])]
  BY DEF IsReplayed, g
<1>2. 0 \in Good
  <2>1. PICK f : f = [k \in 0..0 |-> ords]
    OBVIOUS
  <2>2. f = [k \in 0..0 |-> IF k = 0 THEN ords ELSE g(k, f[k - 1])]
    BY <2>1
  <2> QED
    BY <1>1, <2>2
<1>3. ASSUME NEW i \in Nat, i \in Good
      PROVE  i + 1 \in Good
  <2>1. PICK f : f = [k \in 0..i |-> IF k = 0 THEN ords ELSE g(k, f[k - 1])]
    BY <1>1, <1>3
  <2>2. PICK h : h = [k \in 0..(i + 1) |-> IF k = i + 1 THEN g(i + 1, f[i]) ELSE f[k]]
    OBVIOUS
  <2>3. DOMAIN h = 0..(i + 1) /\ h[i + 1] = g(i + 1, f[i])
        /\ \A k \in 0..i : h[k] = f[k]
    BY <2>2
  <2>4. ASSUME NEW k \in 0..(i + 1)
        PROVE  h[k] = IF k = 0 THEN ords ELSE g(k, h[k - 1])
    <3>1. CASE k = i + 1
      <4>1. k - 1 = i /\ k # 0 /\ h[i] = f[i]
        BY <2>3, <3>1
      <4> QED
        BY <2>3, <3>1, <4>1
    <3>2. CASE k # i + 1
      <4>1. k \in 0..i
        BY <3>2
      <4>2. k # 0 => k - 1 \in 0..i
        BY <4>1
      <4>3. f[k] = IF k = 0 THEN ords ELSE g(k, f[k - 1])
        BY <2>1, <4>1
      <4> QED
        BY <2>3, <4>1, <4>2, <4>3
    <3> QED
      BY <3>1, <3>2
  <2>5. h = [k \in 0..(i + 1) |-> h[k]]
    BY <2>2
  <2>6. h = [k \in 0..(i + 1) |-> IF k = 0 THEN ords ELSE g(k, h[k - 1])]
    BY <2>4, <2>5
  <2>7. IsReplayed(h, i + 1, ords, msgs)
    BY <2>6 DEF IsReplayed, g
  <2> HIDE DEF IsReplayed
  <2> QED
    BY <2>7
<1> HIDE DEF Good
<1>4. n \in Good
  BY <1>2, <1>3, NumberInduction
<1> QED
  BY <1>4 DEF Good

\* The orders message by message.
ReplaysBy(f, ords, msgs) ==
    /\ f[0] = ords
    /\ \A k \in 1..Len(msgs) : f[k] = Applied(f[k - 1], msgs[k])
    /\ Replayed(ords, msgs) = f[Len(msgs)]

\* Replayed goes from message to message, as the journal does.
LEMMA ReplaySteps ==
    ASSUME NEW ords, NEW msgs, Len(msgs) \in Nat
    PROVE  \E f : ReplaysBy(f, ords, msgs)
<1>1. PICK n \in Nat : n = Len(msgs)
  OBVIOUS
<1>2. PICK f : f = CHOOSE g : IsReplayed(g, n, ords, msgs)
  OBVIOUS
<1>3. IsReplayed(f, n, ords, msgs)
  BY <1>2, ReplayedExists
<1>4. Replayed(ords, msgs) = f[n]
  BY <1>1, <1>2 DEF Replayed, IsReplayed
<1> DEFINE g(i, t) == Applied(t, msgs[i])
<1> HIDE DEF g
<1>5. f = [k \in 0..n |-> IF k = 0 THEN ords ELSE g(k, f[k - 1])]
  BY <1>3 DEF IsReplayed, g
<1>6. f[0] = ords
  BY <1>5
<1>7. \A k \in 1..n : k \in 0..n /\ k # 0
  OBVIOUS
<1>8. \A k \in 1..n : f[k] = g(k, f[k - 1])
  BY <1>5, <1>7
<1> QED
  BY <1>1, <1>4, <1>6, <1>8 DEF g, ReplaysBy

\* Messages that say nothing of orders.
LEMMA ReplayNothing ==
    ASSUME NEW ords, NEW msgs, Len(msgs) \in Nat,
           \A k \in 1..Len(msgs) : msgs[k].type # "CreateExec" \/ msgs[k].exec.orderId = 0
    PROVE  Replayed(ords, msgs) = ords
<1>1. PICK n \in Nat : n = Len(msgs)
  OBVIOUS
<1>2. PICK f : ReplaysBy(f, ords, msgs)
  BY ReplaySteps
<1>3. \A k \in 1..n : f[k] = f[k - 1]
  BY <1>1, <1>2 DEF ReplaysBy, Applied
<1> DEFINE Good == {k \in Nat : k =< n => f[k] = ords}
<1>4. 0 \in Good
  BY <1>2 DEF ReplaysBy
<1>5. ASSUME NEW k \in Nat, k < n, k \in Good
      PROVE  k + 1 \in Good
  <2>1. k + 1 \in 1..n /\ (k + 1) - 1 = k
    BY <1>5
  <2> QED
    BY <1>3, <1>5, <2>1
<1> HIDE DEF Good
<1>6. \A k \in 0..n : k \in Good
  BY <1>4, <1>5, NumberInduction
<1>7. f[n] = ords
  BY <1>6 DEF Good
<1> QED
  BY <1>1, <1>2, <1>7 DEF ReplaysBy

\* What an exec that tells that "new" becomes of the order "oid" makes of the
\* orders of its market.
Told(os, oid, new) == IF Done(new) THEN Drop(os, {oid}) ELSE Put(os, oid, new)

\* Execs of one market: g is what they make of its orders one by one.
TellsBy(g, os, batch) ==
    /\ g[0] = os
    /\ \A k \in 1..Len(batch) : g[k] = Told(g[k - 1], batch[k].orderId, OrderIn(batch[k]))

\* Replaying a batch of execs of one market changes the orders of that market, exec
\* by exec.
LEMMA ReplayExecs ==
    ASSUME NEW ords, NEW m \in DOMAIN ords, ords = [x \in DOMAIN ords |-> ords[x]],
           NEW batch, Len(batch) \in Nat, DOMAIN batch = 1..Len(batch),
           \A k \in 1..Len(batch) : batch[k].market = m /\ batch[k].orderId # 0
    PROVE  \E g : /\ TellsBy(g, ords[m], batch)
                  /\ Replayed(ords, ExecMsgs(batch)) = [ords EXCEPT ![m] = g[Len(batch)]]
<1>1. PICK n \in Nat : n = Len(batch)
  OBVIOUS
<1>2. PICK msgs : msgs = ExecMsgs(batch)
  OBVIOUS
<1>3. /\ msgs = [k \in 1..n |-> [type |-> "CreateExec", exec |-> batch[k]]]
      /\ Len(msgs) = n
      /\ \A k \in 1..n : msgs[k].type = "CreateExec" /\ msgs[k].exec = batch[k]
  BY <1>1, <1>2 DEF ExecMsgs
<1>4. PICK f : ReplaysBy(f, ords, msgs)
  BY <1>3, ReplaySteps
<1>5. PICK g : g = [k \in 0..n |-> f[k][m]]
  OBVIOUS
<1>6. ASSUME NEW k \in 1..n, NEW os, f[k - 1] = [ords EXCEPT ![m] = os]
      PROVE  f[k] = [ords EXCEPT ![m] = Told(os, batch[k].orderId, OrderIn(batch[k]))]
  <2>1. PICK e : e = batch[k] /\ msgs[k].exec = e /\ msgs[k].type = "CreateExec"
                 /\ e.market = m /\ e.orderId # 0
    BY <1>1, <1>3
  <2>2. f[k] = Applied(f[k - 1], msgs[k])
    BY <1>3, <1>4 DEF ReplaysBy
  <2>3. OrderIn(e).resd = e.resd
    BY DEF OrderIn
  <2>4. PICK live : live = f[k - 1]
    OBVIOUS
  <2>5. live[m] = os /\ \A x : [live EXCEPT ![m] = x] = [ords EXCEPT ![m] = x]
    BY <1>6, <2>4
  <2>6. f[k] = [live EXCEPT ![m] = Told(live[m], e.orderId, OrderIn(e))]
    BY <2>1, <2>2, <2>3, <2>4 DEF Applied, Told, Done
  <2> QED
    BY <2>1, <2>5, <2>6
<1> DEFINE Good == {k \in Nat : k =< n => f[k] = [ords EXCEPT ![m] = g[k]]}
<1>7. 0 \in Good
  BY <1>4, <1>5 DEF ReplaysBy
<1>8. ASSUME NEW k \in Nat, k < n, k \in Good
      PROVE  k + 1 \in Good
  <2>1. PICK j \in 1..n : j = k + 1 /\ j - 1 = k
    BY <1>8
  <2>2. f[j - 1] = [ords EXCEPT ![m] = g[k]]
    BY <1>8, <2>1
  <2>3. f[j] = [ords EXCEPT ![m] = Told(g[k], batch[j].orderId, OrderIn(batch[j]))]
    BY <1>6, <2>2
  <2>4. g[j] = f[j][m] /\ f[j] = [ords EXCEPT ![m] = f[j][m]]
    BY <1>5, <2>3
  <2>5. f[k + 1] = [ords EXCEPT ![m] = g[k + 1]] /\ k + 1 \in Nat
    BY <2>1, <2>4
  <2> QED
    BY <2>5
<1> HIDE DEF Good
<1>9. \A k \in 0..n : k \in Good
  BY <1>7, <1>8, NumberInduction
<1>10. \A k \in 0..n : f[k] = [ords EXCEPT ![m] = g[k]]
  BY <1>9 DEF Good
<1>11. g[0] = ords[m]
  BY <1>4, <1>5 DEF ReplaysBy
<1>12. ASSUME NEW k \in 1..n
       PROVE  g[k] = Told(g[k - 1], batch[k].orderId, OrderIn(batch[k]))
  <2>1. k - 1 \in 0..n /\ k \in 0..n
    OBVIOUS
  <2>2. f[k] = [ords EXCEPT ![m] = Told(g[k - 1], batch[k].orderId, OrderIn(batch[k]))]
    BY <1>6, <1>10, <2>1
  <2> QED
    BY <1>5, <2>1, <2>2
<1>13. Replayed(ords, msgs) = [ords EXCEPT ![m] = g[n]]
  <2>1. n \in 0..n
    OBVIOUS
  <2>2. Replayed(ords, msgs) = f[n]
    BY <1>3, <1>4 DEF ReplaysBy
  <2> QED
    BY <1>10, <2>1, <2>2
<1> QED
  BY <1>1, <1>2, <1>11, <1>12, <1>13 DEF TellsBy

-----------------------------------------------------------------------------
(* The journal tells the orders. *)

\* The exec of a trade says what Order::trade makes of the order (Exec::trade).
LEMMA TradeTells ==
    ASSUME NEW order \in Order, NEW m, NEW oid, NEW id, NEW sumLots, NEW sumCost,
           NEW lots, NEW ticks, NEW match, NEW cpty
    PROVE  ExecTells(TradeExec(NewExec(m, oid, order, id), sumLots, sumCost,
                               lots, ticks, match, cpty),
                     oid, TradeLots(order, sumLots, sumCost))
<1>1. PICK e : e = TradeExec(NewExec(m, oid, order, id), sumLots, sumCost,
                             lots, ticks, match, cpty)
  OBVIOUS
<1>2. /\ e.accnt = order.accnt /\ e.ref = order.ref /\ e.side = order.side
      /\ e.ticks = order.ticks /\ e.lots = order.lots
      /\ e.resd = order.resd - sumLots /\ e.exec = order.exec + sumLots
      /\ e.cost = order.cost + sumCost /\ e.minLots = order.minLots
      /\ e.orderId = oid
  BY <1>1 DEF TradeExec, NewExec
<1>3. PICK o : o = TradeLots(order, sumLots, sumCost)
  OBVIOUS
<1>4. /\ o.accnt = order.accnt /\ o.ref = order.ref /\ o.side = order.side
      /\ o.ticks = order.ticks /\ o.lots = order.lots
      /\ o.resd = order.resd - sumLots /\ o.exec = order.exec + sumLots
      /\ o.cost = order.cost + sumCost /\ o.minLots = order.minLots
  BY <1>3 DEF TradeLots, Order
<1>5. o = OrderIn(o)
  BY <1>3 DEF TradeLots, Order, OrderIn
<1>6. OrderIn(e) = OrderIn(o)
  BY <1>2, <1>4 DEF OrderIn
<1> QED
  BY <1>1, <1>2, <1>3, <1>5, <1>6 DEF ExecTells

\* The maker of a match, and the taker after it.
MakerThen(x) == TradeLots(x.maker, x.lots, x.lots * x.ticks)
TakerThen(order, x) == TradeLots(order, x.sumLots, x.sumCost)

\* What the execs of a new order tell.
BatchTells(batch, n, id, order, ms) ==
    /\ ExecTells(batch[1], id, order)
    /\ \A i \in 1..n : /\ ExecTells(batch[2 * i], ms[i].id, MakerThen(ms[i]))
                       /\ ExecTells(batch[2 * i + 1], id, TakerThen(order, ms[i]))

\* The execs that create_order posts tell the new order, and each trade what it
\* makes of its maker and of its taker.
LEMMA OrderExecsTell ==
    ASSUME NEW m, NEW id, NEW order \in Order, NEW ms, Len(ms) \in Nat,
           \A i \in 1..Len(ms) : ms[i].maker \in Order
    PROVE  BatchTells(OrderExecs(m, id, order, ms), Len(ms), id, order, ms)
<1>1. PICK n \in Nat : n = Len(ms)
  OBVIOUS
<1>2. PICK batch : batch = OrderExecs(m, id, order, ms)
  OBVIOUS
<1> DEFINE maker(i) ==
            TradeExec(NewExec(m, ms[i].id, ms[i].maker, id + 2*i - 1),
                      ms[i].lots, ms[i].lots * ms[i].ticks,
                      ms[i].lots, ms[i].ticks, id + 2*i, order.accnt)
           taker(i) ==
            TradeExec(NewExec(m, id, order, id + 2*i),
                      ms[i].sumLots, ms[i].sumCost,
                      ms[i].lots, ms[i].ticks, id + 2*i - 1,
                      ms[i].maker.accnt)
<1>3. batch = [k \in 1..(2 * n + 1) |->
                IF k = 1 THEN NewExec(m, id, order, id)
                ELSE IF k % 2 = 0 THEN maker(k \div 2) ELSE taker(k \div 2)]
  BY <1>1, <1>2 DEF OrderExecs
<1>4. ExecTells(batch[1], id, order)
  <2>1. batch[1] = NewExec(m, id, order, id)
    <3> HIDE DEF maker, taker
    <3> QED
      BY <1>3
  <2> QED
    BY <2>1, NewTells
<1>5. ASSUME NEW i \in 1..n
      PROVE  /\ ExecTells(batch[2 * i], ms[i].id, MakerThen(ms[i]))
             /\ ExecTells(batch[2 * i + 1], id, TakerThen(order, ms[i]))
  <2>1. /\ 2 * i \in 1..(2 * n + 1) /\ 2 * i + 1 \in 1..(2 * n + 1)
        /\ 2 * i # 1 /\ 2 * i + 1 # 1
        /\ (2 * i) % 2 = 0 /\ (2 * i + 1) % 2 # 0
        /\ (2 * i) \div 2 = i /\ (2 * i + 1) \div 2 = i
    OBVIOUS
  <2>2. batch[2 * i] = maker(i) /\ batch[2 * i + 1] = taker(i)
    <3> HIDE DEF maker, taker
    <3> QED
      BY <1>3, <2>1
  <2>3. PICK x : x = ms[i] /\ x.maker \in Order
    BY <1>1
  <2>4. ExecTells(maker(i), x.id, MakerThen(x))
    BY <2>3, TradeTells DEF MakerThen
  <2>5. ExecTells(taker(i), id, TakerThen(order, x))
    BY <2>3, TradeTells DEF TakerThen
  <2> QED
    BY <2>2, <2>3, <2>4, <2>5
<1> QED
  BY <1>1, <1>2, <1>4, <1>5 DEF BatchTells

\* The orders "os" of a market when the first p makers have been told, and the
\* taker has been told to be "taker".
ToldSoFar(g, os, ms, p, id, taker) ==
    /\ g = [x \in DOMAIN g |-> g[x]]
    /\ DOMAIN g = (DOMAIN os \ GoneBy(ms, p)) \union (IF Done(taker) THEN {} ELSE {id})
    /\ ~Done(taker) => g[id] = taker
    /\ \A j \in 1..p : ms[j].id \notin GoneBy(ms, p) => g[ms[j].id] = MakerThen(ms[j])
    /\ \A x \in DOMAIN os \ GoneBy(ms, p) :
            (\A j \in 1..p : ms[j].id # x) => g[x] = os[x]

\* What the matches of an order say of one maker.
OneMaker(os, id, ms, i, x) ==
    /\ x = ms[i].id /\ x \in DOMAIN os /\ x # id
    /\ ms[i].maker = os[x]
    /\ Done(MakerThen(ms[i])) <=> ms[i].lots = ms[i].maker.resd
    /\ \A j \in 1..(i - 1) : ms[j].id # x

\* match_orders meets an order only once.
LEMMA MakersDiffer ==
    ASSUME NEW b, NEW os, NEW id, NEW order, NEW ms, Arrival(b, os, id, order, ms),
           NEW i \in 1..Len(ms)
    PROVE  OneMaker(os, id, ms, i, ms[i].id)
<1>1. PICK s : s = b[Opposite(order.side)]
  OBVIOUS
<1>2. Meets(order, s, os, ms)
  BY <1>1, ArrivalMeets
<1>3. PICK list \in Seq(Nat) : list = s.list
  BY <1>2 DEF Meets, Offered
<1>4. IsInjective(list)
  BY <1>2, <1>3, InOrderInjective DEF Meets, BookSide
<1>5. PICK n \in Nat : n = Len(ms) /\ n =< Len(list)
  BY <1>2, <1>3 DEF Meets, MatchesFit
<1>6. \A j \in 1..n : ms[j].id = list[j]
  BY <1>2, <1>3, <1>5 DEF Meets, MatchesFit, MatchFits
<1>7. \A j \in 1..(i - 1) : ms[j].id # ms[i].id
  <2>1. \A j \in 1..(i - 1) : j \in 1..n /\ j # i /\ j \in DOMAIN list
    BY <1>3, <1>5
  <2>2. i \in 1..n /\ i \in DOMAIN list
    BY <1>3, <1>5
  <2> QED
    BY <1>4, <1>6, <2>1, <2>2 DEF IsInjective
<1>8. /\ ms[i].id \in DOMAIN os /\ ms[i].maker = os[ms[i].id]
      /\ GoodOrder(os[ms[i].id])
      /\ ms[i].lots \in Nat
  BY MakerIs
<1>9. ms[i].id # id
  BY <1>8 DEF Arrival, GoodOrders
<1>10. Done(MakerThen(ms[i])) <=> ms[i].lots = ms[i].maker.resd
  <2>1. PICK o : o = os[ms[i].id] /\ o \in Order /\ o.resd \in Nat
    BY <1>8, OrderFields DEF GoodOrder
  <2>2. TradeLots(o, ms[i].lots, ms[i].lots * ms[i].ticks).resd = o.resd - ms[i].lots
    BY <2>1 DEF TradeLots, Order
  <2> QED
    BY <1>8, <2>1, <2>2 DEF MakerThen, Done
<1> QED
  BY <1>7, <1>8, <1>9, <1>10 DEF OneMaker

\* The next maker is told.
LEMMA MakerTold ==
    ASSUME NEW os, NEW id, id \notin DOMAIN os, NEW ms, NEW i \in Nat \ {0},
           OneMaker(os, id, ms, i, ms[i].id), \A j \in 1..i : ms[j].id \in DOMAIN os,
           NEW taker, NEW g, ToldSoFar(g, os, ms, i - 1, id, taker)
    PROVE  ToldSoFar(Told(g, ms[i].id, MakerThen(ms[i])), os, ms, i, id, taker)
<1>1. PICK x, new, h : x = ms[i].id /\ new = MakerThen(ms[i]) /\ h = Told(g, x, new)
  OBVIOUS
<1>2. /\ x \in DOMAIN os /\ x # id
      /\ Done(new) <=> ms[i].lots = ms[i].maker.resd
      /\ \A j \in 1..(i - 1) : ms[j].id # x
  BY <1>1 DEF OneMaker
<1>3. \A j \in 1..i : j = i \/ j \in 1..(i - 1)
  OBVIOUS
<1>4. \A j \in 1..(i - 1) : j \in 1..i
  OBVIOUS
<1>5. i \in 1..i
  OBVIOUS
<1>6. x \notin GoneBy(ms, i - 1)
  BY <1>2 DEF GoneBy
<1>7. GoneBy(ms, i) = GoneBy(ms, i - 1) \union (IF Done(new) THEN {x} ELSE {})
  BY <1>1, <1>2, <1>3, <1>4, <1>5 DEF GoneBy
<1>8. /\ g = [y \in DOMAIN g |-> g[y]]
      /\ DOMAIN g = (DOMAIN os \ GoneBy(ms, i - 1)) \union (IF Done(taker) THEN {} ELSE {id})
      /\ ~Done(taker) => g[id] = taker
      /\ \A j \in 1..(i - 1) : ms[j].id \notin GoneBy(ms, i - 1) => g[ms[j].id] = MakerThen(ms[j])
      /\ \A y \in DOMAIN os \ GoneBy(ms, i - 1) :
            (\A j \in 1..(i - 1) : ms[j].id # y) => g[y] = os[y]
  BY DEF ToldSoFar
<1>9. x \in DOMAIN g
  BY <1>2, <1>6, <1>8
<1>10. CASE Done(new)
  <2>1. h = [y \in DOMAIN g \ {x} |-> g[y]]
    BY <1>1, <1>10 DEF Told, Drop
  <2>2. h = [y \in DOMAIN h |-> h[y]] /\ DOMAIN h = DOMAIN g \ {x}
        /\ \A y \in DOMAIN g \ {x} : h[y] = g[y]
    BY <2>1
  <2>3. GoneBy(ms, i) = GoneBy(ms, i - 1) \union {x}
    BY <1>7, <1>10
  <2>4. DOMAIN h = (DOMAIN os \ GoneBy(ms, i)) \union (IF Done(taker) THEN {} ELSE {id})
    BY <1>2, <1>8, <2>2, <2>3
  <2>5. ~Done(taker) => h[id] = taker
    BY <1>2, <1>8, <2>2
  <2>6. ASSUME NEW j \in 1..i, ms[j].id \notin GoneBy(ms, i)
        PROVE  h[ms[j].id] = MakerThen(ms[j])
    <3>1. ms[j].id # x /\ j \in 1..(i - 1) /\ ms[j].id \notin GoneBy(ms, i - 1)
      <4>1. ms[j].id # x /\ ms[j].id \notin GoneBy(ms, i - 1)
        BY <2>3, <2>6
      <4>2. j # i
        BY <1>1, <4>1
      <4> QED
        BY <1>3, <4>1, <4>2
    <3>2. g[ms[j].id] = MakerThen(ms[j])
      BY <1>8, <3>1
    <3>3. CASE ms[j].id \in DOMAIN g
      BY <2>2, <3>1, <3>2, <3>3
    <3>4. ms[j].id \in DOMAIN g
      BY <1>8, <3>1
    <3> QED
      BY <3>3, <3>4
  <2>7. ASSUME NEW y \in DOMAIN os \ GoneBy(ms, i), \A j \in 1..i : ms[j].id # y
        PROVE  h[y] = os[y]
    <3>1. y # x /\ y \in DOMAIN os \ GoneBy(ms, i - 1) /\ \A j \in 1..(i - 1) : ms[j].id # y
      BY <1>4, <2>3, <2>7
    <3> QED
      BY <1>8, <2>2, <3>1
  <2>8. ToldSoFar(h, os, ms, i, id, taker)
    BY <2>2, <2>4, <2>5, <2>6, <2>7 DEF ToldSoFar
  <2> QED
    BY <1>1, <2>8
<1>11. CASE ~Done(new)
  <2>1. h = [y \in DOMAIN g \union {x} |-> IF y = x THEN new ELSE g[y]]
    BY <1>1, <1>11 DEF Told, Put
  <2>2. /\ h = [y \in DOMAIN h |-> h[y]] /\ DOMAIN h = DOMAIN g
        /\ h[x] = new
        /\ \A y \in DOMAIN g \ {x} : h[y] = g[y]
    BY <1>9, <2>1
  <2>3. GoneBy(ms, i) = GoneBy(ms, i - 1)
    BY <1>7, <1>11
  <2>4. ~Done(taker) => h[id] = taker
    BY <1>2, <1>8, <2>2
  <2>5. ASSUME NEW j \in 1..i, ms[j].id \notin GoneBy(ms, i)
        PROVE  h[ms[j].id] = MakerThen(ms[j])
    <3>1. CASE j = i
      <4>1. ms[j].id = x /\ MakerThen(ms[j]) = new
        BY <1>1, <3>1
      <4> QED
        BY <2>2, <4>1
    <3>2. CASE j \in 1..(i - 1)
      <4>1. ms[j].id # x /\ g[ms[j].id] = MakerThen(ms[j])
        BY <1>2, <1>8, <2>3, <2>5, <3>2
      <4>2. ms[j].id \in DOMAIN g
        BY <1>8, <2>3, <2>5, <3>2
      <4> QED
        BY <2>2, <4>1, <4>2
    <3> QED
      BY <1>3, <3>1, <3>2
  <2>6. ASSUME NEW y \in DOMAIN os \ GoneBy(ms, i), \A j \in 1..i : ms[j].id # y
        PROVE  h[y] = os[y]
    <3>1. y # x /\ y \in DOMAIN os \ GoneBy(ms, i - 1) /\ \A j \in 1..(i - 1) : ms[j].id # y
      BY <1>1, <1>4, <1>5, <2>3, <2>6
    <3>2. y \in DOMAIN g
      BY <1>8, <3>1
    <3> QED
      BY <1>8, <2>2, <3>1, <3>2
  <2>7. ToldSoFar(h, os, ms, i, id, taker)
    BY <1>8, <2>2, <2>3, <2>4, <2>5, <2>6 DEF ToldSoFar
  <2> QED
    BY <1>1, <2>7
<1> QED
  BY <1>10, <1>11

\* The taker is told.
LEMMA TakerTold ==
    ASSUME NEW os, NEW id, id \notin DOMAIN os, NEW ms, NEW i \in Nat,
           \A j \in 1..i : ms[j].id \in DOMAIN os,
           NEW taker, NEW g, ToldSoFar(g, os, ms, i, id, taker), NEW new
    PROVE  ToldSoFar(Told(g, id, new), os, ms, i, id, new)
<1>1. PICK h : h = Told(g, id, new)
  OBVIOUS
<1>2. /\ g = [y \in DOMAIN g |-> g[y]]
      /\ DOMAIN g = (DOMAIN os \ GoneBy(ms, i)) \union (IF Done(taker) THEN {} ELSE {id})
      /\ \A j \in 1..i : ms[j].id \notin GoneBy(ms, i) => g[ms[j].id] = MakerThen(ms[j])
      /\ \A y \in DOMAIN os \ GoneBy(ms, i) :
            (\A j \in 1..i : ms[j].id # y) => g[y] = os[y]
  BY DEF ToldSoFar
<1>3. /\ h = [y \in DOMAIN h |-> h[y]]
      /\ DOMAIN h = (DOMAIN os \ GoneBy(ms, i)) \union (IF Done(new) THEN {} ELSE {id})
      /\ ~Done(new) => h[id] = new
      /\ \A y \in DOMAIN os \ GoneBy(ms, i) : h[y] = g[y]
  <2>1. CASE Done(new)
    <3>1. h = [y \in DOMAIN g \ {id} |-> g[y]]
      BY <1>1, <2>1 DEF Told, Drop
    <3>2. DOMAIN g \ {id} = DOMAIN os \ GoneBy(ms, i)
      BY <1>2
    <3> QED
      BY <2>1, <3>1, <3>2
  <2>2. CASE ~Done(new)
    <3>1. h = [y \in DOMAIN g \union {id} |-> IF y = id THEN new ELSE g[y]]
      BY <1>1, <2>2 DEF Told, Put
    <3>2. DOMAIN g \union {id} = (DOMAIN os \ GoneBy(ms, i)) \union {id}
      BY <1>2
    <3> QED
      BY <2>2, <3>1, <3>2
  <2> QED
    BY <2>1, <2>2
<1>4. \A j \in 1..i : ms[j].id \notin GoneBy(ms, i) => h[ms[j].id] = MakerThen(ms[j])
  BY <1>2, <1>3
<1>5. \A y \in DOMAIN os \ GoneBy(ms, i) : (\A j \in 1..i : ms[j].id # y) => h[y] = os[y]
  BY <1>2, <1>3
<1>6. ToldSoFar(h, os, ms, i, id, new)
  BY <1>3, <1>4, <1>5 DEF ToldSoFar
<1> QED
  BY <1>1, <1>6

\* The taker after the first i matches.
TakerBy(order, ms, i) == IF i = 0 THEN order ELSE TakerThen(order, ms[i])

\* All execs of a new order are told.
LEMMA BatchTold ==
    ASSUME NEW b, NEW os, NEW id, NEW order, NEW ms, Arrival(b, os, id, order, ms),
           NEW batch, NEW m, OrderBatch(batch, Len(ms), m, id, order, ms),
           BatchTells(batch, Len(ms), id, order, ms),
           os = [x \in DOMAIN os |-> os[x]],
           NEW g, TellsBy(g, os, batch)
    PROVE  ToldSoFar(g[Len(batch)], os, ms, Len(ms), id, TakerBy(order, ms, Len(ms)))
<1>1. PICK n \in Nat : n = Len(ms) /\ Len(batch) = 2 * n + 1
  BY DEF OrderBatch
<1>2. /\ g[0] = os
      /\ \A k \in 1..(2 * n + 1) : g[k] = Told(g[k - 1], batch[k].orderId, OrderIn(batch[k]))
  BY <1>1 DEF TellsBy
<1>3. id \notin DOMAIN os
  BY DEF Arrival, GoodOrders
<1>4. \A j \in 1..n : ms[j].id \in DOMAIN os
  BY <1>1, MakerIs
<1>5. \A i \in 1..n : OneMaker(os, id, ms, i, ms[i].id)
  BY <1>1, MakersDiffer
<1>6. /\ batch[1].orderId = id /\ OrderIn(batch[1]) = order
      /\ \A i \in 1..n : /\ batch[2 * i].orderId = ms[i].id
                         /\ OrderIn(batch[2 * i]) = MakerThen(ms[i])
                         /\ batch[2 * i + 1].orderId = id
                         /\ OrderIn(batch[2 * i + 1]) = TakerThen(order, ms[i])
  BY <1>1 DEF BatchTells, ExecTells
<1> DEFINE Good == {i \in Nat : i =< n =>
                        ToldSoFar(g[2 * i + 1], os, ms, i, id, TakerBy(order, ms, i))}
<1>7. 0 \in Good
  <2>1. g[1] = Told(os, id, order)
    <3>1. 1 \in 1..(2 * n + 1) /\ 1 - 1 = 0
      BY <1>1
    <3> QED
      BY <1>2, <1>6, <3>1
  <2>2. ~Done(order)
    BY OrderFields DEF Arrival, GoodOrder, Done
  <2>3. g[1] = [y \in DOMAIN os \union {id} |-> IF y = id THEN order ELSE os[y]]
    BY <2>1, <2>2 DEF Told, Put
  <2>4. GoneBy(ms, 0) = {}
    BY DEF GoneBy
  <2>5. ToldSoFar(g[1], os, ms, 0, id, order)
    <3>1. PICK h : h = g[1]
      OBVIOUS
    <3>2. /\ h = [x \in DOMAIN h |-> h[x]] /\ DOMAIN h = DOMAIN os \union {id} /\ h[id] = order
          /\ \A x \in DOMAIN os : h[x] = os[x]
      BY <1>3, <2>3, <3>1
    <3>3. ToldSoFar(h, os, ms, 0, id, order)
      BY <2>2, <2>4, <3>2 DEF ToldSoFar
    <3> QED
      BY <3>1, <3>3
  <2>6. 2 * 0 + 1 = 1 /\ TakerBy(order, ms, 0) = order
    BY DEF TakerBy
  <2> QED
    BY <2>5, <2>6
<1>8. ASSUME NEW i \in Nat, i < n, i \in Good
      PROVE  i + 1 \in Good
  <2>1. PICK j \in 1..n : j = i + 1 /\ j - 1 = i /\ j \in Nat \ {0}
    BY <1>8
  <2>2. PICK k : k = 2 * j /\ k \in 1..(2 * n + 1) /\ k + 1 \in 1..(2 * n + 1)
                 /\ k - 1 = 2 * i + 1 /\ (k + 1) - 1 = k /\ 2 * j + 1 = k + 1
    BY <2>1
  <2>3. ToldSoFar(g[k - 1], os, ms, j - 1, id, TakerBy(order, ms, i))
    BY <1>8, <2>1, <2>2
  <2>4. g[k] = Told(g[k - 1], ms[j].id, MakerThen(ms[j]))
    BY <1>2, <1>6, <2>2
  <2>5. \A l \in 1..j : ms[l].id \in DOMAIN os
    BY <1>4, <2>1
  <2>6. ToldSoFar(g[k], os, ms, j, id, TakerBy(order, ms, i))
    BY <1>3, <1>5, <2>1, <2>3, <2>4, <2>5, MakerTold
  <2>7. g[k + 1] = Told(g[k], id, TakerThen(order, ms[j]))
    BY <1>2, <1>6, <2>2
  <2>8. ToldSoFar(g[k + 1], os, ms, j, id, TakerThen(order, ms[j]))
    BY <1>3, <2>5, <2>6, <2>7, TakerTold
  <2>9. TakerBy(order, ms, j) = TakerThen(order, ms[j])
    BY <2>1 DEF TakerBy
  <2>10. ToldSoFar(g[2 * j + 1], os, ms, j, id, TakerBy(order, ms, j))
    BY <2>2, <2>8, <2>9
  <2> QED
    BY <2>1, <2>10
<1> HIDE DEF Good
<1>9. \A i \in 0..n : i \in Good
  BY <1>7, <1>8, NumberInduction
<1>10. ToldSoFar(g[2 * n + 1], os, ms, n, id, TakerBy(order, ms, n))
  BY <1>9 DEF Good
<1> QED
  BY <1>1, <1>10

\* What the execs tell is what commit_matches and the insertion do.
LEMMA ToldIsTraded ==
    ASSUME NEW b, NEW os, NEW id, NEW order, NEW ms, Arrival(b, os, id, order, ms),
           NEW g, ToldSoFar(g, os, ms, Len(ms), id, TakerBy(order, ms, Len(ms)))
    PROVE  g = TradedOrders(os, ms, Rest(id, order, ms))
<1>1. PICK n \in Nat : n = Len(ms) /\ DOMAIN ms = 1..n /\ ms = [i \in 1..n |-> ms[i]]
  <2>1. PICK s : s = b[Opposite(order.side)]
    OBVIOUS
  <2>2. Meets(order, s, os, ms)
    BY <2>1, ArrivalMeets
  <2>3. ms = [i \in 1..Len(ms) |-> ms[i]] /\ Len(ms) \in 0..Len(s.list) /\ s.list \in Seq(Nat)
    BY <2>2 DEF Meets, MatchesFit, Offered
  <2> QED
    BY <2>3
<1>2. PICK rest : rest = AfterMatches(order, ms)
  OBVIOUS
<1>3. rest = TakerBy(order, ms, n)
  <2>1. CASE n = 0
    <3>1. ms = <<>>
      BY <1>1, <2>1
    <3> QED
      BY <1>2, <2>1, <3>1 DEF AfterMatches, TakerBy
  <2>2. CASE n # 0
    <3>1. ms # <<>> /\ Last(ms) = ms[n]
      BY <1>1, <2>2 DEF Last
    <3> QED
      BY <1>2, <2>2, <3>1 DEF AfterMatches, TakerBy, TakerThen
  <2> QED
    BY <2>1, <2>2
<1>4. GoneBy(ms, n) = DoneMakers(ms)
  BY <1>1 DEF GoneBy, DoneMakers
<1>5. /\ g = [x \in DOMAIN g |-> g[x]]
      /\ DOMAIN g = (DOMAIN os \ DoneMakers(ms)) \union (IF Done(rest) THEN {} ELSE {id})
      /\ ~Done(rest) => g[id] = rest
      /\ \A j \in 1..n : ms[j].id \notin DoneMakers(ms) => g[ms[j].id] = MakerThen(ms[j])
      /\ \A x \in DOMAIN os \ DoneMakers(ms) :
            (\A j \in 1..n : ms[j].id # x) => g[x] = os[x]
  BY <1>1, <1>3, <1>4 DEF ToldSoFar
<1>6. PICK new : new = Rest(id, order, ms)
  OBVIOUS
<1>7. /\ DOMAIN new = IF Done(rest) THEN {} ELSE {id}
      /\ \A x \in DOMAIN new : new[x] = rest
  <2>1. CASE Done(rest)
    BY <1>2, <1>6, <2>1 DEF Rest
  <2>2. CASE ~Done(rest)
    BY <1>2, <1>6, <2>2 DEF Rest, Put
  <2> QED
    BY <2>1, <2>2
<1>8. id \notin DOMAIN os
  BY DEF Arrival, GoodOrders
<1>9. ASSUME NEW x \in DOMAIN g
      PROVE  g[x] = IF x \in DOMAIN new THEN new[x]
                    ELSE IF \E i \in DOMAIN ms : ms[i].id = x
                    THEN LET y == ms[CHOOSE i \in DOMAIN ms : ms[i].id = x]
                         IN  TradeLots(os[x], y.lots, y.lots * y.ticks)
                    ELSE os[x]
  <2>1. CASE x \in DOMAIN new
    BY <1>5, <1>7, <2>1
  <2>2. CASE x \notin DOMAIN new /\ \E i \in DOMAIN ms : ms[i].id = x
    <3>1. PICK i \in 1..n : i = CHOOSE j \in DOMAIN ms : ms[j].id = x
      BY <1>1, <2>2
    <3>2. ms[i].id = x
      BY <2>2, <3>1
    <3>3. x \notin DoneMakers(ms)
      BY <1>5, <1>7, <2>2
    <3>4. g[x] = MakerThen(ms[i])
      BY <1>5, <3>2, <3>3
    <3>5. ms[i].maker = os[x]
      BY <1>1, <3>2, MakerIs
    <3>6. g[x] = TradeLots(os[x], ms[i].lots, ms[i].lots * ms[i].ticks)
      BY <3>4, <3>5 DEF MakerThen
    <3> QED
      BY <2>2, <3>1, <3>6
  <2>3. CASE x \notin DOMAIN new /\ ~(\E i \in DOMAIN ms : ms[i].id = x)
    <3>1. x \in DOMAIN os \ DoneMakers(ms) /\ \A j \in 1..n : ms[j].id # x
      BY <1>1, <1>5, <1>7, <2>3
    <3> QED
      BY <1>5, <2>3, <3>1
  <2> QED
    BY <2>1, <2>2, <2>3
<1>10. DOMAIN g = (DOMAIN os \ DoneMakers(ms)) \union DOMAIN new
  BY <1>5, <1>7
<1>11. g = [x \in (DOMAIN os \ DoneMakers(ms)) \union DOMAIN new |->
                IF x \in DOMAIN new THEN new[x]
                ELSE IF \E i \in DOMAIN ms : ms[i].id = x
                THEN LET y == ms[CHOOSE i \in DOMAIN ms : ms[i].id = x]
                     IN  TradeLots(os[x], y.lots, y.lots * y.ticks)
                ELSE os[x]]
  BY <1>5, <1>9, <1>10
<1> QED
  BY <1>6, <1>11 DEF TradedOrders

\* The orders of a market are a table, whatever their number.
OrdersAreTables ==
    orders = [m \in DOMAIN orders |-> [id \in DOMAIN orders[m] |-> orders[m][id]]]

\* Putting a table of orders in keeps them tables.
LEMMA TablesStay ==
    ASSUME OrdersAreTables, NEW m, NEW os, os = [id \in DOMAIN os |-> os[id]],
           \/ orders' = [orders EXCEPT ![m] = os] \/ orders' = Put(orders, m, os)
           \/ UNCHANGED orders
    PROVE  OrdersAreTables'
<1>1. orders = [x \in DOMAIN orders |-> orders[x]]
      /\ \A x \in DOMAIN orders : orders[x] = [id \in DOMAIN orders[x] |-> orders[x][id]]
  BY DEF OrdersAreTables
<1>2. orders' = [x \in DOMAIN orders' |-> orders'[x]]
      /\ \A x \in DOMAIN orders' : (orders'[x] = orders[x] /\ x \in DOMAIN orders)
                                   \/ orders'[x] = os
  BY <1>1 DEF Put
<1>3. \A x \in DOMAIN orders' : orders'[x] = [id \in DOMAIN orders'[x] |-> orders'[x][id]]
  BY <1>1, <1>2
<1> QED
  BY <1>2, <1>3 DEF OrdersAreTables

\* Every step does: the engine replaces the orders of one market at most.
LEMMA TablesKept ==
    ASSUME EngineInv, OrdersAreTables, Next
    PROVE  OrdersAreTables'
<1>1. PICK t : t = [x \in {} |-> x] /\ t = <<>>
  OBVIOUS
<1>2. ASSUME Quiet \/ UNCHANGED orders
      PROVE  OrdersAreTables'
  <2>1. UNCHANGED orders \/ \E m : orders' = Put(orders, m, t)
    BY <1>1, <1>2 DEF Quiet
  <2>2. t = [id \in DOMAIN t |-> t[id]]
    BY <1>1
  <2> QED
    BY <2>1, <2>2, TablesStay
<1>3. ASSUME NEW m, NEW id, NEW order, NEW ms, IsBooked(m, id, order, ms)
      PROVE  OrdersAreTables'
  <2>1. PICK os : /\ os = TradedOrders(orders[m], ms, Rest(id, order, ms))
                  /\ orders' = [orders EXCEPT ![m] = os]
    BY <1>3 DEF IsBooked, OrderBooked
  <2>2. os = [x \in DOMAIN os |-> os[x]]
    BY <2>1 DEF TradedOrders
  <2> QED
    BY <2>1, <2>2, TablesStay
<1>4. ASSUME NEW m, NEW id, NEW order, NEW ms, IsUndone(m, id, order, ms)
      PROVE  OrdersAreTables'
  BY <1>2, <1>4 DEF IsUndone, OrderUndone
<1>5. CASE IsChange
  <2>1. PICK a, m, ids, bad, batch, after : ChangeOrders(m, ids, bad, batch, after)
    BY <1>5 DEF IsChange
  <2>2. CASE ChangeBooked(m, ids, batch, after)
    <3>1. PICK os : /\ os = [id \in DOMAIN orders[m] \ DoneOf(ids, after) |->
                                IF id \in ToSet(ids) THEN after[id] ELSE orders[m][id]]
                    /\ orders' = [orders EXCEPT ![m] = os]
      BY <2>2 DEF ChangeBooked
    <3>2. os = [id \in DOMAIN os |-> os[id]]
      BY <3>1
    <3> QED
      BY <3>1, <3>2, TablesStay
  <2>3. CASE ChangeFailed(m, ids, bad, batch) \/ ChangeAborted(m, ids, batch)
    BY <1>2, <2>3 DEF ChangeFailed, FailAfterIds, ChangeAborted
  <2> QED
    BY <2>1, <2>2, <2>3, ChangeOrdersIs
<1>6. CASE IsManual
  <2>1. PICK a, m, side, lots, ticks, cpty : CreateTrade(a, m, side, lots, ticks, cpty)
    BY <1>6, Zenon DEF IsManual
  <2>2. PICK id : id = markets[m].maxId + 1
    OBVIOUS
  <2>3. PICK batch : batch = ManualTrades(a, m, id, side, lots, ticks, cpty)
    OBVIOUS
  <2>4. PICK newPosns : newPosns = EnsurePosns(posns, {a, cpty}, m)
    OBVIOUS
  <2>5. TradeBooked(m, batch, newPosns) \/ TradeFailed(a, m, batch, newPosns)
    BY <2>1, <2>2, <2>3, <2>4, CreateTradeIs
  <2>6. UNCHANGED orders
    BY <2>5, Zenon DEF TradeBooked, TradeFailed, FailAfterIds
  <2> QED
    BY <1>2, <2>6
<1> QED
  BY <1>2, <1>3, <1>4, <1>5, <1>6, StepKinds

\* A committed order is told.
LEMMA BookedReplayed ==
    ASSUME EngineInv, OrdersAreTables, NEW m, NEW id, NEW order, NEW ms,
           IsBooked(m, id, order, ms)
    PROVE  orders' = Replayed(orders, out')
<1>1. PICK a, ref, side, lots, ticks, minLots :
            /\ NewOrder(a, m, ref, side, lots, ticks, minLots, id, order, ms)
            /\ OrderBooked(a, m, side, id, order, ms)
  BY DEF IsBooked
<1>2. PICK batch : batch = OrderExecs(m, id, order, ms)
  OBVIOUS
<1>3. OrderBatch(batch, Len(ms), m, id, order, ms) /\ id \in Nat /\ id - 1 = markets[m].maxId
  BY <1>1, <1>2, NewOrderBatch
<1>4. /\ Arrival(books[m], orders[m], id, order, ms) /\ Len(ms) \in Nat
      /\ m \in DOMAIN orders
  BY <1>1, NewOrderArrives
<1>5. order \in Order /\ \A i \in 1..Len(ms) : ms[i].maker \in Order
  <2>1. order \in Order
    BY <1>4 DEF Arrival, GoodOrder
  <2>2. \A i \in 1..Len(ms) : ms[i].maker \in Order
    BY <1>4, MakerIs DEF GoodOrder
  <2> QED
    BY <2>1, <2>2
<1>6. BatchTells(batch, Len(ms), id, order, ms)
  BY <1>2, <1>4, <1>5, OrderExecsTell
<1>7. PICK n \in Nat : n = Len(ms) /\ Len(batch) = 2 * n + 1 /\ DOMAIN batch = 1..(2 * n + 1)
  BY <1>3, <1>4 DEF OrderBatch
<1>8. ASSUME NEW k \in 1..Len(batch)
      PROVE  batch[k].market = m /\ batch[k].orderId # 0
  <2>1. batch[k].market = m
    BY <1>3, OrderIds DEF IsNext
  <2>2. id # 0 /\ \A i \in 1..n : ms[i].id # 0
    <3>1. \A i \in 1..n : ms[i].id \in DOMAIN orders[m]
      BY <1>4, <1>7, MakerIs
    <3> QED
      BY <1>4, <3>1 DEF Arrival, GoodOrders
  <2>3. /\ batch[1].orderId = id
        /\ \A i \in 1..n : batch[2 * i].orderId = ms[i].id /\ batch[2 * i + 1].orderId = id
    BY <1>6, <1>7 DEF BatchTells, ExecTells
  <2>4. k = 1 \/ \E i \in 1..n : k = 2 * i \/ k = 2 * i + 1
    BY <1>7, OneOfPair
  <2> QED
    BY <2>1, <2>2, <2>3, <2>4
<1>9. Len(batch) \in Nat /\ DOMAIN batch = 1..Len(batch)
  BY <1>7
<1>10. orders = [x \in DOMAIN orders |-> orders[x]]
       /\ orders[m] = [x \in DOMAIN orders[m] |-> orders[m][x]]
  BY <1>4 DEF OrdersAreTables
<1>11. PICK g : /\ TellsBy(g, orders[m], batch)
                /\ Replayed(orders, ExecMsgs(batch)) = [orders EXCEPT ![m] = g[Len(batch)]]
  BY <1>4, <1>8, <1>9, <1>10, ReplayExecs
<1>12. ToldSoFar(g[Len(batch)], orders[m], ms, Len(ms), id, TakerBy(order, ms, Len(ms)))
  BY <1>3, <1>4, <1>6, <1>10, <1>11, BatchTold
<1>13. g[Len(batch)] = TradedOrders(orders[m], ms, Rest(id, order, ms))
  BY <1>4, <1>12, ToldIsTraded
<1>14. /\ out' = ExecMsgs(batch)
       /\ orders' = [orders EXCEPT ![m] = TradedOrders(orders[m], ms, Rest(id, order, ms))]
  BY <1>1, <1>2 DEF OrderBooked, Post
<1> QED
  BY <1>11, <1>13, <1>14

\* A change that is committed is told: the last exec for an order says what it is.
LEMMA ChangeReplayed ==
    ASSUME EngineInv, OrdersAreTables, res' = "ok", IsChange
    PROVE  orders' = Replayed(orders, out')
<1>1. PICK a, m, ids, batch, after :
                /\ GoodChange(a, m, ids, {}, batch, after)
                /\ ChangeBooked(m, ids, batch, after)
                /\ Len(batch) = Len(ids) /\ DOMAIN batch = 1..Len(ids)
  BY ChangeOkIs, Zenon
<1>0. PICK os : os = orders[m]
  OBVIOUS
<1>2. PICK c \in Nat : /\ os = orders[m] /\ c = Len(ids) /\ DOMAIN ids = 1..c
                       /\ Len(batch) = c /\ DOMAIN batch = 1..c
  BY <1>1, <1>0 DEF GoodChange
<1>3. m \in DOMAIN markets /\ m \in DOMAIN orders
      /\ GoodOrders(os, markets[m].maxId)
  BY <1>1, <1>2, TheMarket DEF GoodChange, EngineInv, GoodMarket
<1>4. \A k \in 1..c : /\ ids[k] \in DOMAIN os
                      /\ ExecTells(batch[k], ids[k], after[ids[k]])
                      /\ batch[k].market = m
  BY <1>1, <1>2 DEF GoodChange, ExecIs
<1>5. \A k \in 1..c : batch[k].market = m /\ batch[k].orderId # 0
  BY <1>3, <1>4 DEF ExecTells, GoodOrders
<1>6. orders = [x \in DOMAIN orders |-> orders[x]] /\ os = [x \in DOMAIN os |-> os[x]]
  BY <1>2, <1>3 DEF OrdersAreTables
<1>7. PICK g : /\ TellsBy(g, os, batch)
               /\ Replayed(orders, ExecMsgs(batch)) = [orders EXCEPT ![m] = g[c]]
  BY <1>2, <1>3, <1>5, <1>6, ReplayExecs
<1>8. /\ g[0] = os
      /\ \A k \in 1..c : g[k] = Told(g[k - 1], ids[k], after[ids[k]])
  BY <1>2, <1>4, <1>7 DEF TellsBy, ExecTells
<1> DEFINE Is(k, h) ==
            /\ h = [x \in DOMAIN h |-> h[x]]
            /\ DOMAIN h = DOMAIN os \ DoneBy(ids, after, k)
            /\ \A x \in DOMAIN h : h[x] = IF x \in SeenBy(ids, k) THEN after[x] ELSE os[x]
           Good == {k \in Nat : k =< c => Is(k, g[k])}
<1>9. 0 \in Good
  <2>1. SeenBy(ids, 0) = {} /\ DoneBy(ids, after, 0) = {}
    BY DEF SeenBy, DoneBy
  <2> QED
    BY <1>6, <1>8, <2>1
<1>10. ASSUME NEW i \in Nat, i < c, i \in Good
       PROVE  i + 1 \in Good
  <2>1. PICK k \in 1..c : k = i + 1 /\ k - 1 = i /\ k \in Nat
    BY <1>10
  <2>2. PICK h, t, id, new : h = g[i] /\ t = g[k] /\ id = ids[k] /\ new = after[id]
    OBVIOUS
  <2>3. Is(i, h)
    BY <1>10, <2>2
  <2>4. t = Told(h, id, new) /\ id \in DOMAIN os
    BY <1>4, <1>8, <2>1, <2>2
  <2>5. /\ SeenBy(ids, k) = SeenBy(ids, i) \union {id}
        /\ DoneBy(ids, after, k) = DoneBy(ids, after, i) \union (IF Done(new) THEN {id} ELSE {})
        /\ ~Done(new) => id \notin DoneBy(ids, after, i)
    <3>1. \A j \in 1..k : j = k \/ j \in 1..i
      BY <2>1
    <3>2. k \in 1..k /\ \A j \in 1..i : j \in 1..k
      BY <2>1
    <3>3. SeenBy(ids, k) = SeenBy(ids, i) \union {id}
      BY <2>2, <3>1, <3>2 DEF SeenBy
    <3> QED
      BY <2>2, <3>3 DEF DoneBy
  <2>6. Is(k, t)
    <3>1. CASE Done(new)
      <4>1. t = [x \in DOMAIN h \ {id} |-> h[x]]
        BY <2>4, <3>1 DEF Told, Drop
      <4> QED
        BY <2>3, <2>5, <3>1, <4>1
    <3>2. CASE ~Done(new)
      <4>1. t = [x \in DOMAIN h \union {id} |-> IF x = id THEN new ELSE h[x]]
        BY <2>4, <3>2 DEF Told, Put
      <4>2. DOMAIN h \union {id} = DOMAIN os \ DoneBy(ids, after, k)
        BY <2>3, <2>4, <2>5, <3>2
      <4> QED
        BY <2>2, <2>3, <2>5, <3>2, <4>1, <4>2
    <3> QED
      BY <3>1, <3>2
  <2> HIDE DEF Is
  <2> QED
    BY <2>1, <2>2, <2>6
<1> HIDE DEF Good
<1>11. \A k \in 0..c : k \in Good
  BY <1>9, <1>10, NumberInduction
<1>12. Is(c, g[c])
  BY <1>11 DEF Good
<1>13. SeenBy(ids, c) = ToSet(ids) /\ DoneBy(ids, after, c) = DoneOf(ids, after)
  BY <1>2 DEF SeenBy, DoneBy, DoneOf, ToSet
<1>14. g[c] = [id \in DOMAIN os \ DoneOf(ids, after) |->
                    IF id \in ToSet(ids) THEN after[id] ELSE os[id]]
  BY <1>12, <1>13
<1>15. /\ out' = ExecMsgs(batch)
       /\ orders' = [orders EXCEPT ![m] = g[c]]
  BY <1>1, <1>2, <1>14 DEF ChangeBooked, Post
<1> QED
  BY <1>7, <1>15

\* A step that succeeds does to the orders what its messages tell.
LEMMA StepReplayed ==
    ASSUME EngineInv, OrdersAreTables, Next, res' = "ok", DOMAIN markets' = DOMAIN markets
    PROVE  orders' = Replayed(orders, out')
<1>1. CASE Quiet
  <2>1. UNCHANGED orders
    BY <1>1 DEF Quiet
  <2>2. Replayed(orders, out') = orders
    BY <1>1, ReplayNothing DEF Quiet, PostsNoExec
  <2> QED
    BY <2>1, <2>2
<1>2. CASE IsManual
  <2>1. PICK a, m, side, lots, ticks, cpty : CreateTrade(a, m, side, lots, ticks, cpty)
    BY <1>2, Zenon DEF IsManual
  <2>2. PICK id : id = markets[m].maxId + 1
    OBVIOUS
  <2>3. PICK batch : batch = ManualTrades(a, m, id, side, lots, ticks, cpty)
    OBVIOUS
  <2>4. PICK newPosns : newPosns = EnsurePosns(posns, {a, cpty}, m)
    OBVIOUS
  <2>5. TradeBooked(m, batch, newPosns) \/ TradeFailed(a, m, batch, newPosns)
    BY <2>1, <2>2, <2>3, <2>4, CreateTradeIs
  <2>6. UNCHANGED orders /\ out' = ExecMsgs(batch)
    <3>1. ~TradeFailed(a, m, batch, newPosns)
      BY DEF TradeFailed, FailAfterIds
    <3> QED
      BY <2>5, <3>1 DEF TradeBooked, Post
  <2>7. /\ Len(batch) \in Nat /\ DOMAIN batch = 1..Len(batch)
        /\ \A k \in DOMAIN batch : batch[k].orderId = 0
    BY <2>3, ManualTradesAre DEF ManualIs
  <2>8. /\ Len(out') \in Nat
        /\ \A k \in 1..Len(out') : out'[k].exec.orderId = 0
    BY <2>6, <2>7 DEF ExecMsgs
  <2>9. Replayed(orders, out') = orders
    BY <2>8, ReplayNothing
  <2> QED
    BY <2>6, <2>9
<1>3. ASSUME NEW m, NEW id, NEW order, NEW ms, IsUndone(m, id, order, ms)
      PROVE  FALSE
  BY <1>3 DEF IsUndone, OrderUndone
<1> QED
  BY <1>1, <1>2, <1>3, StepKinds, BookedReplayed, ChangeReplayed

\* The orders are tables in all states.
LEMMA TablesHold == Spec => []OrdersAreTables
<1>1. Init => OrdersAreTables
  <2> SUFFICES ASSUME Init PROVE OrdersAreTables
    OBVIOUS
  <2>1. orders = <<>>
    BY DEF Init
  <2> QED
    BY <2>1 DEF OrdersAreTables
<1>2. EngineInv /\ OrdersAreTables /\ [Next]_vars => OrdersAreTables'
  <2>1. CASE Next
    BY <2>1, TablesKept
  <2>2. CASE UNCHANGED vars
    BY <2>2 DEF vars, OrdersAreTables
  <2> QED
    BY <2>1, <2>2
<1> QED
  BY <1>1, <1>2, InvHolds, PTL DEF Spec

\* What a successful operation posts before its commit phase is what the commit
\* phase does to the orders, whatever the operation and its arguments: the
\* journal loses nothing (new_exec, Exec::trade, revise and cancel against
\* Order::trade, revise and cancel).
THEOREM JournalTold == Spec => JournalTellsOrders
<1>1. EngineInv /\ OrdersAreTables /\ [Next]_vars =>
        [res' = "ok" /\ DOMAIN markets' = DOMAIN markets
            => orders' = Replayed(orders, out')]_vars
  BY StepReplayed
<1> QED
  BY <1>1, InvHolds, TablesHold, PTL DEF Spec, JournalTellsOrders

-----------------------------------------------------------------------------
(* Trades have ids that their markets gave out. *)

\* Markets stay, and take ids.
Grows ==
    \A m \in DOMAIN markets :
        /\ m \in DOMAIN markets' /\ markets[m].maxId \in Nat /\ markets'[m].maxId \in Nat
        /\ markets[m].maxId =< markets'[m].maxId

\* A market takes n ids.
TakesIds(m, n) == markets' = [markets EXCEPT ![m].maxId = @ + n]

\* It takes n ids and records a last trade.
RecordsTrade(m, n) ==
    \E lots, ticks : markets' = [markets EXCEPT
        ![m].maxId = @ + n, ![m].lastLots = lots, ![m].lastTicks = ticks]

\* Markets do not change otherwise, or change in a way that keeps the ids.
LEMMA TakenGrow ==
    ASSUME EngineInv, NEW m, NEW n \in Nat,
           \/ UNCHANGED markets
           \/ TakesIds(m, n)
           \/ RecordsTrade(m, n)
           \/ \E state : markets' = [markets EXCEPT ![m].state = state]
           \/ m \notin DOMAIN markets /\ \E x : markets' = Put(markets, m, x)
    PROVE  Grows
<1> SUFFICES ASSUME NEW x \in DOMAIN markets
             PROVE  /\ x \in DOMAIN markets' /\ markets[x].maxId \in Nat
                    /\ markets'[x].maxId \in Nat /\ markets[x].maxId =< markets'[x].maxId
  BY DEF Grows
<1>1. PICK old \in Market : old = markets[x]
  BY TheMarket DEF EngineInv
<1>2. PICK c \in Nat : c = old.maxId
  BY <1>1, TheMarket DEF EngineInv
<1>3. x \in DOMAIN markets' /\ markets'[x].maxId \in {c, c + n}
  <2>1. CASE UNCHANGED markets
    BY <1>1, <1>2, <2>1
  <2>2. CASE TakesIds(m, n)
    BY <1>1, <1>2, <2>2 DEF TakesIds, Market
  <2>3. ASSUME NEW lots, NEW ticks, markets' = [markets EXCEPT
                    ![m].maxId = @ + n, ![m].lastLots = lots, ![m].lastTicks = ticks]
        PROVE  x \in DOMAIN markets' /\ markets'[x].maxId \in {c, c + n}
    BY <1>1, <1>2, <2>3 DEF Market
  <2>4. ASSUME NEW state, markets' = [markets EXCEPT ![m].state = state]
        PROVE  x \in DOMAIN markets' /\ markets'[x].maxId = c
    BY <1>1, <1>2, <2>4 DEF Market
  <2>5. ASSUME NEW y, m \notin DOMAIN markets, markets' = Put(markets, m, y)
        PROVE  x \in DOMAIN markets' /\ markets'[x].maxId = c
    BY <1>1, <1>2, <2>5 DEF Put
  <2> QED
    BY <2>1, <2>2, <2>3, <2>4, <2>5 DEF RecordsTrade
<1>4. PICK d : d = markets'[x].maxId
  OBVIOUS
<1>5. d = c \/ d = c + n
  BY <1>3, <1>4
<1>6. c =< d /\ d \in Nat
  <2>1. \A i, j \in Nat : i =< i /\ i =< i + j /\ i + j \in Nat
    BY ONLY TRUE
  <2> QED
    BY <1>2, <1>5, <2>1, Zenon
<1> QED
  BY <1>1, <1>2, <1>3, <1>4, <1>6

\* A market takes ids, or nothing happens to the markets.
TakesSome ==
    \E m : \E n \in Nat : UNCHANGED markets \/ TakesIds(m, n) \/ RecordsTrade(m, n)

\* Orders and trades only take ids of a market and record its last trade.
LEMMA MarketSteps ==
    ASSUME EngineInv, Next
    PROVE  TakesSome \/ MarketOps
<1>1. ASSUME UNCHANGED markets
      PROVE  TakesSome
  BY <1>1 DEF TakesSome
<1>2. ASSUME NEW m, NEW n \in Nat, FailAfterIds(m, n) \/ TakesIds(m, n)
      PROVE  TakesSome
  BY <1>2 DEF FailAfterIds, TakesIds, TakesSome
<1>3. CASE CreateOrders
  <2>1. PICK a \in Accnts, m \in DOMAIN markets, ref \in Refs \union {NoRef},
             side \in Sides, lots \in 0..MaxLots, ticks \in 1..MaxTicks,
             minLots \in MinLots :
                CreateOrder(a, m, ref, side, lots, ticks, minLots)
    BY <1>3 DEF CreateOrders
  <2>2. PICK order : order = OrderOf(a, ref, side, lots, ticks, minLots)
    OBVIOUS
  <2>3. PICK id, ms : /\ id = markets[m].maxId + 1
                      /\ ms = Matches(order, books[m][Opposite(side)].list, orders[m])
    OBVIOUS
  <2>4. \/ Refuse
        \/ /\ OrderPasses(a, ref, lots, minLots, id, ms)
           /\ \/ OrderBooked(a, m, side, id, order, ms)
              \/ OrderUndone(a, m, side, id, order, ms)
              \/ OrderDropped(a, m, ms)
    BY <2>1, <2>2, <2>3, CreateOrderIs
  <2>5. CASE Refuse
    BY <1>1, <2>5 DEF Refuse
  <2>6. ASSUME OrderPasses(a, ref, lots, minLots, id, ms)
        PROVE  Len(ms) \in Nat /\ Len(OrderExecs(m, id, order, ms)) \in Nat
    <3>1. NewOrder(a, m, ref, side, lots, ticks, minLots, id, order, ms)
      BY <2>1, <2>2, <2>3, <2>6 DEF NewOrder
    <3>2. Len(ms) \in Nat
      BY <3>1, NewOrderArrives
    <3>3. OrderBatch(OrderExecs(m, id, order, ms), Len(ms), m, id, order, ms)
      BY <3>1, NewOrderBatch
    <3> QED
      BY <3>2, <3>3 DEF OrderBatch
  <2>7. ASSUME OrderPasses(a, ref, lots, minLots, id, ms),
               OrderBooked(a, m, side, id, order, ms)
        PROVE  TakesSome
    <3>1. PICK n \in Nat : n = Len(OrderExecs(m, id, order, ms))
      BY <2>6, <2>7
    <3>2. RecordsTrade(m, n)
      <4>1. PICK x, y : /\ x = IF Len(ms) = 0 THEN markets[m].lastLots ELSE Last(ms).lots
                        /\ y = IF Len(ms) = 0 THEN markets[m].lastTicks ELSE Last(ms).ticks
        OBVIOUS
      <4>2. markets' = [markets EXCEPT
                    ![m].maxId = @ + n, ![m].lastLots = x, ![m].lastTicks = y]
        BY <2>1, <2>7, <3>1, <4>1 DEF OrderBooked
      <4> QED
        BY <4>2 DEF RecordsTrade
    <3> QED
      BY <3>1, <3>2 DEF TakesSome
  <2>8. ASSUME OrderPasses(a, ref, lots, minLots, id, ms),
               OrderUndone(a, m, side, id, order, ms)
        PROVE  TakesSome
    BY <1>2, <2>6, <2>8 DEF OrderUndone, TakesIds
  <2>9. ASSUME OrderPasses(a, ref, lots, minLots, id, ms), OrderDropped(a, m, ms)
        PROVE  TakesSome
    <3>1. PICK j \in Nat : FailAfterIds(m, 1 + 2 * j)
      BY <2>9 DEF OrderDropped
    <3>2. 1 + 2 * j \in Nat
      OBVIOUS
    <3> QED
      BY <1>2, <3>1, <3>2
  <2> QED
    BY <2>4, <2>5, <2>7, <2>8, <2>9
<1>4. ASSUME IsChange
      PROVE  TakesSome
  <2>1. PICK a, m, ids, bad, batch, after :
            /\ GoodChange(a, m, ids, bad, batch, after)
            /\ ChangeOrders(m, ids, bad, batch, after)
    BY <1>4 DEF IsChange
  <2>2. Len(ids) \in Nat /\ (bad # {} => Min(bad) - 1 \in Nat)
    <3>1. PICK n \in Nat : n = Len(ids) /\ bad \subseteq 1..n
      BY <2>1 DEF GoodChange
    <3>2. ASSUME bad # {}
          PROVE  Min(bad) \in 1..n
      <4>1. bad \subseteq Nat
        BY <3>1
      <4>2. \E x \in bad : \A y \in bad : x =< y
        BY <3>2, <4>1, LeastNumber
      <4>3. Min(bad) \in bad
        BY <4>2 DEF Min
      <4> QED
        BY <3>1, <4>3
    <3> QED
      BY <3>1, <3>2
  <2>3. CASE ChangeFailed(m, ids, bad, batch)
    BY <1>2, <2>2, <2>3 DEF ChangeFailed
  <2>4. CASE ChangeBooked(m, ids, batch, after) \/ ChangeAborted(m, ids, batch)
    BY <1>2, <2>2, <2>4 DEF ChangeBooked, ChangeAborted, TakesIds
  <2> QED
    BY <2>1, <2>3, <2>4, ChangeOrdersIs
<1>5. CASE ChangeOrder
  BY <1>1, <1>4, <1>5, ChangeOrderIs DEF Refuse
<1>6. ASSUME IsManual
      PROVE  TakesSome
  <2>1. PICK a \in Accnts, m \in DOMAIN markets, side \in Sides, lots \in 1..MaxLots,
             ticks \in 1..MaxTicks, cpty \in Accnts \union {NoAccnt} :
                CreateTrade(a, m, side, lots, ticks, cpty)
    BY <1>6 DEF IsManual
  <2>2. PICK id : id = markets[m].maxId + 1
    OBVIOUS
  <2>3. PICK batch : batch = ManualTrades(a, m, id, side, lots, ticks, cpty)
    OBVIOUS
  <2>4. PICK newPosns : newPosns = EnsurePosns(posns, {a, cpty}, m)
    OBVIOUS
  <2>5. TradeBooked(m, batch, newPosns) \/ TradeFailed(a, m, batch, newPosns)
    BY <2>1, <2>2, <2>3, <2>4, CreateTradeIs
  <2>6. Len(batch) \in Nat
    BY <2>3, ManualTradesAre
  <2>7. CASE TradeBooked(m, batch, newPosns)
    BY <1>2, <2>6, <2>7 DEF TradeBooked, TakesIds
  <2>8. CASE TradeFailed(a, m, batch, newPosns)
    <3>1. \E n \in Nat : FailAfterIds(m, n)
      BY <2>6, <2>8 DEF TradeFailed
    <3> QED
      BY <1>2, <3>1
  <2> QED
    BY <2>5, <2>7, <2>8
<1>7. CASE TradeOps
  <2>1. ASSUME NEW a, NEW m, NEW ids, ArchiveTrade(a, m, ids)
        PROVE  UNCHANGED markets
    BY <2>1 DEF ArchiveTrade, Refuse
  <2> QED
    BY <1>1, <1>6, <1>7, <2>1 DEF TradeOps, IsManual
<1>8. CASE NextDay
  BY <1>1, <1>8 DEF NextDay
<1> QED
  BY <1>3, <1>5, <1>7, <1>8 DEF Next

\* No operation removes a market or gives ids back (Market::alloc_id).
LEMMA MarketsGrow ==
    ASSUME EngineInv, Next
    PROVE  Grows
<1>1. CASE TakesSome
  BY <1>1, TakenGrow DEF TakesSome
<1>2. CASE MarketOps
  <2>1. ASSUME NEW m, NEW state, CreateMarket(m, state)
        PROVE  \/ UNCHANGED markets
               \/ m \notin DOMAIN markets /\ \E x : markets' = Put(markets, m, x)
    BY <2>1 DEF CreateMarket, Refuse
  <2>2. ASSUME NEW m, NEW state, UpdateMarket(m, state)
        PROVE  UNCHANGED markets \/ \E x : markets' = [markets EXCEPT ![m].state = x]
    BY <2>2 DEF UpdateMarket
  <2>3. 0 \in Nat
    OBVIOUS
  <2> QED
    BY <1>2, <2>1, <2>2, <2>3, TakenGrow DEF MarketOps
<1> QED
  BY <1>1, <1>2, MarketSteps

\* The trades that an operation adds to the sessions are among those it posts
\* (Sess::insert_trade).
TradesOfSent ==
    \A a \in Accnts : trades'[a] \subseteq trades[a] \union {<<e.market, e.id>> : e \in Sent}

\* What insert_trade makes of a batch that is posted.
LEMMA InsertedAreSent ==
    ASSUME NEW batch, Len(batch) \in Nat, DOMAIN batch = 1..Len(batch),
           trades' = InsertTrades(trades, batch), out' = ExecMsgs(batch)
    PROVE  TradesOfSent
<1>1. Sent = {batch[k] : k \in 1..Len(batch)}
  BY OkSent
<1> SUFFICES ASSUME NEW a \in Accnts
             PROVE  trades'[a] \subseteq
                        trades[a] \union {<<e.market, e.id>> : e \in Sent}
  BY DEF TradesOfSent
<1>2. trades'[a] = trades[a] \union
        {<<batch[k].market, batch[k].id>> :
            k \in {j \in DOMAIN batch : batch[j].accnt = a /\ batch[j].state = "Trade"}}
  BY DEF InsertTrades
<1> QED
  BY <1>1, <1>2

\* Every step gives sessions only trades that it posts (insert_trade).
LEMMA TradesAreSent ==
    ASSUME EngineInv, Next
    PROVE  TradesOfSent
<1>1. ASSUME UNCHANGED trades
      PROVE  TradesOfSent
  BY <1>1 DEF TradesOfSent
<1>2. CASE CreateOrders
  <2>1. PICK a \in Accnts, m \in DOMAIN markets, ref \in Refs \union {NoRef},
             side \in Sides, lots \in 0..MaxLots, ticks \in 1..MaxTicks,
             minLots \in MinLots :
                CreateOrder(a, m, ref, side, lots, ticks, minLots)
    BY <1>2 DEF CreateOrders
  <2>2. PICK order : order = OrderOf(a, ref, side, lots, ticks, minLots)
    OBVIOUS
  <2>3. PICK id, ms : /\ id = markets[m].maxId + 1
                      /\ ms = Matches(order, books[m][Opposite(side)].list, orders[m])
    OBVIOUS
  <2>4. \/ Refuse
        \/ /\ OrderPasses(a, ref, lots, minLots, id, ms)
           /\ \/ OrderBooked(a, m, side, id, order, ms)
              \/ OrderUndone(a, m, side, id, order, ms)
              \/ OrderDropped(a, m, ms)
    BY <2>1, <2>2, <2>3, CreateOrderIs
  <2>5. CASE Refuse \/ OrderUndone(a, m, side, id, order, ms) \/ OrderDropped(a, m, ms)
    BY <1>1, <2>5 DEF Refuse, OrderUndone, OrderDropped, FailAfterIds, sessVars
  <2>6. ASSUME OrderPasses(a, ref, lots, minLots, id, ms),
               OrderBooked(a, m, side, id, order, ms)
        PROVE  TradesOfSent
    <3>1. PICK batch : batch = OrderExecs(m, id, order, ms)
      OBVIOUS
    <3>2. NewOrder(a, m, ref, side, lots, ticks, minLots, id, order, ms)
      BY <2>1, <2>2, <2>3, <2>6 DEF NewOrder
    <3>3. OrderBatch(batch, Len(ms), m, id, order, ms)
      BY <3>1, <3>2, NewOrderBatch
    <3>4. Len(batch) \in Nat /\ DOMAIN batch = 1..Len(batch)
      BY <3>3 DEF OrderBatch
    <3>5. trades' = InsertTrades(trades, batch) /\ out' = ExecMsgs(batch)
      BY <2>6, <3>1 DEF OrderBooked, Post
    <3> QED
      BY <3>4, <3>5, InsertedAreSent
  <2> QED
    BY <2>4, <2>5, <2>6
<1>3. ASSUME IsChange
      PROVE  UNCHANGED trades
  <2>1. PICK a, m, ids, bad, batch, after : ChangeOrders(m, ids, bad, batch, after)
    BY <1>3 DEF IsChange
  <2> QED
    BY <2>1, ChangeOrdersIs
       DEF ChangeFailed, ChangeBooked, ChangeAborted, FailAfterIds, sessVars
<1>4. CASE ChangeOrder
  BY <1>1, <1>3, <1>4, ChangeOrderIs DEF Refuse, sessVars
<1>5. ASSUME IsManual
      PROVE  TradesOfSent
  <2>1. PICK a \in Accnts, m \in DOMAIN markets, side \in Sides, lots \in 1..MaxLots,
             ticks \in 1..MaxTicks, cpty \in Accnts \union {NoAccnt} :
                CreateTrade(a, m, side, lots, ticks, cpty)
    BY <1>5 DEF IsManual
  <2>2. PICK id : id = markets[m].maxId + 1
    OBVIOUS
  <2>3. PICK batch : batch = ManualTrades(a, m, id, side, lots, ticks, cpty)
    OBVIOUS
  <2>4. PICK newPosns : newPosns = EnsurePosns(posns, {a, cpty}, m)
    OBVIOUS
  <2>5. TradeBooked(m, batch, newPosns) \/ TradeFailed(a, m, batch, newPosns)
    BY <2>1, <2>2, <2>3, <2>4, CreateTradeIs
  <2>6. Len(batch) \in Nat /\ DOMAIN batch = 1..Len(batch)
    BY <2>3, ManualTradesAre
  <2>7. CASE TradeBooked(m, batch, newPosns)
    BY <2>6, <2>7, InsertedAreSent DEF TradeBooked, Post
  <2>8. CASE TradeFailed(a, m, batch, newPosns)
    BY <1>1, <2>8 DEF TradeFailed, FailAfterIds, sessVars
  <2> QED
    BY <2>5, <2>7, <2>8
<1>6. CASE TradeOps
  <2>1. ASSUME NEW a, NEW m, NEW ids, ArchiveTrade(a, m, ids)
        PROVE  TradesOfSent
    <3>1. PICK keys : keys = {<<m, ids[i]>> : i \in DOMAIN ids}
      OBVIOUS
    <3>2. UNCHANGED trades \/ trades' = [trades EXCEPT ![a] = @ \ keys]
      BY <2>1, <3>1 DEF ArchiveTrade, Refuse, sessVars
    <3>3. trades \in [Accnts -> SUBSET Keys]
      BY DEF EngineInv
    <3> QED
      BY <3>2, <3>3 DEF TradesOfSent
  <2> QED
    BY <1>5, <1>6, <2>1 DEF TradeOps, IsManual
<1>7. CASE MarketOps
  <2>1. ASSUME NEW m, NEW state, CreateMarket(m, state) \/ UpdateMarket(m, state)
        PROVE  UNCHANGED trades
    BY <2>1 DEF CreateMarket, UpdateMarket, Refuse, sessVars
  <2> QED
    BY <1>1, <1>7, <2>1 DEF MarketOps
<1>8. CASE NextDay
  BY <1>1, <1>8 DEF NextDay, sessVars
<1> QED
  BY <1>2, <1>4, <1>6, <1>7, <1>8 DEF Next

\* The trades of a session were numbered by their markets.
TradesAreNumbered ==
    \A a \in Accnts : \A k \in trades[a] :
        k[1] \in DOMAIN markets /\ k[2] =< markets[k[1]].maxId

\* Every step keeps the ids of trades within those that their markets gave out.
LEMMA NumbersKept ==
    ASSUME EngineInv, TradesAreNumbered, Next
    PROVE  TradesAreNumbered'
<1>1. Grows /\ TradesOfSent
  BY MarketsGrow, TradesAreSent
<1>2. ASSUME NEW e \in Sent
      PROVE  e.market \in DOMAIN markets' /\ e.id =< markets'[e.market].maxId
  <2>1. CASE PostsNoExec
    BY <1>2, <2>1 DEF PostsNoExec, Sent
  <2>2. ASSUME NEW m, NEW batch, NEW n, PostsNext(m, batch, n)
        PROVE  e.market \in DOMAIN markets' /\ e.id =< markets'[e.market].maxId
    <3>1. PICK last \in Nat, next \in Nat :
            last = markets[m].maxId /\ next = markets'[m].maxId
      BY <2>2 DEF PostsNext
    <3>2. Sent = {batch[k] : k \in 1..n} /\ n \in 0..Len(batch) /\ Len(batch) \in Nat
      BY <2>2, SentAre DEF PostsNext, PostsFirst
    <3>3. PICK k \in 1..n : e = batch[k]
      BY <1>2, <3>2
    <3>4. last + n =< next
      BY <2>2, <3>1 DEF PostsNext
    <3>5. k \in 1..Len(batch)
      BY <3>2, <3>3
    <3>6. e.market = m /\ e.id = last + k
      BY <2>2, <3>1, <3>3, <3>5 DEF PostsNext, IsNext
    <3>7. last + k =< next
      BY <3>2, <3>4
    <3>8. m \in DOMAIN markets'
      BY <1>1, <2>2 DEF Grows, PostsNext
    <3> QED
      BY <3>1, <3>6, <3>7, <3>8
  <2> QED
    BY <2>1, <2>2, StepPosts DEF PostsExecs
<1>3. ASSUME NEW a \in Accnts, NEW k \in trades'[a]
      PROVE  k[1] \in DOMAIN markets' /\ k[2] =< markets'[k[1]].maxId
  <2>1. CASE k \in trades[a]
    <3>1. k[2] \in Int
      BY <2>1, EngineAssumption DEF EngineInv, Keys
    <3>2. PICK m : m = k[1]
      OBVIOUS
    <3>3. PICK last \in Nat, next \in Nat :
            /\ m \in DOMAIN markets' /\ last = markets[m].maxId /\ next = markets'[m].maxId
            /\ last =< next /\ k[2] =< last
      BY <1>1, <2>1, <3>2 DEF Grows, TradesAreNumbered
    <3> QED
      BY <3>1, <3>2, <3>3
  <2>2. CASE k \notin trades[a]
    <3>1. PICK e \in Sent : k = <<e.market, e.id>>
      BY <1>1, <1>3, <2>2 DEF TradesOfSent
    <3> QED
      BY <1>2, <3>1
  <2> QED
    BY <2>1, <2>2
<1> QED
  BY <1>3 DEF TradesAreNumbered

\* So they stay in every behaviour (Market::alloc_id, insert_trade).
LEMMA NumbersHold == Spec => []TradesAreNumbered
<1>1. Init => TradesAreNumbered
  BY DEF Init, TradesAreNumbered
<1>2. EngineInv /\ TradesAreNumbered /\ [Next]_vars => TradesAreNumbered'
  <2>1. CASE Next
    BY <2>1, NumbersKept
  <2>2. CASE UNCHANGED vars
    BY <2>2 DEF vars, sessVars, TradesAreNumbered
  <2> QED
    BY <2>1, <2>2
<1> QED
  BY <1>1, <1>2, InvHolds, PTL DEF Spec

-----------------------------------------------------------------------------
(* What a batch makes of positions. *)

\* What a position is worth, in lots or in cost, and by how much a trade moves it.
Worth(kind, p) == IF kind = "lots" THEN NetLots(p) ELSE p.buyCost - p.sellCost

Moves(kind, e) == IF kind = "lots" THEN Signed(e) ELSE Signed(e) * e.lastTicks

WorthIn(kind, ps, a, m) == IF m \in DOMAIN ps[a] THEN Worth(kind, ps[a][m]) ELSE 0

IsFor(e, a, m) == e.state = "Trade" /\ e.accnt = a /\ e.market = m

\* The position of a in m moves by the trade e, if e is one of a in m.
WorthMoves(kind, p, q, e, a, m) ==
    /\ WorthIn(kind, p, a, m) \in Int /\ Moves(kind, e) \in Int
    /\ WorthIn(kind, q, a, m) =
            WorthIn(kind, p, a, m) + (IF IsFor(e, a, m) THEN Moves(kind, e) ELSE 0)

\* add_trade moves lots and costs by the signed lots of the trade and what they
\* cost, and no other position.
LEMMA MovesWorth ==
    ASSUME NEW p, NEW q, NEW e, GoodPosns(p), PosnsMove(p, q, e),
           e.lastLots \in Nat, e.lastTicks \in Nat,
           e.state = "Trade" => e.market \in DOMAIN p[e.accnt],
           NEW kind, NEW a \in Accnts, NEW m
    PROVE  WorthMoves(kind, p, q, e, a, m)
<1>1. PICK lots \in Int, ticks \in Int : lots = e.lastLots /\ ticks = e.lastTicks
  OBVIOUS
<1>2. PICK sign \in Int : sign = IF e.side = "Buy" THEN 1 ELSE -1
  OBVIOUS
<1>3. Moves(kind, e) = (IF kind = "lots" THEN sign * lots ELSE sign * (lots * ticks))
      /\ Moves(kind, e) \in Int
  <2>1. CASE e.side = "Buy"
    BY <1>1, <1>2, <2>1 DEF Moves, Signed
  <2>2. CASE e.side # "Buy"
    <3>1. (-lots) * ticks = sign * (lots * ticks) /\ -lots = sign * lots
      BY <1>2, <2>2
    <3> QED
      BY <1>1, <2>2, <3>1 DEF Moves, Signed
  <2> QED
    BY <2>1, <2>2
<1>4. /\ DOMAIN q[a] = DOMAIN p[a]
      /\ m \in DOMAIN p[a] =>
            q[a][m] = IF IsFor(e, a, m) THEN AddTrade(p[a][m], e.side, lots, ticks) ELSE p[a][m]
  BY <1>1 DEF PosnsMove, IsFor
<1>5. CASE m \notin DOMAIN p[a]
  BY <1>3, <1>4, <1>5 DEF WorthMoves, WorthIn, IsFor
<1>6. CASE m \in DOMAIN p[a]
  <2>1. PICK old \in PosnType : old = p[a][m]
    BY <1>6 DEF GoodPosns
  <2>2. PICK new : new = AddTrade(old, e.side, lots, ticks)
    OBVIOUS
  <2>3. /\ new \in PosnType /\ NetLots(old) \in Int
        /\ NetLots(new) = NetLots(old) + sign * lots
        /\ new.buyCost - new.sellCost = (old.buyCost - old.sellCost) + sign * (lots * ticks)
    BY <1>2, <2>2, AddTradeIs
  <2>4. Worth(kind, old) \in Int
    BY <2>1, <2>3 DEF Worth, PosnType
  <2>5. Worth(kind, new) = Worth(kind, old) + Moves(kind, e)
    BY <1>3, <2>3 DEF Worth
  <2>6. WorthIn(kind, p, a, m) = Worth(kind, old)
    BY <1>6, <2>1 DEF WorthIn
  <2>7. WorthIn(kind, q, a, m) = IF IsFor(e, a, m) THEN Worth(kind, new) ELSE Worth(kind, old)
    BY <1>4, <1>6, <2>1, <2>2 DEF WorthIn
  <2> QED
    BY <1>3, <2>4, <2>5, <2>6, <2>7 DEF WorthMoves
<1> QED
  BY <1>5, <1>6

\* There is a position for each trade of a batch.
PosnsThere(ps, batch) ==
    \A k \in 1..Len(batch) :
        batch[k].state = "Trade" => batch[k].market \in DOMAIN ps[batch[k].accnt]

\* The positions move trade by trade.
MovedBy(f, ps, batch) ==
    /\ f[0] = ps /\ AddTrades(ps, batch) = f[Len(batch)]
    /\ \A k \in 1..Len(batch) : \A kind : \A a \in Accnts : \A m :
            WorthMoves(kind, f[k - 1], f[k], batch[k], a, m)

\* add_trade for each exec of a batch.
LEMMA BatchMoves ==
    ASSUME NEW ps, GoodPosns(ps), NEW batch, GoodBatch(batch), PosnsThere(ps, batch)
    PROVE  \E f : MovedBy(f, ps, batch)
<1>1. PICK n \in Nat : n = Len(batch) /\ DOMAIN batch = 1..n
  BY DEF GoodBatch
<1>2. PICK f : AddedBy(f, ps, batch)
  BY <1>1, AddSteps
<1> DEFINE There(p) == GoodPosns(p) /\ \A a \in Accnts : DOMAIN p[a] = DOMAIN ps[a]
           Good == {k \in Nat : k =< n => There(f[k])}
<1>3. 0 \in Good
  BY <1>2 DEF AddedBy
<1>4. ASSUME NEW k \in 1..n, There(f[k - 1])
      PROVE  There(f[k]) /\ PosnsMove(f[k - 1], f[k], batch[k])
  <2>1. PICK p, q : p = f[k - 1] /\ q = f[k]
    OBVIOUS
  <2>2. q = AddOne(p, batch, k) /\ k \in 1..Len(batch)
    BY <1>1, <1>2, <2>1 DEF AddedBy
  <2>3. GoodPosns(q) /\ PosnsMove(p, q, batch[k])
    BY <1>4, <2>1, <2>2, AddOneIs
  <2> QED
    BY <1>4, <2>1, <2>3 DEF PosnsMove
<1>5. ASSUME NEW k \in Nat, k < n, k \in Good
      PROVE  k + 1 \in Good
  <2>1. PICK j \in 1..n : j = k + 1 /\ j - 1 = k /\ j \in Nat
    BY <1>5
  <2>2. There(f[j - 1])
    BY <1>5, <2>1
  <2>3. There(f[j])
    BY <1>4, <2>2
  <2> HIDE DEF There
  <2> QED
    BY <2>1, <2>3
<1>6. \A k \in 0..n : There(f[k])
  <2> HIDE DEF Good
  <2>1. \A k \in 0..n : k \in Good
    BY <1>3, <1>5, NumberInduction
  <2> HIDE DEF There
  <2> QED
    BY <2>1 DEF Good
<1>7. ASSUME NEW k \in 1..n, NEW kind, NEW a \in Accnts, NEW m
      PROVE  WorthMoves(kind, f[k - 1], f[k], batch[k], a, m)
  <2>1. k - 1 \in 0..n
    OBVIOUS
  <2>2. PICK p, q, e : p = f[k - 1] /\ q = f[k] /\ e = batch[k]
    OBVIOUS
  <2>3. There(p)
    BY <1>6, <2>1, <2>2
  <2>4. PosnsMove(p, q, e)
    BY <1>4, <2>2, <2>3
  <2>5. e.lastLots \in Nat /\ e.lastTicks \in Nat /\ e.accnt \in Accnts
    BY <1>1, <2>2 DEF GoodBatch
  <2>6. e.state = "Trade" => e.market \in DOMAIN p[e.accnt]
    BY <1>1, <2>2, <2>3, <2>5 DEF PosnsThere
  <2>7. WorthMoves(kind, p, q, e, a, m)
    BY <2>3, <2>4, <2>5, <2>6, MovesWorth
  <2> QED
    BY <2>2, <2>7
<1>8. f[0] = ps /\ AddTrades(ps, batch) = f[n]
  BY <1>1, <1>2 DEF AddedBy
<1> QED
  BY <1>1, <1>7, <1>8 DEF MovedBy

\* The first k trades of a batch that are trades of a in m, and what trades move
\* together.
TradesFor(batch, k, a, m) == {e \in {batch[j] : j \in 1..k} : IsFor(e, a, m)}

SumOfMoves(kind, S) == SumFunction([e \in S |-> Moves(kind, e)])

\* One more trade.
LEMMA OneMoreMoves ==
    ASSUME NEW kind, NEW S, IsFiniteSet(S), \A e \in S : Moves(kind, e) \in Int,
           NEW x, x \notin S, Moves(kind, x) \in Int
    PROVE  SumOfMoves(kind, S \union {x}) = Moves(kind, x) + SumOfMoves(kind, S)
<1>1. PICK E : E = S \union {x}
  OBVIOUS
<1>2. PICK f, g : f = [e \in E |-> Moves(kind, e)] /\ g = [e \in S |-> Moves(kind, e)]
  OBVIOUS
<1>3. f \in [E -> Int] /\ g \in [S -> Int] /\ \A e \in S : f[e] = g[e]
  BY <1>1, <1>2
<1>4. SumFunction(f) = f[x] + SumFunction(g)
  BY <1>1, <1>3, SumAdd
<1>5. SumOfMoves(kind, E) = SumFunction(f) /\ SumOfMoves(kind, S) = SumFunction(g)
      /\ f[x] = Moves(kind, x)
  BY <1>1, <1>2 DEF SumOfMoves
<1> QED
  BY <1>1, <1>4, <1>5

\* A batch of execs with ids of their own moves a position by its trades.
LEMMA BatchSum ==
    ASSUME NEW ps, NEW batch, Len(batch) \in Nat \ {0}, NEW f, MovedBy(f, ps, batch),
           \A i, j \in 1..Len(batch) : i # j => batch[i].id # batch[j].id,
           NEW kind, NEW a \in Accnts, NEW m
    PROVE  /\ WorthIn(kind, ps, a, m) \in Int
           /\ SumOfMoves(kind, TradesFor(batch, Len(batch), a, m)) \in Int
           /\ WorthIn(kind, AddTrades(ps, batch), a, m) = WorthIn(kind, ps, a, m)
                + SumOfMoves(kind, TradesFor(batch, Len(batch), a, m))
<1>1. PICK n \in Nat \ {0} : n = Len(batch)
  OBVIOUS
<1> DEFINE S(k) == TradesFor(batch, k, a, m)
           Is(k) == /\ IsFiniteSet(S(k))
                    /\ \A e \in S(k) : Moves(kind, e) \in Int
                    /\ SumOfMoves(kind, S(k)) \in Int
                    /\ WorthIn(kind, f[k], a, m) \in Int
                    /\ WorthIn(kind, f[k], a, m)
                            = WorthIn(kind, ps, a, m) + SumOfMoves(kind, S(k))
           Good == {k \in Nat : k =< n => Is(k)}
<1>2. \A k \in 1..n : WorthMoves(kind, f[k - 1], f[k], batch[k], a, m)
  BY <1>1 DEF MovedBy
<1>3. WorthIn(kind, ps, a, m) \in Int /\ f[0] = ps
  <2>1. 1 \in 1..n /\ 1 - 1 = 0 /\ f[0] = ps
    BY <1>1 DEF MovedBy
  <2> QED
    BY <1>2, <2>1 DEF WorthMoves
<1>4. 0 \in Good
  <2>1. S(0) = {}
    BY DEF TradesFor
  <2> HIDE DEF S
  <2>2. SumOfMoves(kind, S(0)) = 0
    BY <2>1, SumEmpty DEF SumOfMoves
  <2>7. PICK T : T = S(0)
    OBVIOUS
  <2>8. PICK w \in Int : w = WorthIn(kind, ps, a, m)
    BY <1>3
  <2>3. w \in Int /\ w = WorthIn(kind, ps, a, m) /\ T = S(0)
    BY <2>7, <2>8
  <2>4. w = w + 0 /\ IsFiniteSet(T) /\ T = {}
    <3>1. T = {}
      BY <2>1, <2>3
    <3>2. IsFiniteSet(T)
      BY <3>1, FS_EmptySet, Zenon
    <3> QED
      BY <2>3, <3>1, <3>2
  <2>5. /\ \A e \in T : Moves(kind, e) \in Int
        /\ SumOfMoves(kind, T) = 0
    BY <2>1, <2>2, <2>3
  <2>6. Is(0)
    BY <1>3, <2>3, <2>4, <2>5
  <2> HIDE DEF Is
  <2> QED
    BY <2>6
<1>5. ASSUME NEW i \in Nat, i < n, i \in Good
      PROVE  i + 1 \in Good
  <2>1. PICK k \in 1..n : k = i + 1 /\ k - 1 = i /\ k \in Nat
    BY <1>5
  <2>2. Is(i)
    <3> HIDE DEF Is
    <3> QED
      BY <1>5
  <2>3. PICK e, T, U : e = batch[k] /\ T = S(i) /\ U = S(k)
    OBVIOUS
  <2>11. PICK v : v = WorthIn(kind, f[k], a, m)
    OBVIOUS
  <2>12. PICK w \in Int, s \in Int :
            /\ w = WorthIn(kind, f[i], a, m) /\ s = SumOfMoves(kind, T)
            /\ w = WorthIn(kind, ps, a, m) + s
    <3> HIDE DEF S
    <3> QED
      BY <2>2, <2>3
  <2>4. /\ w \in Int /\ s \in Int
        /\ w = WorthIn(kind, f[i], a, m) /\ v = WorthIn(kind, f[k], a, m)
        /\ s = SumOfMoves(kind, T) /\ w = WorthIn(kind, ps, a, m) + s
    BY <2>11, <2>12
  <2>5. /\ Moves(kind, e) \in Int
        /\ v = w + (IF IsFor(e, a, m) THEN Moves(kind, e) ELSE 0)
    BY <1>2, <2>1, <2>3, <2>4 DEF WorthMoves
  <2>6. U = IF IsFor(e, a, m) THEN T \union {e} ELSE T
    <3>1. \A j \in 1..k : j = k \/ j \in 1..i
      BY <2>1
    <3>2. k \in 1..k /\ \A j \in 1..i : j \in 1..k
      BY <2>1
    <3> QED
      BY <2>3, <3>1, <3>2 DEF TradesFor
  <2>7. e \notin T
    <3>1. \A j \in 1..i : j \in 1..n /\ j # k
      BY <2>1
    <3>2. \A j \in 1..i : batch[j] # e
      BY <1>1, <2>3, <3>1
    <3> QED
      BY <2>3, <3>2 DEF TradesFor
  <2>8. IsFiniteSet(T) /\ \A x \in T : Moves(kind, x) \in Int
    BY <2>2, <2>3
  <2>9. /\ IsFiniteSet(U) /\ \A x \in U : Moves(kind, x) \in Int
        /\ SumOfMoves(kind, U) = s + (IF IsFor(e, a, m) THEN Moves(kind, e) ELSE 0)
    <3>1. CASE IsFor(e, a, m)
      <4>1. U = T \union {e}
        BY <2>6, <3>1
      <4>2. SumOfMoves(kind, U) = Moves(kind, e) + SumOfMoves(kind, T)
        BY <2>5, <2>7, <2>8, <4>1, OneMoreMoves
      <4>3. IsFiniteSet(U)
        BY <2>8, <4>1, FS_AddElement
      <4> QED
        BY <2>4, <2>5, <2>8, <3>1, <4>1, <4>2, <4>3
    <3>2. CASE ~IsFor(e, a, m)
      BY <2>4, <2>6, <2>8, <3>2
    <3> QED
      BY <3>1, <3>2
  <2>10. Is(k)
    <3>1. PICK d \in Int : d = IF IsFor(e, a, m) THEN Moves(kind, e) ELSE 0
      BY <2>5
    <3>2. v = w + d /\ SumOfMoves(kind, U) = s + d
      BY <2>5, <2>9, <3>1
    <3>3. v \in Int /\ s + d \in Int /\ v = WorthIn(kind, ps, a, m) + (s + d)
      BY <1>3, <2>4, <3>2
    <3> HIDE DEF S
    <3> QED
      BY <2>3, <2>4, <2>9, <3>2, <3>3
  <2> HIDE DEF Is
  <2> QED
    BY <2>1, <2>10
<1> HIDE DEF Good
<1>6. n \in Good
  <2>1. \A k \in 0..n : k \in Good
    BY <1>4, <1>5, NumberInduction
  <2> QED
    BY <2>1
<1>7. Is(n)
  <2> HIDE DEF Is
  <2> QED
    BY <1>6 DEF Good
<1>8. AddTrades(ps, batch) = f[n]
  BY <1>1 DEF MovedBy
<1> QED
  BY <1>1, <1>3, <1>7, <1>8

-----------------------------------------------------------------------------
(* What the operations that trade make of positions. *)

\* A position that Sess::posn creates is worth nothing.
LEMMA EnsureWorth ==
    ASSUME NEW ps, GoodPosns(ps), NEW accnts, NEW m \in Markets, NEW qs,
           qs = EnsurePosns(ps, accnts, m), NEW kind, NEW a \in Accnts, NEW x
    PROVE  WorthIn(kind, qs, a, x) = WorthIn(kind, ps, a, x)
<1>1. /\ \A y \in DOMAIN qs[a] :
                qs[a][y] = IF y \in DOMAIN ps[a] THEN ps[a][y] ELSE FlatPosn
      /\ DOMAIN qs[a] = IF a \in accnts THEN DOMAIN ps[a] \union {m} ELSE DOMAIN ps[a]
  BY EnsurePosnsIs
<1>2. Worth(kind, FlatPosn) = 0
  BY DEF Worth, NetLots, FlatPosn, MakePosn
<1>3. CASE x \in DOMAIN ps[a]
  BY <1>1, <1>3 DEF WorthIn
<1>4. CASE x \notin DOMAIN ps[a]
  BY <1>1, <1>2, <1>4 DEF WorthIn
<1> QED
  BY <1>3, <1>4

\* It creates it for each account that it is asked for.
LEMMA EnsureThere ==
    ASSUME NEW ps, NEW accnts, NEW m, NEW qs, qs = EnsurePosns(ps, accnts, m),
           NEW a \in Accnts, a \in accnts
    PROVE  m \in DOMAIN qs[a]
<1>1. qs[a] = IF m \notin DOMAIN ps[a] THEN Put(ps[a], m, FlatPosn) ELSE ps[a]
  BY DEF EnsurePosns
<1> QED
  BY <1>1 DEF Put

\* The step takes the batch r of execs of the market m, with new ids, to the
\* sessions and, on top of the positions qs, to the positions.
Traded(r, qs, m) ==
    /\ GoodBatch(r) /\ Len(r) \in Nat \ {0} /\ m \in DOMAIN markets
    /\ \A i, j \in 1..Len(r) : i # j => r[i].id # r[j].id
    /\ \A k \in 1..Len(r) : r[k].market = m /\ ~(r[k].id =< markets[m].maxId)
    /\ GoodPosns(qs) /\ PosnsThere(qs, r) /\ posns' = AddTrades(qs, r)
    /\ \A kind : \A a \in Accnts : \A x : WorthIn(kind, qs, a, x) = WorthIn(kind, posns, a, x)
    /\ Sent = {r[k] : k \in 1..Len(r)}
    /\ \A a \in Accnts : trades'[a] = trades[a] \union
            {<<e.market, e.id>> : e \in {y \in Sent : y.accnt = a /\ y.state = "Trade"}}

\* insert_trade for the trades of a batch that is posted.
LEMMA SentInserted ==
    ASSUME NEW batch, Len(batch) \in Nat, DOMAIN batch = 1..Len(batch),
           Sent = {batch[k] : k \in 1..Len(batch)}, trades' = InsertTrades(trades, batch),
           NEW a \in Accnts
    PROVE  trades'[a] = trades[a] \union
            {<<e.market, e.id>> : e \in {y \in Sent : y.accnt = a /\ y.state = "Trade"}}
<1>1. trades'[a] = trades[a] \union
        {<<batch[k].market, batch[k].id>> :
            k \in {j \in DOMAIN batch : batch[j].accnt = a /\ batch[j].state = "Trade"}}
  BY DEF InsertTrades
<1> QED
  BY <1>1

\* commit_matches: both orders of each match have positions, and their trades
\* move them.
LEMMA BookedTraded ==
    ASSUME EngineInv, NEW m, NEW id, NEW order, NEW ms, IsBooked(m, id, order, ms)
    PROVE  \E batch, qs : /\ Traded(batch, qs, m)
                          /\ OrderBatch(batch, Len(ms), m, id, order, ms)
                          /\ Arrival(books[m], orders[m], id, order, ms)
<1>1. PICK a, ref, side, lots, ticks, minLots :
            /\ NewOrder(a, m, ref, side, lots, ticks, minLots, id, order, ms)
            /\ OrderBooked(a, m, side, id, order, ms)
  BY DEF IsBooked
<1>2. PICK batch, qs : batch = OrderExecs(m, id, order, ms) /\ qs = PosnsFor(a, m, ms)
  OBVIOUS
<1>3. /\ OrderBatch(batch, Len(ms), m, id, order, ms)
      /\ id \in Nat /\ id - 1 = markets[m].maxId /\ m \in DOMAIN markets
  BY <1>1, <1>2, NewOrderBatch
<1>4. /\ Arrival(books[m], orders[m], id, order, ms) /\ GoodBatch(batch)
      /\ order.accnt = a /\ m \in Markets
  BY <1>1, <1>2, NewOrderArrives
<1>5. PICK n \in Nat, c \in Nat \ {0} :
            n = Len(ms) /\ c = 2 * n + 1 /\ Len(batch) = c /\ DOMAIN batch = 1..c
  BY <1>3 DEF OrderBatch
<1>6. ASSUME NEW k \in 1..c
      PROVE  batch[k].market = m /\ batch[k].id = (id - 1) + k
  BY <1>3, <1>5, <1>6, OrderIds DEF IsNext
<1>7. Sent = {batch[k] : k \in 1..c}
  <2>1. out' = ExecMsgs(batch)
    BY <1>1, <1>2 DEF OrderBooked, Post
  <2> QED
    BY <1>5, <2>1, OkSent
<1>8. /\ posns' = AddTrades(qs, batch) /\ trades' = InsertTrades(trades, batch)
  BY <1>1, <1>2 DEF OrderBooked
<1>9. GoodPosns(qs)
  BY <1>1, <1>2, <1>4, PosnsForGood DEF NewOrder
<1>10. PICK accnts : /\ accnts = IF n = 0 THEN {} ELSE MakersOf(ms, n) \union {a}
                     /\ qs = EnsurePosns(posns, accnts, m)
  BY <1>2, <1>5 DEF PosnsFor
<1>11. GoodPosns(posns)
  BY DEF EngineInv
<1>12. \A kind : \A x \in Accnts : \A y : WorthIn(kind, qs, x, y) = WorthIn(kind, posns, x, y)
  BY <1>4, <1>10, <1>11, EnsureWorth
<1>13. \A x \in Accnts : x \in accnts => m \in DOMAIN qs[x]
  BY <1>10, EnsureThere
<1>14. PosnsThere(qs, batch)
  <2>1. ASSUME NEW i \in 1..n
        PROVE  /\ m \in DOMAIN qs[batch[2 * i].accnt]
               /\ m \in DOMAIN qs[batch[2 * i + 1].accnt]
    <3>1. PairIs(batch[2 * i], batch[2 * i + 1], m, id, order, ms[i], id + 2 * i - 1)
      BY <1>3, <1>5 DEF OrderBatch
    <3>2. 2 * i \in 1..c /\ 2 * i + 1 \in 1..c
      BY <1>5
    <3>3. batch[2 * i].accnt \in Accnts /\ batch[2 * i + 1].accnt \in Accnts
      BY <1>4, <1>5, <3>2 DEF GoodBatch
    <3>4. ms[i].maker.accnt \in accnts /\ a \in accnts
      BY <1>10 DEF MakersOf
    <3> QED
      BY <1>4, <1>13, <3>1, <3>3, <3>4 DEF PairIs
  <2>2. ASSUME NEW k \in 1..c, batch[k].state = "Trade"
        PROVE  m \in DOMAIN qs[batch[k].accnt]
    <3>1. k # 1
      BY <1>3, <2>2 DEF OrderBatch
    <3>2. PICK i \in 1..n : k = 2 * i \/ k = 2 * i + 1
      BY <1>5, <3>1, OneOfPair
    <3> QED
      BY <2>1, <3>2
  <2> QED
    BY <1>5, <1>6, <2>2 DEF PosnsThere
<1>15. /\ \A i, j \in 1..c : i # j => batch[i].id # batch[j].id
       /\ \A k \in 1..c : ~(batch[k].id =< id - 1)
  BY <1>3, <1>6
<1>16. \A x \in Accnts : trades'[x] = trades[x] \union
            {<<e.market, e.id>> : e \in {y \in Sent : y.accnt = x /\ y.state = "Trade"}}
  BY <1>5, <1>7, <1>8, SentInserted
<1>17. Traded(batch, qs, m)
  BY <1>3, <1>4, <1>5, <1>6, <1>7, <1>8, <1>9, <1>12, <1>14, <1>15, <1>16 DEF Traded
<1> QED
  BY <1>3, <1>4, <1>17

\* A batch turned round.
Turned(r, batch, n) ==
    /\ Len(r) = n /\ DOMAIN r = 1..n
    /\ {r[k] : k \in 1..n} = {batch[k] : k \in 1..n}
    /\ \A k \in 1..n : r[k] = batch[(n - k) + 1]

\* It has the same execs.
LEMMA ReverseIs ==
    ASSUME NEW batch, NEW n \in Nat, Len(batch) = n, DOMAIN batch = 1..n
    PROVE  Turned(Reverse(batch), batch, n)
<1>5. PICK r : r = Reverse(batch)
  OBVIOUS
<1>1. r = [k \in 1..n |-> batch[(n - k) + 1]]
  BY <1>5 DEF Reverse
<1>2. \A k \in 1..n : (n - k) + 1 \in 1..n /\ (n - ((n - k) + 1)) + 1 = k
  OBVIOUS
<1>3. DOMAIN r = 1..n /\ Len(r) = n /\ \A k \in 1..n : r[k] = batch[(n - k) + 1]
  BY <1>1
<1>4. {r[k] : k \in 1..n} = {batch[k] : k \in 1..n}
  BY <1>2, <1>3
<1> QED
  BY <1>3, <1>4, <1>5 DEF Turned

\* The trades of create_trade by name.
OneOrTwo(batch, a, m, id, side, lots, ticks, cpty) ==
    \/ /\ cpty = NoAccnt /\ Len(batch) = 1 /\ DOMAIN batch = 1..1
       /\ ManualIs(batch[1], id, a, m, side, lots, ticks, NoAccnt)
    \/ /\ cpty # NoAccnt /\ Len(batch) = 2 /\ DOMAIN batch = 1..2
       /\ ManualIs(batch[1], id, a, m, side, lots, ticks, cpty)
       /\ ManualIs(batch[2], id + 1, cpty, m, Opposite(side), lots, ticks, a)

\* They are one trade, or two that are opposite.
LEMMA OneOrTwoTrades ==
    ASSUME NEW a, NEW m, NEW id, NEW side, NEW lots, NEW ticks, NEW cpty
    PROVE  OneOrTwo(ManualTrades(a, m, id, side, lots, ticks, cpty),
                    a, m, id, side, lots, ticks, cpty)
BY ManualTradesAre DEF OneOrTwo

\* create_trade: both parties have positions.
LEMMA ManualTraded ==
    ASSUME EngineInv, res' = "ok", IsManual
    PROVE  \E a, m, id, side, lots, ticks, cpty, batch, qs :
                /\ ManualBooked(a, m, id, side, lots, ticks, cpty, batch)
                /\ Traded(Reverse(batch), qs, m)
<1>0. PICK a, m, id, side, lots, ticks, cpty, batch :
                ManualBooked(a, m, id, side, lots, ticks, cpty, batch)
  BY ManualOkIs
<1>1. /\ a \in Accnts /\ m \in DOMAIN markets /\ id \in 1..MaxId /\ side \in Sides
      /\ lots \in 1..MaxLots /\ ticks \in 1..MaxTicks /\ cpty \in Accnts \union {NoAccnt}
      /\ batch = ManualTrades(a, m, id, side, lots, ticks, cpty)
      /\ id = markets[m].maxId + 1 /\ id + 1 \in 1..MaxId
      /\ TradeBooked(m, batch, EnsurePosns(posns, {a, cpty}, m))
  BY <1>0 DEF ManualBooked
<1>2. PICK qs : qs = EnsurePosns(posns, {a, cpty}, m)
  OBVIOUS
<1>3. m \in Markets /\ markets[m].maxId \in Nat /\ GoodPosns(posns)
  BY <1>1, TheMarket DEF EngineInv
<1>4. lots \in Nat /\ ticks \in Nat /\ id \in Nat \ {0} /\ id + 1 =< MaxId
  BY <1>1, EngineAssumption
<1>5. GoodBatch(batch) /\ Len(batch) \in 1..2
  BY <1>1, <1>3, <1>4, ManualTradesGood
<1>6. PICK n \in 1..2 : n = Len(batch) /\ DOMAIN batch = 1..n
  BY <1>5 DEF GoodBatch
<1>19. OneOrTwo(batch, a, m, id, side, lots, ticks, cpty)
  BY <1>1, OneOrTwoTrades
<1>20. n \in Nat \ {0}
  BY <1>6
<1>7. ASSUME NEW k \in 1..n
      PROVE  /\ batch[k].market = m /\ batch[k].id = (id - 1) + k
             /\ batch[k].accnt \in {a, cpty} /\ batch[k].accnt \in Accnts
  <2>1. batch[k].accnt \in Accnts
    BY <1>5, <1>6, <1>7 DEF GoodBatch
  <2>2. CASE cpty = NoAccnt
    <3>1. n = 1 /\ k = 1 /\ ManualIs(batch[1], id, a, m, side, lots, ticks, NoAccnt)
      BY <1>6, <1>7, <1>19, <2>2 DEF OneOrTwo
    <3> QED
      BY <1>4, <2>1, <3>1 DEF ManualIs
  <2>3. CASE cpty # NoAccnt
    <3>1. /\ n = 2 /\ k \in {1, 2}
          /\ ManualIs(batch[1], id, a, m, side, lots, ticks, cpty)
          /\ ManualIs(batch[2], id + 1, cpty, m, Opposite(side), lots, ticks, a)
      BY <1>6, <1>7, <1>19, <2>3 DEF OneOrTwo
    <3> QED
      BY <1>4, <2>1, <3>1 DEF ManualIs
  <2> QED
    BY <2>2, <2>3
<1>8. PICK r : r = Reverse(batch)
  OBVIOUS
<1>9. /\ Len(r) = n /\ DOMAIN r = 1..n
      /\ \A k \in 1..n : r[k] = batch[(n - k) + 1]
      /\ {r[k] : k \in 1..n} = {batch[k] : k \in 1..n}
  <2>1. Turned(r, batch, n)
    BY <1>6, <1>8, <1>20, ReverseIs
  <2> QED
    BY <2>1 DEF Turned
<1>10. GoodBatch(r)
  BY <1>5, <1>8, ReverseGood
<1>11. /\ \A i, j \in 1..n : i # j => r[i].id # r[j].id
       /\ \A k \in 1..n : r[k].market = m /\ ~(r[k].id =< markets[m].maxId)
                          /\ r[k].accnt \in {a, cpty} /\ r[k].accnt \in Accnts
  <2>1. ASSUME NEW k \in 1..n
        PROVE  /\ r[k].market = m /\ r[k].id = (id - 1) + ((n - k) + 1)
               /\ r[k].accnt \in {a, cpty} /\ r[k].accnt \in Accnts
    <3>1. (n - k) + 1 \in 1..n
      OBVIOUS
    <3> QED
      BY <1>7, <1>9, <3>1
  <2>2. \A i, j \in 1..n : i # j => (id - 1) + ((n - i) + 1) # (id - 1) + ((n - j) + 1)
    BY <1>4
  <2>3. \A k \in 1..n : ~((id - 1) + ((n - k) + 1) =< id - 1)
    BY <1>4
  <2>4. markets[m].maxId = id - 1
    BY <1>1, <1>3
  <2> QED
    BY <2>1, <2>2, <2>3, <2>4
<1>12. Sent = {batch[k] : k \in 1..n}
  <2>1. out' = ExecMsgs(batch)
    BY <1>1 DEF TradeBooked, Post
  <2> QED
    BY <1>6, <2>1, OkSent
<1>13. posns' = AddTrades(qs, r) /\ trades' = InsertTrades(trades, batch)
  BY <1>1, <1>2, <1>8 DEF TradeBooked
<1>14. GoodPosns(qs)
  BY <1>2, <1>3, PosnsForGood
<1>15. \A kind : \A x \in Accnts : \A y : WorthIn(kind, qs, x, y) = WorthIn(kind, posns, x, y)
  BY <1>2, <1>3, EnsureWorth
<1>16. PosnsThere(qs, r)
  <2>1. \A x \in Accnts : x \in {a, cpty} => m \in DOMAIN qs[x]
    BY <1>2, EnsureThere
  <2> QED
    BY <1>9, <1>11, <2>1 DEF PosnsThere
<1>17. \A x \in Accnts : trades'[x] = trades[x] \union
            {<<e.market, e.id>> : e \in {y \in Sent : y.accnt = x /\ y.state = "Trade"}}
  BY <1>6, <1>12, <1>13, SentInserted
<1>18. Traded(r, qs, m)
  <2>1. Sent = {r[k] : k \in 1..n}
    BY <1>9, <1>12, Zenon
  <2>2. Len(r) = n /\ n \in Nat \ {0} /\ m \in DOMAIN markets
    BY <1>1, <1>9, <1>20
  <2> QED
    BY <1>10, <1>11, <1>13, <1>14, <1>15, <1>16, <1>17, <2>1, <2>2 DEF Traded
<1> QED
  BY <1>0, <1>8, <1>18, Zenon

\* Other steps make no trades and move no position.
LEMMA OthersMoveNothing ==
    ASSUME EngineInv, res' = "ok", Quiet \/ IsChange
    PROVE  SentTrades = {} /\ UNCHANGED posns
<1>1. CASE Quiet
  BY <1>1 DEF Quiet, PostsNoExec, Sent, SentTrades
<1>2. CASE IsChange
  <2>1. PICK a, m, ids, batch, after :
                /\ GoodChange(a, m, ids, {}, batch, after)
                /\ ChangeBooked(m, ids, batch, after)
                /\ Sent = {batch[k] : k \in 1..Len(ids)}
    BY <1>2, ChangeOkIs
  <2>2. \A k \in 1..Len(ids) : batch[k].state # "Trade"
    BY <2>1 DEF GoodChange
  <2> QED
    BY <2>1, <2>2 DEF SentTrades, ChangeBooked
<1> QED
  BY <1>1, <1>2

\* A step that succeeds trades, or moves nothing.
LEMMA OkTrades ==
    ASSUME EngineInv, Next, res' = "ok"
    PROVE  \/ SentTrades = {} /\ UNCHANGED posns
           \/ \E r, qs, m : Traded(r, qs, m)
<1>1. ASSUME NEW m, NEW id, NEW order, NEW ms, IsUndone(m, id, order, ms)
      PROVE  FALSE
  BY <1>1 DEF IsUndone, OrderUndone
<1>2. ASSUME NEW m, NEW id, NEW order, NEW ms, IsBooked(m, id, order, ms)
      PROVE  \E r, qs : Traded(r, qs, m)
  BY <1>2, BookedTraded
<1>3. IsManual => \E r, qs, m : Traded(r, qs, m)
  BY ManualTraded
<1> QED
  BY <1>1, <1>2, <1>3, StepKinds, OthersMoveNothing

\* What the positions of accounts are worth is a number.
LEMMA WorthType ==
    ASSUME NEW ps, GoodPosns(ps), NEW kind, NEW a \in Accnts, NEW m
    PROVE  WorthIn(kind, ps, a, m) \in Int
<1>1. m \in DOMAIN ps[a] => ps[a][m] \in PosnType
  BY DEF GoodPosns
<1>2. \A p \in PosnType : Worth(kind, p) \in Int
  BY DEF PosnType, Worth, NetLots
<1> QED
  BY <1>1, <1>2 DEF WorthIn

\* The trades that a step gives to the session of a in m.
Mine(a, m) ==
    {e \in SentTrades : e.accnt = a /\ <<m, e.id>> \in trades'[a] \ trades[a]}

\* They are all the trades of a in m that it posts.
LEMMA MineAre ==
    ASSUME EngineInv, TradesAreNumbered, NEW r, NEW qs, NEW x, Traded(r, qs, x),
           NEW a \in Accnts, NEW m
    PROVE  Mine(a, m) = TradesFor(r, Len(r), a, m)
<1>1. trades'[a] = trades[a] \union
            {<<e.market, e.id>> : e \in {y \in Sent : y.accnt = a /\ y.state = "Trade"}}
  BY DEF Traded
<1>2. \A e \in Sent : e.market = x /\ ~(e.id =< markets[x].maxId)
  BY DEF Traded
<1>3. Sent = {r[k] : k \in 1..Len(r)}
  BY DEF Traded
<1>4. ASSUME NEW e \in Mine(a, m)
      PROVE  e \in TradesFor(r, Len(r), a, m)
  <2>1. e \in Sent /\ e.state = "Trade" /\ e.accnt = a
        /\ <<m, e.id>> \in trades'[a] /\ <<m, e.id>> \notin trades[a]
    BY <1>4 DEF Mine, SentTrades
  <2>2. PICK f \in Sent : <<m, e.id>> = <<f.market, f.id>>
    BY <1>1, <2>1
  <2>3. e.market = m
    BY <1>2, <2>1, <2>2
  <2> QED
    BY <1>3, <2>1, <2>3 DEF TradesFor, IsFor
<1>5. ASSUME NEW e \in TradesFor(r, Len(r), a, m)
      PROVE  e \in Mine(a, m)
  <2>1. e \in Sent /\ e.state = "Trade" /\ e.accnt = a /\ e.market = m
    BY <1>3, <1>5 DEF TradesFor, IsFor
  <2>2. <<m, e.id>> \in trades'[a]
    BY <1>1, <2>1
  <2>3. <<m, e.id>> \notin trades[a]
    BY <1>2, <2>1 DEF TradesAreNumbered
  <2> QED
    BY <2>1, <2>2, <2>3 DEF Mine, SentTrades
<1> QED
  BY <1>4, <1>5

\* A position moves by them.
LEMMA PosnFollows ==
    ASSUME EngineInv, TradesAreNumbered, Next, res' = "ok", NEW a \in Accnts, NEW m
    PROVE  NetOf(a, m)' - NetOf(a, m) = SumFunction([e \in Mine(a, m) |-> Signed(e)])
<1>1. /\ NetOf(a, m) = WorthIn("lots", posns, a, m)
      /\ NetOf(a, m)' = WorthIn("lots", posns', a, m)
  BY DEF NetOf, WorthIn, Worth
<1>2. SumFunction([e \in Mine(a, m) |-> Signed(e)]) = SumOfMoves("lots", Mine(a, m))
  BY DEF SumOfMoves, Moves
<1>3. CASE SentTrades = {} /\ UNCHANGED posns
  <2>1. Mine(a, m) = {}
    BY <1>3 DEF Mine
  <2>2. SumOfMoves("lots", Mine(a, m)) = 0
    BY <2>1, SumEmpty DEF SumOfMoves
  <2>3. PICK w \in Int : w = WorthIn("lots", posns, a, m)
    BY WorthType DEF EngineInv
  <2>4. NetOf(a, m) = w /\ NetOf(a, m)' = w
    BY <1>1, <1>3, <2>3
  <2> QED
    BY <1>2, <2>2, <2>3, <2>4
<1>4. ASSUME NEW r, NEW qs, NEW x, Traded(r, qs, x)
      PROVE  NetOf(a, m)' - NetOf(a, m) = SumFunction([e \in Mine(a, m) |-> Signed(e)])
  <2>1. PICK f : MovedBy(f, qs, r)
    BY <1>4, BatchMoves DEF Traded
  <2>2. PICK w, s : w = WorthIn("lots", qs, a, m)
                    /\ s = SumOfMoves("lots", TradesFor(r, Len(r), a, m))
    OBVIOUS
  <2>3. w \in Int /\ s \in Int /\ WorthIn("lots", AddTrades(qs, r), a, m) = w + s
    BY <1>4, <2>1, <2>2, BatchSum DEF Traded
  <2>4. NetOf(a, m) = w /\ NetOf(a, m)' = w + s
    BY <1>1, <1>4, <2>2, <2>3 DEF Traded
  <2>5. SumOfMoves("lots", Mine(a, m)) = s
    BY <1>4, <2>2, MineAre
  <2> QED
    BY <1>2, <2>3, <2>4, <2>5
<1> QED
  BY <1>3, <1>4, OkTrades

\* An account's position moves by exactly the trades that its session is given,
\* whatever the batch and its order (commit_matches, create_trade).
THEOREM PosnsFollow == Spec => PositionsFollowTrades
<1>1. EngineInv /\ TradesAreNumbered /\ [Next]_vars =>
        [res' = "ok" => \A a \in Accnts, m \in DOMAIN markets :
            NetOf(a, m)' - NetOf(a, m) = SumFunction([e \in Mine(a, m) |-> Signed(e)])]_vars
  BY PosnFollows
<1>2. EngineInv /\ TradesAreNumbered /\ [Next]_vars =>
        [res' = "ok" => \A a \in Accnts, m \in DOMAIN markets :
            LET mine == {e \in SentTrades : /\ e.accnt = a
                                            /\ <<m, e.id>> \in trades'[a] \ trades[a]}
            IN  NetOf(a, m)' - NetOf(a, m) = SumFunction([e \in mine |-> Signed(e)])]_vars
  BY <1>1, Zenon DEF Mine
<1> QED
  BY <1>2, InvHolds, NumbersHold, PTL DEF Spec, PositionsFollowTrades

-----------------------------------------------------------------------------
(* What all positions in a market add up to. *)

\* Summands that are nothing may be left out.
LEMMA SumOfSome ==
    ASSUME NEW E, IsFiniteSet(E), NEW f \in [E -> Int], NEW D, D \subseteq E,
           \A y \in E \ D : f[y] = 0
    PROVE  SumFunction([y \in D |-> f[y]]) = SumFunction(f)
<1> DEFINE Part(T) == SumFunction([y \in T |-> f[y]])
           G == {T \in SUBSET (E \ D) : Part(D \union T) = Part(D)}
<1>1. ASSUME NEW T \in SUBSET (E \ D), \A z \in T : T \ {z} \in G
      PROVE  Part(D \union T) = Part(D)
  <2>1. CASE T = {}
    <3>1. D \union T = D
      BY <2>1
    <3> QED
      BY <3>1
  <2>2. CASE T # {}
    <3>1. PICK z \in T : TRUE
      BY <2>2
    <3>2. PICK C, B : C = D \union T /\ B = D \union (T \ {z})
      OBVIOUS
    <3>3. B = C \ {z} /\ z \in C /\ IsFiniteSet(C) /\ C \subseteq E
      BY <3>1, <3>2, FS_Subset
    <3>4. PICK h, k : h = [y \in C |-> f[y]] /\ k = [y \in B |-> f[y]]
      OBVIOUS
    <3>5. h \in [C -> Int] /\ [y \in C \ {z} |-> h[y]] = k /\ h[z] = 0
      BY <1>1, <3>1, <3>3, <3>4
    <3>6. SumFunction(h) = h[z] + SumFunction(k) /\ SumFunction(k) \in Int
      BY <3>3, <3>5, SumRemove
    <3>7. SumFunction(h) = SumFunction(k)
      BY <3>5, <3>6
    <3>8. Part(B) = Part(D)
      BY <1>1, <3>1, <3>2
    <3> QED
      BY <3>2, <3>4, <3>7, <3>8
  <2> QED
    BY <2>1, <2>2
<1>2. \A T \in SUBSET (E \ D) : (\A z \in T : T \ {z} \in G) => T \in G
  BY <1>1
<1>3. IsFiniteSet(E \ D)
  BY FS_Difference
<1>4. \A T \in SUBSET (E \ D) : T \in G
  <2> HIDE DEF G
  <2> QED
    BY <1>2, <1>3, FiniteInduction
<1>5. Part(D \union (E \ D)) = Part(D)
  BY <1>4
<1>6. D \union (E \ D) = E /\ [y \in E |-> f[y]] = f
  OBVIOUS
<1> QED
  BY <1>5, <1>6

\* The worth of all positions in a market.
TotalWorth(kind, ps, m) == SumFunction([a \in Accnts |-> WorthIn(kind, ps, a, m)])

\* Accounts without a position hold nothing.
LEMMA HeldTotal ==
    ASSUME NEW ps, GoodPosns(ps), NEW kind, NEW m, NEW held,
           held = {a \in Accnts : m \in DOMAIN ps[a]}
    PROVE  SumFunction([a \in held |-> Worth(kind, ps[a][m])]) = TotalWorth(kind, ps, m)
<1>1. PICK f : f = [a \in Accnts |-> WorthIn(kind, ps, a, m)]
  OBVIOUS
<1>2. f \in [Accnts -> Int]
  BY <1>1, WorthType
<1>3. held \subseteq Accnts /\ \A a \in Accnts \ held : f[a] = 0
  BY <1>1 DEF WorthIn
<1>4. SumFunction([a \in held |-> f[a]]) = SumFunction(f)
  BY <1>2, <1>3, SumOfSome, AccntsAssumption
<1>5. [a \in held |-> f[a]] = [a \in held |-> Worth(kind, ps[a][m])]
  BY <1>1 DEF WorthIn
<1> QED
  BY <1>1, <1>4, <1>5 DEF TotalWorth

\* What one exec of a known account adds to the total.
TotalMoves(kind, p, q, e, m) ==
    /\ TotalWorth(kind, p, m) \in Int /\ Moves(kind, e) \in Int
    /\ TotalWorth(kind, q, m) = TotalWorth(kind, p, m)
            + (IF e.state = "Trade" /\ e.market = m THEN Moves(kind, e) ELSE 0)

\* The sum changes by what the position of that account changes.
LEMMA TotalMoved ==
    ASSUME NEW kind, NEW p, NEW q, NEW e, e.accnt \in Accnts, NEW m,
           \A a \in Accnts : WorthMoves(kind, p, q, e, a, m)
    PROVE  TotalMoves(kind, p, q, e, m)
<1>1. PICK f, g : /\ f = [a \in Accnts |-> WorthIn(kind, p, a, m)]
                  /\ g = [a \in Accnts |-> WorthIn(kind, q, a, m)]
  OBVIOUS
<1>2. PICK x \in Accnts : x = e.accnt
  OBVIOUS
<1>3. PICK d \in Int : d = IF e.state = "Trade" /\ e.market = m THEN Moves(kind, e) ELSE 0
  BY <1>2 DEF WorthMoves
<1>4. \A a \in Accnts : /\ f[a] \in Int
                        /\ g[a] = f[a] + (IF a = x THEN d ELSE 0)
  BY <1>1, <1>2, <1>3 DEF WorthMoves, IsFor
<1>5. /\ f = [a \in Accnts |-> f[a]] /\ g = [a \in Accnts |-> g[a]]
      /\ \A a \in Accnts : g[a] \in Int
  BY <1>1, <1>4
<1>6. f \in [Accnts -> Int] /\ g \in [Accnts -> Int] /\ \A a \in Accnts \ {x} : f[a] = g[a]
  BY <1>4, <1>5
<1>7. SumFunction(g) = SumFunction(f) - f[x] + g[x]
  BY <1>2, <1>6, SumChange, AccntsAssumption
<1>8. SumFunction(f) \in Int
  BY <1>2, <1>6, SumRemove, AccntsAssumption
<1>9. PICK s, v \in Int : s = SumFunction(f) /\ v = f[x]
  BY <1>4, <1>8
<1>10. SumFunction(g) = s + d
  BY <1>2, <1>4, <1>7, <1>8, <1>9
<1>11. TotalWorth(kind, p, m) = s /\ TotalWorth(kind, q, m) = s + d
  BY <1>1, <1>9, <1>10 DEF TotalWorth
<1>12. Moves(kind, e) \in Int
  BY <1>2 DEF WorthMoves
<1> QED
  BY <1>3, <1>8, <1>9, <1>11, <1>12 DEF TotalMoves

\* Opposite trades of the same lots and price take back what the other gives.
LEMMA OppositeMoves ==
    ASSUME NEW e, NEW f, e.side \in Sides, f.side = Opposite(e.side),
           e.lastLots \in Nat, f.lastLots = e.lastLots,
           e.lastTicks \in Nat, f.lastTicks = e.lastTicks, NEW kind
    PROVE  /\ Moves(kind, e) \in Int /\ Moves(kind, f) \in Int
           /\ Moves(kind, e) + Moves(kind, f) = 0
<1>1. PICK lots \in Nat, ticks \in Nat : lots = e.lastLots /\ ticks = e.lastTicks
  OBVIOUS
<1>2. PICK paid \in Int : paid = lots * ticks /\ (-lots) * ticks = -paid
  OBVIOUS
<1>3. \/ /\ e.side = "Buy" /\ f.side # "Buy"
      \/ /\ e.side # "Buy" /\ f.side = "Buy"
  BY DEF Sides, Opposite
<1>4. CASE e.side = "Buy" /\ f.side # "Buy"
  BY <1>1, <1>2, <1>4 DEF Moves, Signed
<1>5. CASE e.side # "Buy" /\ f.side = "Buy"
  BY <1>1, <1>2, <1>5 DEF Moves, Signed
<1> QED
  BY <1>3, <1>4, <1>5

\* The total is a number.
LEMMA TotalType ==
    ASSUME NEW ps, GoodPosns(ps), NEW kind, NEW m
    PROVE  TotalWorth(kind, ps, m) \in Int
<1>1. PICK f : f = [a \in Accnts |-> WorthIn(kind, ps, a, m)]
  OBVIOUS
<1>2. f \in [Accnts -> Int]
  BY <1>1, WorthType
<1>3. CASE Accnts = {}
  BY <1>1, <1>3, SumEmpty DEF TotalWorth
<1>4. CASE Accnts # {}
  <2>1. PICK x \in Accnts : TRUE
    BY <1>4
  <2> QED
    BY <1>1, <1>2, <2>1, SumRemove, AccntsAssumption DEF TotalWorth
<1> QED
  BY <1>3, <1>4

\* The positions that an operation first creates add nothing to it.
LEMMA SameTotal ==
    ASSUME NEW r, NEW qs, NEW x, Traded(r, qs, x), NEW kind, NEW m
    PROVE  TotalWorth(kind, qs, m) = TotalWorth(kind, posns, m)
<1>1. \A a \in Accnts : WorthIn(kind, qs, a, m) = WorthIn(kind, posns, a, m)
  BY DEF Traded
<1>2. [a \in Accnts |-> WorthIn(kind, qs, a, m)] = [a \in Accnts |-> WorthIn(kind, posns, a, m)]
  BY <1>1
<1> QED
  BY <1>2 DEF TotalWorth

\* The total moves exec by exec.
TotalsBy(f, r, kind, m) ==
    /\ TotalWorth(kind, f[0], m) = TotalWorth(kind, posns, m)
    /\ TotalWorth(kind, f[Len(r)], m) = TotalWorth(kind, posns', m)
    /\ \A k \in 1..Len(r) : TotalMoves(kind, f[k - 1], f[k], r[k], m)

\* add_trade for each exec of a batch that is posted.
LEMMA TotalSteps ==
    ASSUME NEW r, NEW qs, NEW x, Traded(r, qs, x), NEW kind, NEW m
    PROVE  \E f : TotalsBy(f, r, kind, m)
<1>1. PICK f : MovedBy(f, qs, r)
  BY BatchMoves DEF Traded
<1>2. /\ TotalWorth(kind, f[0], m) = TotalWorth(kind, posns, m)
      /\ TotalWorth(kind, f[Len(r)], m) = TotalWorth(kind, posns', m)
  BY <1>1, SameTotal DEF MovedBy, Traded
<1>3. ASSUME NEW k \in 1..Len(r)
      PROVE  TotalMoves(kind, f[k - 1], f[k], r[k], m)
  <2>1. PICK p, q, e : p = f[k - 1] /\ q = f[k] /\ e = r[k]
    OBVIOUS
  <2>2. e.accnt \in Accnts
    BY <2>1 DEF Traded, GoodBatch
  <2>3. \A a \in Accnts : WorthMoves(kind, p, q, e, a, m)
    BY <1>1, <2>1 DEF MovedBy
  <2>4. TotalMoves(kind, p, q, e, m)
    BY <2>2, <2>3, TotalMoved
  <2> QED
    BY <2>1, <2>4
<1> QED
  BY <1>2, <1>3 DEF TotalsBy

\* Trades in m that have no other side.
Singles(m) == {e \in SentTrades : e.cpty = NoAccnt /\ e.market = m}

\* The total moves by them.
MovesBySingles(kind, m) ==
    /\ SumOfMoves(kind, Singles(m)) \in Int /\ TotalWorth(kind, posns, m) \in Int
    /\ TotalWorth(kind, posns', m) = TotalWorth(kind, posns, m) + SumOfMoves(kind, Singles(m))

\* Not at all if there are none.
LEMMA NoSingles ==
    ASSUME EngineInv, NEW kind, NEW m, Singles(m) = {},
           TotalWorth(kind, posns', m) = TotalWorth(kind, posns, m)
    PROVE  MovesBySingles(kind, m)
<1>1. PICK w \in Int : w = TotalWorth(kind, posns, m)
  BY TotalType DEF EngineInv
<1>2. SumOfMoves(kind, Singles(m)) = 0
  BY SumEmpty DEF SumOfMoves
<1> QED
  BY <1>1, <1>2 DEF MovesBySingles

\* Two trades of which one takes back what the other gives.
LEMMA TotalStays ==
    ASSUME NEW kind, NEW p, NEW q, NEW s, NEW e, NEW f, NEW m,
           TotalMoves(kind, p, q, e, m), TotalMoves(kind, q, s, f, m),
           e.state = "Trade", f.state = "Trade", e.market = f.market,
           e.side \in Sides, f.side = Opposite(e.side),
           e.lastLots \in Nat, f.lastLots = e.lastLots,
           e.lastTicks \in Nat, f.lastTicks = e.lastTicks
    PROVE  TotalWorth(kind, s, m) = TotalWorth(kind, p, m)
<1>1. PICK w \in Int, d \in Int, c \in Int :
        w = TotalWorth(kind, p, m) /\ d = Moves(kind, e) /\ c = Moves(kind, f)
  BY DEF TotalMoves
<1>2. d + c = 0
  BY <1>1, OppositeMoves
<1>3. CASE e.market = m
  <2>1. TotalWorth(kind, q, m) = w + d /\ TotalWorth(kind, s, m) = (w + d) + c
    BY <1>1, <1>3 DEF TotalMoves
  <2> QED
    BY <1>1, <1>2, <2>1
<1>4. CASE e.market # m
  <2>1. TotalWorth(kind, q, m) = w + 0 /\ TotalWorth(kind, s, m) = (w + 0) + 0
    BY <1>1, <1>4 DEF TotalMoves
  <2> QED
    BY <1>1, <2>1
<1> QED
  BY <1>3, <1>4

\* commit_matches: maker and taker of a match move against each other.
LEMMA BookedTotal ==
    ASSUME EngineInv, NEW x, NEW id, NEW order, NEW ms, IsBooked(x, id, order, ms),
           NEW kind, NEW m
    PROVE  MovesBySingles(kind, m)
<1>1. PICK batch, qs : /\ Traded(batch, qs, x)
                       /\ OrderBatch(batch, Len(ms), x, id, order, ms)
                       /\ Arrival(books[x], orders[x], id, order, ms)
  BY BookedTraded
<1>2. PICK n \in Nat, c \in Nat \ {0} :
            n = Len(ms) /\ c = 2 * n + 1 /\ Len(batch) = c /\ DOMAIN batch = 1..c
  BY <1>1 DEF OrderBatch
<1>3. PICK f : TotalsBy(f, batch, kind, m)
  BY <1>1, TotalSteps
<1>4. \A k \in 1..c : /\ TotalMoves(kind, f[k - 1], f[k], batch[k], m)
                      /\ batch[k].accnt \in Accnts
                      /\ batch[k].lastLots \in Nat /\ batch[k].lastTicks \in Nat
  BY <1>1, <1>2, <1>3 DEF TotalsBy, Traded, GoodBatch
<1>5. ASSUME NEW i \in 1..n
      PROVE  /\ PairIs(batch[2 * i], batch[2 * i + 1], x, id, order, ms[i], id + 2 * i - 1)
             /\ 2 * i \in 1..c /\ 2 * i + 1 \in 1..c
  <2>1. PairIs(batch[2 * i], batch[2 * i + 1], x, id, order, ms[i], id + 2 * i - 1)
    BY <1>1, <1>2 DEF OrderBatch
  <2>2. 2 * i \in 1..c /\ 2 * i + 1 \in 1..c
    BY ONLY <1>2, i \in 1..n
  <2> QED
    BY <2>1, <2>2
<1>6. ASSUME NEW i \in 1..n
      PROVE  TotalWorth(kind, f[2 * i + 1], m) = TotalWorth(kind, f[2 * i - 1], m)
  <2>1. PICK p, q, e, d, s :
            /\ e = batch[2 * i] /\ d = batch[2 * i + 1]
            /\ p = f[2 * i - 1] /\ q = f[2 * i] /\ s = f[2 * i + 1]
    OBVIOUS
  <2>2. PICK y : y = ms[i] /\ y.maker.side = Opposite(order.side) /\ y.maker.side \in Sides
                 /\ order.side = Opposite(y.maker.side)
    <3>1. PICK z : z = ms[i].id /\ z \in OnSide(orders[x], Opposite(order.side))
                   /\ ms[i].maker = orders[x][z]
      BY <1>1, <1>2, MakerIs
    <3>2. order.side \in Sides
      BY <1>1, OrderFields DEF Arrival, GoodOrder
    <3> QED
      BY <3>1, <3>2, SidesAre DEF OnSide
  <2>3. PICK next : PairIs(e, d, x, id, order, y, next)
    BY <1>5, <2>1, <2>2
  <2>4. e.lastLots \in Nat /\ e.lastTicks \in Nat
    BY <1>4, <1>5, <2>1
  <2>5. TotalMoves(kind, p, q, e, m) /\ TotalMoves(kind, q, s, d, m)
    <3>1. 2 * i \in 1..c /\ 2 * i + 1 \in 1..c /\ (2 * i + 1) - 1 = 2 * i
      BY <1>5
    <3> QED
      BY <1>4, <2>1, <3>1
  <2>6. /\ e.state = "Trade" /\ d.state = "Trade" /\ e.market = d.market
        /\ e.side \in Sides /\ d.side = Opposite(e.side)
        /\ d.lastLots = e.lastLots /\ d.lastTicks = e.lastTicks
    BY <2>2, <2>3 DEF PairIs
  <2>7. TotalWorth(kind, s, m) = TotalWorth(kind, p, m)
    BY <2>4, <2>5, <2>6, TotalStays
  <2> QED
    BY <2>1, <2>7
<1> DEFINE Good == {i \in Nat : i =< n =>
                        TotalWorth(kind, f[2 * i + 1], m) = TotalWorth(kind, posns, m)}
<1>7. 0 \in Good
  <2>1. TotalMoves(kind, f[0], f[1], batch[1], m)
    <3>1. 1 \in 1..c /\ 1 - 1 = 0
      BY <1>2
    <3> QED
      BY <1>4, <3>1
  <2>2. batch[1].state # "Trade"
    BY <1>1 DEF OrderBatch
  <2>3. PICK w \in Int : w = TotalWorth(kind, f[0], m) /\ w = TotalWorth(kind, posns, m)
    BY <1>3, <2>1 DEF TotalMoves, TotalsBy
  <2>4. TotalWorth(kind, f[1], m) = w + 0
    BY <2>1, <2>2, <2>3 DEF TotalMoves
  <2>5. 2 * 0 + 1 = 1
    OBVIOUS
  <2> QED
    BY <2>3, <2>4, <2>5
<1>8. ASSUME NEW i \in Nat, i < n, i \in Good
      PROVE  i + 1 \in Good
  <2>1. PICK j \in 1..n : j = i + 1 /\ 2 * j - 1 = 2 * i + 1 /\ j \in Nat
    BY <1>8
  <2>2. TotalWorth(kind, f[2 * i + 1], m) = TotalWorth(kind, posns, m)
    BY <1>8
  <2>3. TotalWorth(kind, f[2 * j + 1], m) = TotalWorth(kind, posns, m)
    BY <1>6, <2>1, <2>2
  <2> QED
    BY <2>1, <2>3
<1> HIDE DEF Good
<1>9. TotalWorth(kind, posns', m) = TotalWorth(kind, posns, m)
  <2>1. \A i \in 0..n : i \in Good
    BY <1>7, <1>8, NumberInduction
  <2>2. n \in Good
    BY <2>1
  <2>3. TotalWorth(kind, f[c], m) = TotalWorth(kind, posns, m)
    BY <1>2, <2>2 DEF Good
  <2> QED
    BY <1>2, <1>3, <2>3 DEF TotalsBy
<1>10. Singles(m) = {}
  <2> SUFFICES ASSUME NEW e \in SentTrades, e.cpty = NoAccnt
               PROVE  FALSE
    BY DEF Singles
  <2>1. PICK k \in 1..c : e = batch[k] /\ batch[k].state = "Trade"
    BY <1>1, <1>2 DEF SentTrades, Traded
  <2>2. k # 1
    BY <1>1, <2>1 DEF OrderBatch
  <2>3. PICK i \in 1..n : k = 2 * i \/ k = 2 * i + 1
    BY <1>2, <2>2, OneOfPair
  <2>4. batch[2 * i].accnt \in Accnts /\ batch[2 * i + 1].accnt \in Accnts
    BY <1>4, <1>5
  <2>5. \/ e.cpty = batch[2 * i].accnt
        \/ e.cpty = batch[2 * i + 1].accnt
    BY <1>5, <2>1, <2>3 DEF PairIs
  <2> QED
    BY <2>4, <2>5, EngineAssumption
<1> QED
  BY <1>9, <1>10, NoSingles

\* One trade without another side moves the total.
LEMMA OneSingle ==
    ASSUME NEW kind, NEW e, Moves(kind, e) \in Int
    PROVE  SumOfMoves(kind, {e}) = Moves(kind, e)
<1>1. PICK S : S = {}
  OBVIOUS
<1>2. SumOfMoves(kind, S) = 0
  BY <1>1, SumEmpty DEF SumOfMoves
<1>3. IsFiniteSet(S)
  BY <1>1, FS_EmptySet, Zenon
<1>4. e \notin S /\ \A x \in S : Moves(kind, x) \in Int
  BY <1>1
<1>5. SumOfMoves(kind, S \union {e}) = Moves(kind, e) + SumOfMoves(kind, S)
  BY <1>3, <1>4, OneMoreMoves
<1>6. S \union {e} = {e}
  BY <1>1
<1>7. PICK d \in Int : d = Moves(kind, e)
  OBVIOUS
<1>8. SumOfMoves(kind, {e}) = d + 0
  BY <1>2, <1>5, <1>6, <1>7, Zenon
<1>9. d + 0 = d
  BY <1>7
<1> QED
  BY <1>7, <1>8, <1>9, Zenon

\* create_trade: with a counter-party, the two trades move against each other.
LEMMA ManualTotal ==
    ASSUME EngineInv, res' = "ok", IsManual, NEW kind, NEW m
    PROVE  MovesBySingles(kind, m)
<1>1. PICK a, x, id, side, lots, ticks, cpty, batch, qs :
            /\ ManualBooked(a, x, id, side, lots, ticks, cpty, batch)
            /\ Traded(Reverse(batch), qs, x)
  BY ManualTraded
<1>2. PICK r : r = Reverse(batch)
  OBVIOUS
<1>3. OneOrTwo(batch, a, x, id, side, lots, ticks, cpty)
      /\ a \in Accnts /\ side \in Sides /\ cpty \in Accnts \union {NoAccnt}
      /\ lots \in Nat /\ ticks \in Nat
  <2>1. lots \in 1..MaxLots /\ ticks \in 1..MaxTicks
    BY <1>1 DEF ManualBooked
  <2>2. lots \in Nat /\ ticks \in Nat
    BY <2>1, EngineAssumption
  <2> QED
    BY <1>1, <2>2, OneOrTwoTrades DEF ManualBooked
<1>4. PICK f : TotalsBy(f, r, kind, m)
  BY <1>1, <1>2, TotalSteps
<1>5. TotalWorth(kind, posns, m) \in Int
  BY TotalType DEF EngineInv
<1>6. Sent = {r[k] : k \in 1..Len(r)}
  BY <1>1, <1>2 DEF Traded
<1>7. CASE cpty = NoAccnt
  <2>1. /\ Len(batch) = 1 /\ DOMAIN batch = 1..1
        /\ ManualIs(batch[1], id, a, x, side, lots, ticks, NoAccnt)
    BY <1>3, <1>7 DEF OneOrTwo
  <2>2. PICK e : e = batch[1]
    OBVIOUS
  <2>3. Turned(r, batch, 1)
    BY <1>2, <2>1, ReverseIs
  <2>4. Len(r) = 1 /\ r[1] = e
    BY <2>2, <2>3 DEF Turned
  <2>5. SentTrades = {e} /\ e.cpty = NoAccnt /\ e.state = "Trade"
    BY <1>6, <2>1, <2>2, <2>4 DEF SentTrades, ManualIs
  <2>6. TotalMoves(kind, f[0], f[1], e, m)
    <3>1. 1 \in 1..Len(r) /\ 1 - 1 = 0
      BY <2>4
    <3> QED
      BY <1>4, <2>4, <3>1 DEF TotalsBy
  <2>7. /\ TotalWorth(kind, f[0], m) = TotalWorth(kind, posns, m)
        /\ TotalWorth(kind, f[1], m) = TotalWorth(kind, posns', m)
    BY <1>4, <2>4 DEF TotalsBy
  <2>8. CASE e.market = m
    <3>1. Singles(m) = {e}
      BY <2>5, <2>8 DEF Singles
    <3>2. PICK d \in Int : d = Moves(kind, e) /\ SumOfMoves(kind, Singles(m)) = d
      BY <2>6, <3>1, OneSingle DEF TotalMoves
    <3> QED
      BY <1>5, <2>5, <2>6, <2>7, <2>8, <3>2 DEF TotalMoves, MovesBySingles
  <2>9. CASE e.market # m
    <3>1. Singles(m) = {}
      BY <2>5, <2>9 DEF Singles
    <3>2. PICK w \in Int : w = TotalWorth(kind, posns, m)
      BY <1>5
    <3>3. TotalWorth(kind, posns', m) = w + 0
      BY <2>6, <2>7, <2>9, <3>2 DEF TotalMoves
    <3> QED
      BY <3>1, <3>2, <3>3, NoSingles
  <2> QED
    BY <2>8, <2>9
<1>8. CASE cpty # NoAccnt
  <2>1. /\ Len(batch) = 2 /\ DOMAIN batch = 1..2
        /\ ManualIs(batch[1], id, a, x, side, lots, ticks, cpty)
        /\ ManualIs(batch[2], id + 1, cpty, x, Opposite(side), lots, ticks, a)
    BY <1>3, <1>8 DEF OneOrTwo
  <2>2. PICK e, d : e = batch[2] /\ d = batch[1]
    OBVIOUS
  <2>3. Turned(r, batch, 2)
    BY <1>2, <2>1, ReverseIs
  <2>4. Len(r) = 2 /\ r[1] = e /\ r[2] = d
    BY <2>2, <2>3 DEF Turned
  <2>5. TotalMoves(kind, f[0], f[1], e, m) /\ TotalMoves(kind, f[1], f[2], d, m)
    <3>1. 1 \in 1..Len(r) /\ 1 - 1 = 0 /\ 2 \in 1..Len(r) /\ 2 - 1 = 1
      BY <2>4
    <3> QED
      BY <1>4, <2>4, <3>1 DEF TotalsBy
  <2>6. /\ TotalWorth(kind, f[0], m) = TotalWorth(kind, posns, m)
        /\ TotalWorth(kind, f[2], m) = TotalWorth(kind, posns', m)
    BY <1>4, <2>4 DEF TotalsBy
  <2>7. Opposite(side) \in Sides /\ Opposite(Opposite(side)) = side
    BY <1>3, SidesAre
  <2>8. /\ e.state = "Trade" /\ d.state = "Trade" /\ e.market = d.market
        /\ e.side \in Sides /\ d.side = Opposite(e.side)
        /\ e.lastLots \in Nat /\ d.lastLots = e.lastLots
        /\ e.lastTicks \in Nat /\ d.lastTicks = e.lastTicks
    BY <1>3, <2>1, <2>2, <2>7 DEF ManualIs
  <2>9. TotalWorth(kind, f[2], m) = TotalWorth(kind, f[0], m)
    BY <2>5, <2>8, TotalStays
  <2>10. Singles(m) = {}
    <3>1. \A y \in Sent : y = e \/ y = d
      <4>1. \A k \in 1..Len(r) : k = 1 \/ k = 2
        BY <2>4
      <4> QED
        BY <1>6, <2>4, <4>1
    <3>2. e.cpty = a /\ d.cpty = cpty
      BY <2>1, <2>2 DEF ManualIs
    <3> QED
      BY <1>3, <1>8, <3>1, <3>2, EngineAssumption DEF Singles, SentTrades
  <2> QED
    BY <2>6, <2>9, <2>10, NoSingles
<1> QED
  BY <1>7, <1>8

\* Every operation that succeeds.
LEMMA StepTotal ==
    ASSUME EngineInv, Next, res' = "ok", NEW kind, NEW m
    PROVE  MovesBySingles(kind, m)
<1>1. ASSUME NEW x, NEW id, NEW order, NEW ms, IsUndone(x, id, order, ms)
      PROVE  FALSE
  BY <1>1 DEF IsUndone, OrderUndone
<1>2. CASE Quiet \/ IsChange
  <2>1. SentTrades = {} /\ UNCHANGED posns
    BY <1>2, OthersMoveNothing
  <2>2. Singles(m) = {}
    BY <2>1 DEF Singles
  <2> QED
    BY <2>1, <2>2, NoSingles
<1>3. ASSUME NEW x, NEW id, NEW order, NEW ms, IsBooked(x, id, order, ms)
      PROVE  MovesBySingles(kind, m)
  BY <1>3, BookedTotal
<1>4. CASE IsManual
  BY <1>4, ManualTotal
<1> QED
  BY <1>1, <1>2, <1>3, <1>4, StepKinds

\* The totals of the property are these.
LEMMA TotalsAre ==
    ASSUME GoodPosns(posns), NEW m
    PROVE  /\ TotalLots(m) = TotalWorth("lots", posns, m)
           /\ TotalCost(m) = TotalWorth("cost", posns, m)
<1>1. PICK held : held = {a \in Accnts : m \in DOMAIN posns[a]}
  OBVIOUS
<1>2. /\ SumFunction([a \in held |-> Worth("lots", posns[a][m])]) = TotalWorth("lots", posns, m)
      /\ SumFunction([a \in held |-> Worth("cost", posns[a][m])]) = TotalWorth("cost", posns, m)
  BY <1>1, HeldTotal
<1>3. /\ \A p : Worth("lots", p) = NetLots(p)
      /\ \A p : Worth("cost", p) = p.buyCost - p.sellCost
  BY DEF Worth
<1>4. TotalLots(m) = SumFunction([a \in held |-> Worth("lots", posns[a][m])])
  BY <1>1, <1>3 DEF TotalLots
<1>5. TotalCost(m) = SumFunction([a \in held |-> Worth("cost", posns[a][m])])
  BY <1>1, <1>3 DEF TotalCost
<1> QED
  BY <1>2, <1>4, <1>5

\* The same after the step.
LEMMA TotalsAreThen ==
    ASSUME GoodPosns(posns'), NEW m
    PROVE  /\ TotalLots(m)' = TotalWorth("lots", posns', m)
           /\ TotalCost(m)' = TotalWorth("cost", posns', m)
<1>1. PICK held : held = {a \in Accnts : m \in DOMAIN posns'[a]}
  OBVIOUS
<1>2. /\ SumFunction([a \in held |-> Worth("lots", posns'[a][m])]) = TotalWorth("lots", posns', m)
      /\ SumFunction([a \in held |-> Worth("cost", posns'[a][m])]) = TotalWorth("cost", posns', m)
  BY <1>1, HeldTotal
<1>3. /\ \A p : Worth("lots", p) = NetLots(p)
      /\ \A p : Worth("cost", p) = p.buyCost - p.sellCost
  BY DEF Worth
<1>4. TotalLots(m)' = SumFunction([a \in held |-> Worth("lots", posns'[a][m])])
  BY <1>1, <1>3 DEF TotalLots
<1>5. TotalCost(m)' = SumFunction([a \in held |-> Worth("cost", posns'[a][m])])
  BY <1>1, <1>3 DEF TotalCost
<1> QED
  BY <1>2, <1>4, <1>5

\* What a manual trade without a counter-party gives, an account gains and no
\* other account loses; all other trades add up to nothing, in lots and in cost
\* (commit_matches, create_trade).
THEOREM PosnsBalance == Spec => PositionsBalance
<1>1. ASSUME EngineInv, EngineInv', Next, res' = "ok", NEW m
      PROVE  /\ TotalLots(m)' - TotalLots(m)
                    = SumFunction([e \in Singles(m) |-> Signed(e)])
             /\ TotalCost(m)' - TotalCost(m)
                    = SumFunction([e \in Singles(m) |-> Signed(e) * e.lastTicks])
  <2>1. GoodPosns(posns) /\ GoodPosns(posns')
    BY <1>1 DEF EngineInv
  <2>2. /\ SumFunction([e \in Singles(m) |-> Signed(e)]) = SumOfMoves("lots", Singles(m))
        /\ SumFunction([e \in Singles(m) |-> Signed(e) * e.lastTicks])
                = SumOfMoves("cost", Singles(m))
    BY DEF SumOfMoves, Moves
  <2>3. \A s, t \in Int : (s + t) - s = t
    OBVIOUS
  <2>4. /\ TotalWorth("lots", posns', m) - TotalWorth("lots", posns, m)
                = SumOfMoves("lots", Singles(m))
        /\ TotalWorth("cost", posns', m) - TotalWorth("cost", posns, m)
                = SumOfMoves("cost", Singles(m))
    BY <1>1, <2>3, StepTotal DEF MovesBySingles
  <2> QED
    BY <2>1, <2>2, <2>4, TotalsAre, TotalsAreThen
<1>2. EngineInv /\ EngineInv' /\ [Next]_vars =>
        [res' = "ok" => \A m \in DOMAIN markets :
            LET single == {e \in SentTrades : e.cpty = NoAccnt /\ e.market = m}
                paid(e) == Signed(e) * e.lastTicks
            IN  /\ TotalLots(m)' - TotalLots(m) = SumFunction([e \in single |-> Signed(e)])
                /\ TotalCost(m)' - TotalCost(m) = SumFunction([e \in single |-> paid(e)])]_vars
  BY <1>1, Zenon DEF Singles
<1> QED
  BY <1>2, InvHolds, PTL DEF Spec, PositionsBalance

-----------------------------------------------------------------------------
(* The tables of the journal. *)

\* The rows of the tables are those of known markets, and have no ids above
\* "last", the last id of each market.
ExecRowIn(row, last) ==
    /\ {"market", "id"} \subseteq DOMAIN row
    /\ row.market \in DOMAIN last /\ row.id \in Nat /\ row.id =< last[row.market]

OrderKeyIn(k, last) ==
    \E m \in DOMAIN last, id \in Nat : k = <<m, id>> /\ id =< last[m]

TablesWithin(d, last) ==
    /\ {"markets", "orders", "execs"} \subseteq DOMAIN d
    /\ \A m \in DOMAIN last : last[m] \in Nat
    /\ DOMAIN d.markets = DOMAIN last
    /\ \A m \in DOMAIN last : "state" \in DOMAIN d.markets[m]
    /\ \E n \in Nat : d.execs = [i \in 1..n |-> d.execs[i]]
    /\ \A i \in DOMAIN d.execs : ExecRowIn(d.execs[i], last)
    /\ \A k \in DOMAIN d.orders : OrderKeyIn(k, last)

\* What an exec becomes in the table.
RowOf(e) ==
    [accnt |-> e.accnt, market |-> e.market, id |-> e.id,
     state |-> e.state, side |-> e.side,
     lastLots |-> e.lastLots, lastTicks |-> e.lastTicks, archived |-> FALSE]

\* One row more.
LEMMA RowAppended ==
    ASSUME NEW rows, NEW n \in Nat, rows = [i \in 1..n |-> rows[i]], NEW r
    PROVE  /\ Append(rows, r) = [i \in 1..(n + 1) |-> Append(rows, r)[i]]
           /\ \A i \in 1..n : Append(rows, r)[i] = rows[i]
           /\ Append(rows, r)[n + 1] = r
<1>1. PICK S : S = {rows[i] : i \in 1..n} \union {r}
  OBVIOUS
<1>2. rows \in [1..n -> S]
  BY <1>1
<1>3. rows \in Seq(S) /\ Len(rows) = n
  BY <1>2
<1>4. r \in S
  BY <1>1
<1> QED
  BY <1>3, <1>4

\* The ids of a message are those of its market when it takes one more.
More(last, m) == [last EXCEPT ![m] = @ + 1]

\* What writing keeps of the states of the markets.
SameStates(d, t) ==
    \A m \in DOMAIN d.markets : t.markets[m].state = d.markets[m].state

\* The triggers on exec_t: an exec with the next id of its market is accepted,
\* and the tables know this id then.
LEMMA ExecWritten ==
    ASSUME NEW d, NEW last, TablesWithin(d, last), NEW m \in DOMAIN last,
           NEW e, IsNext(e, m, last[m] + 1),
           NEW msg, msg = [type |-> "CreateExec", exec |-> e]
    PROVE  /\ Accepted(d, msg)
           /\ TablesWithin(Written(d, msg), More(last, m))
           /\ SameStates(d, Written(d, msg))
<1>1. /\ e.market = m /\ e.id = last[m] + 1
      /\ e.state = "New" => e.orderId = e.id
      /\ msg.type = "CreateExec" /\ msg.exec = e
  BY DEF IsNext
<1>2. PICK c \in Nat : c = last[m]
  BY DEF TablesWithin
<1>3. PICK n \in Nat : d.execs = [i \in 1..n |-> d.execs[i]]
  BY DEF TablesWithin
<1>4. \A i \in 1..n : ExecRowIn(d.execs[i], last)
  BY <1>3 DEF TablesWithin
<1>5. Accepted(d, msg)
  <2>1. \A r \in ToSet(d.execs) : ~(r.market = e.market /\ r.id = e.id)
    <3>1. ASSUME NEW i \in DOMAIN d.execs, d.execs[i].market = m, d.execs[i].id = c + 1
          PROVE  FALSE
      <4>1. d.execs[i].id =< c
        BY <1>2, <3>1 DEF TablesWithin, ExecRowIn
      <4> QED
        BY <1>2, <3>1, <4>1
    <3> QED
      BY <1>1, <1>2, <3>1 DEF ToSet
  <2>2. <<m, c + 1>> \notin DOMAIN d.orders
    <3>1. ASSUME OrderKeyIn(<<m, c + 1>>, last)
          PROVE  FALSE
      BY <1>2, <3>1 DEF OrderKeyIn
    <3> QED
      BY <3>1 DEF TablesWithin
  <2> QED
    BY <1>1, <1>2, <2>1, <2>2 DEF Accepted
<1>6. PICK t : t = Written(d, msg)
  OBVIOUS
<1>7. t = InsertExec(d, e)
  BY <1>1, <1>6 DEF Written
<1>8. PICK next : next = More(last, m)
  OBVIOUS
<1>9. /\ DOMAIN next = DOMAIN last /\ next[m] = c + 1
      /\ \A x \in DOMAIN last : next[x] \in Nat /\ last[x] \in Nat /\ last[x] =< next[x]
  <2>1. \A x \in DOMAIN last : last[x] \in Nat
    BY DEF TablesWithin
  <2>2. \A x \in DOMAIN last : next[x] = IF x = m THEN last[x] + 1 ELSE last[x]
    BY <1>8 DEF More
  <2>3. DOMAIN next = DOMAIN last
    BY <1>8 DEF More
  <2> QED
    BY <1>2, <2>1, <2>2, <2>3
<1>10. /\ t.markets = UpdateLast(d.markets, e)
       /\ t.execs = Append(d.execs, RowOf(e))
       /\ {"markets", "orders", "execs"} \subseteq DOMAIN t
  BY <1>7 DEF InsertExec, RowOf
<1>11. /\ DOMAIN t.markets = DOMAIN d.markets
       /\ \A x \in DOMAIN d.markets : "state" \in DOMAIN d.markets[x]
                => "state" \in DOMAIN t.markets[x] /\ t.markets[x].state = d.markets[x].state
  <2>1. CASE e.state # "Trade"
    BY <1>10, <2>1 DEF UpdateLast
  <2>2. CASE e.state = "Trade"
    <3>1. t.markets = [d.markets EXCEPT ![e.market].lastLots = e.lastLots,
                                        ![e.market].lastTicks = e.lastTicks]
      BY <1>10, <2>2 DEF UpdateLast
    <3> QED
      BY <3>1
  <2> QED
    BY <2>1, <2>2
<1>12. /\ t.execs = [i \in 1..(n + 1) |-> t.execs[i]]
       /\ \A i \in 1..n : t.execs[i] = d.execs[i]
       /\ t.execs[n + 1] = RowOf(e)
  BY <1>3, <1>10, RowAppended
<1>13. \A i \in DOMAIN t.execs : ExecRowIn(t.execs[i], next)
  <2>1. ASSUME NEW i \in 1..n
        PROVE  ExecRowIn(t.execs[i], next)
    <3>1. PICK r : r = d.execs[i] /\ r = t.execs[i] /\ ExecRowIn(r, last)
      BY <1>4, <1>12
    <3>2. PICK x \in DOMAIN last : x = r.market /\ r.id \in Nat /\ r.id =< last[x]
      BY <3>1 DEF ExecRowIn
    <3>3. r.id =< next[x]
      BY <1>9, <3>2
    <3> QED
      BY <1>9, <3>1, <3>2, <3>3 DEF ExecRowIn
  <2>2. ExecRowIn(RowOf(e), next)
    BY <1>1, <1>2, <1>9 DEF ExecRowIn, RowOf
  <2>3. \A i \in DOMAIN t.execs : i \in 1..n \/ i = n + 1
    BY <1>12
  <2> QED
    BY <1>12, <2>1, <2>2, <2>3
<1>14. \A k \in DOMAIN t.orders : OrderKeyIn(k, next)
  <2>1. ASSUME NEW k, OrderKeyIn(k, last)
        PROVE  OrderKeyIn(k, next)
    <3>1. PICK x \in DOMAIN last, id \in Nat : k = <<x, id>> /\ id =< last[x]
      BY <2>1 DEF OrderKeyIn
    <3>2. id =< next[x] /\ x \in DOMAIN next
      BY <1>9, <3>1
    <3> QED
      BY <3>1, <3>2 DEF OrderKeyIn
  <2>2. e.state = "New" => OrderKeyIn(<<e.market, e.orderId>>, next)
    <3>1. c + 1 \in Nat /\ c + 1 =< next[m] /\ m \in DOMAIN next
      BY <1>9
    <3> QED
      BY <1>1, <1>2, <3>1 DEF OrderKeyIn
  <2>3. \A k \in DOMAIN t.orders : k \in DOMAIN d.orders
                                   \/ (e.state = "New" /\ k = <<e.market, e.orderId>>)
    BY <1>7 DEF InsertExec, Put, UpdateOrders
  <2> QED
    BY <2>1, <2>2, <2>3 DEF TablesWithin
<1>15. TablesWithin(t, next)
  <2>1. DOMAIN t.markets = DOMAIN next /\ \A x \in DOMAIN next : "state" \in DOMAIN t.markets[x]
    BY <1>9, <1>11 DEF TablesWithin
  <2>2. \E j \in Nat : t.execs = [i \in 1..j |-> t.execs[i]]
    BY <1>12
  <2> QED
    BY <1>9, <1>10, <1>13, <1>14, <2>1, <2>2 DEF TablesWithin
<1>16. SameStates(d, t)
  BY <1>11 DEF SameStates, TablesWithin
<1> QED
  BY <1>5, <1>6, <1>8, <1>15, <1>16

\* ArchiveTrade marks rows.
LEMMA ArchiveWritten ==
    ASSUME NEW d, NEW last, TablesWithin(d, last), NEW msg, msg.type = "ArchiveTrade"
    PROVE  /\ Accepted(d, msg)
           /\ TablesWithin(Written(d, msg), last)
           /\ SameStates(d, Written(d, msg))
           /\ Written(d, msg).orders = d.orders
<1>1. Accepted(d, msg)
  BY DEF Accepted
<1>2. PICK t : t = Written(d, msg)
  OBVIOUS
<1>3. PICK n \in Nat : d.execs = [i \in 1..n |-> d.execs[i]]
  BY DEF TablesWithin
<1>4. PICK marked : marked = [i \in 1..n |->
            IF d.execs[i].market = msg.market /\ d.execs[i].id \in ToSet(msg.ids)
            THEN [d.execs[i] EXCEPT !.archived = TRUE] ELSE d.execs[i]]
  OBVIOUS
<1>5. t = [d EXCEPT !.execs = marked]
  BY <1>2, <1>3, <1>4 DEF Written, ArchiveTrades
<1>6. /\ t.markets = d.markets /\ t.orders = d.orders /\ t.execs = marked
      /\ {"markets", "orders", "execs"} \subseteq DOMAIN t
  BY <1>5 DEF TablesWithin
<1>7. ASSUME NEW i \in 1..n
      PROVE  ExecRowIn(marked[i], last)
  <2>1. PICK r : r = d.execs[i] /\ ExecRowIn(r, last)
    BY <1>3 DEF TablesWithin
  <2>2. marked[i] = r \/ marked[i] = [r EXCEPT !.archived = TRUE]
    BY <1>4, <2>1
  <2>3. ExecRowIn([r EXCEPT !.archived = TRUE], last)
    BY <2>1 DEF ExecRowIn
  <2> QED
    BY <2>1, <2>2, <2>3
<1>8. TablesWithin(t, last)
  <2>1. t.execs = [i \in 1..n |-> t.execs[i]]
    BY <1>4, <1>6
  <2>2. \A i \in DOMAIN t.execs : ExecRowIn(t.execs[i], last)
    BY <1>4, <1>6, <1>7
  <2> QED
    BY <1>6, <2>1, <2>2 DEF TablesWithin
<1>9. SameStates(d, t)
  BY <1>6 DEF SameStates
<1> QED
  BY <1>1, <1>2, <1>6, <1>8, <1>9

\* CreateMarket adds a market that has given out no id.
LEMMA CreateWritten ==
    ASSUME NEW d, NEW last, TablesWithin(d, last), NEW m, m \notin DOMAIN last, NEW state,
           NEW msg, msg = [type |-> "CreateMarket", market |-> m, state |-> state]
    PROVE  /\ Accepted(d, msg)
           /\ TablesWithin(Written(d, msg), Put(last, m, 0))
           /\ SameStates(d, Written(d, msg))
           /\ Written(d, msg).markets[m].state = state
           /\ Written(d, msg).orders = d.orders
<1>1. Accepted(d, msg)
  BY DEF Accepted, TablesWithin
<1>2. PICK t : t = Written(d, msg)
  OBVIOUS
<1>3. PICK row : row = [state |-> state, lastLots |-> 0, lastTicks |-> 0]
  OBVIOUS
<1>4. t = [d EXCEPT !.markets = Put(@, m, row)]
  BY <1>2, <1>3 DEF Written, InsertMarket
<1>5. /\ t.markets = Put(d.markets, m, row) /\ t.orders = d.orders /\ t.execs = d.execs
      /\ {"markets", "orders", "execs"} \subseteq DOMAIN t
  BY <1>4 DEF TablesWithin
<1>6. /\ DOMAIN t.markets = DOMAIN d.markets \union {m} /\ t.markets[m] = row
      /\ \A x \in DOMAIN d.markets : x # m => t.markets[x] = d.markets[x]
  BY <1>5 DEF Put
<1>7. PICK next : next = Put(last, m, 0)
  OBVIOUS
<1>8. /\ DOMAIN next = DOMAIN last \union {m} /\ next[m] = 0
      /\ \A x \in DOMAIN last : x # m /\ next[x] = last[x]
  BY <1>7 DEF Put
<1>9. "state" \in DOMAIN row /\ row.state = state
  BY <1>3
<1>10. \A i \in DOMAIN t.execs : ExecRowIn(t.execs[i], next)
  <2>1. ASSUME NEW r, ExecRowIn(r, last)
        PROVE  ExecRowIn(r, next)
    BY <1>8, <2>1 DEF ExecRowIn
  <2> QED
    BY <1>5, <2>1 DEF TablesWithin
<1>11. \A k \in DOMAIN t.orders : OrderKeyIn(k, next)
  <2>1. ASSUME NEW k, OrderKeyIn(k, last)
        PROVE  OrderKeyIn(k, next)
    BY <1>8, <2>1 DEF OrderKeyIn
  <2> QED
    BY <1>5, <2>1 DEF TablesWithin
<1>12. TablesWithin(t, next)
  <2>1. \A x \in DOMAIN next : next[x] \in Nat /\ "state" \in DOMAIN t.markets[x]
    BY <1>6, <1>8, <1>9 DEF TablesWithin
  <2>2. DOMAIN t.markets = DOMAIN next /\ \E n \in Nat : t.execs = [i \in 1..n |-> t.execs[i]]
    BY <1>5, <1>6, <1>8 DEF TablesWithin
  <2> QED
    BY <1>5, <1>10, <1>11, <2>1, <2>2 DEF TablesWithin
<1>13. SameStates(d, t)
  BY <1>6, <1>8 DEF SameStates, TablesWithin
<1> QED
  BY <1>1, <1>2, <1>5, <1>6, <1>7, <1>9, <1>12, <1>13

\* UpdateMarket changes the state of a market.
LEMMA UpdateWritten ==
    ASSUME NEW d, NEW last, TablesWithin(d, last), NEW m \in DOMAIN last, NEW state,
           NEW msg, msg = [type |-> "UpdateMarket", market |-> m, state |-> state]
    PROVE  /\ Accepted(d, msg)
           /\ TablesWithin(Written(d, msg), last)
           /\ \A x \in DOMAIN last : Written(d, msg).markets[x].state
                    = IF x = m THEN state ELSE d.markets[x].state
           /\ Written(d, msg).orders = d.orders
<1>1. Accepted(d, msg)
  BY DEF Accepted
<1>2. PICK t : t = Written(d, msg)
  OBVIOUS
<1>3. PICK rows : rows = [d.markets EXCEPT ![m].state = state]
  OBVIOUS
<1>4. t = [d EXCEPT !.markets = rows]
  BY <1>2, <1>3 DEF Written, UpdateMarketRow
<1>5. /\ t.markets = rows /\ t.orders = d.orders /\ t.execs = d.execs
      /\ {"markets", "orders", "execs"} \subseteq DOMAIN t
  BY <1>4 DEF TablesWithin
<1>6. /\ DOMAIN rows = DOMAIN last
      /\ \A x \in DOMAIN last : "state" \in DOMAIN rows[x]
      /\ \A x \in DOMAIN last : rows[x].state = IF x = m THEN state ELSE d.markets[x].state
  BY <1>3 DEF TablesWithin
<1>7. TablesWithin(t, last)
  BY <1>5, <1>6 DEF TablesWithin
<1> QED
  BY <1>1, <1>2, <1>5, <1>6, <1>7

-----------------------------------------------------------------------------
(* Writing messages one after the other. *)

\* f is what the first messages make of the tables d.
WrittenBy(f, n, d, msgs) ==
    /\ f[0] = d
    /\ \A k \in 1..n : f[k] = Written(f[k - 1], msgs[k])

\* There is such an f (the journal's loop over what it is posted).
LEMMA WrittenSteps ==
    ASSUME NEW n \in Nat, NEW d, NEW msgs
    PROVE  \E f : WrittenBy(f, n, d, msgs)
<1> DEFINE Good == {i \in Nat : \E f : WrittenBy(f, i, d, msgs)}
<1>1. 0 \in Good
  <2>1. PICK f : f = [k \in {0} |-> d]
    OBVIOUS
  <2>2. WrittenBy(f, 0, d, msgs)
    BY <2>1 DEF WrittenBy
  <2> QED
    BY <2>2
<1>2. ASSUME NEW i \in Nat, i < n, i \in Good
      PROVE  i + 1 \in Good
  <2>1. PICK f : WrittenBy(f, i, d, msgs)
    BY <1>2
  <2>2. PICK h : h = [k \in 0..(i + 1) |-> IF k = i + 1 THEN Written(f[i], msgs[i + 1])
                                           ELSE f[k]]
    OBVIOUS
  <2>3. /\ h[i + 1] = Written(f[i], msgs[i + 1])
        /\ \A k \in 0..i : h[k] = f[k]
    BY <2>2
  <2>4. h[0] = d
    BY <2>1, <2>3 DEF WrittenBy
  <2>5. ASSUME NEW k \in 1..(i + 1)
        PROVE  h[k] = Written(h[k - 1], msgs[k])
    <3>1. CASE k = i + 1
      <4>1. k - 1 = i /\ h[i] = f[i]
        BY <2>3, <3>1
      <4> QED
        BY <2>3, <3>1, <4>1
    <3>2. CASE k \in 1..i
      <4>1. k - 1 \in 0..i /\ k \in 0..i
        BY <3>2
      <4>2. h[k] = f[k] /\ h[k - 1] = f[k - 1]
        BY <2>3, <4>1
      <4> QED
        BY <2>1, <3>2, <4>2 DEF WrittenBy
    <3> QED
      BY <3>1, <3>2
  <2>6. WrittenBy(h, i + 1, d, msgs)
    BY <2>4, <2>5 DEF WrittenBy
  <2> QED
    BY <2>6
<1> HIDE DEF Good
<1>3. \A i \in 0..n : i \in Good
  BY <1>1, <1>2, NumberInduction
<1>4. n \in Good
  BY <1>3
<1> QED
  BY <1>4 DEF Good

\* The tables t are what the messages make of d, and each is accepted in turn.
AllAccepted(f, n, msgs) == \A k \in 1..n : Accepted(f[k - 1], msgs[k])

Leads(d, msgs, t) ==
    \E f : /\ WrittenBy(f, Len(msgs), d, msgs) /\ f[Len(msgs)] = t
           /\ AllAccepted(f, Len(msgs), msgs)

\* A table of messages.
IsList(s) == Len(s) \in Nat /\ s = [i \in 1..Len(s) |-> s[i]]

\* Two lists one after the other.
LEMMA ListsJoined ==
    ASSUME NEW s, IsList(s), NEW t, IsList(t)
    PROVE  /\ IsList(s \o t) /\ Len(s \o t) = Len(s) + Len(t)
           /\ \A i \in 1..Len(s) : (s \o t)[i] = s[i]
           /\ \A i \in 1..Len(t) : (s \o t)[Len(s) + i] = t[i]
<1>1. PICK n \in Nat, c \in Nat : n = Len(s) /\ c = Len(t) 
                               /\ s = [i \in 1..n |-> s[i]] /\ t = [i \in 1..c |-> t[i]]
  BY DEF IsList
<1> DEFINE S == {s[i] : i \in 1..n} \union {t[i] : i \in 1..c}
<1>7. s \in Seq(S) /\ t \in Seq(S)
  <2>1. s \in [1..n -> S] /\ t \in [1..c -> S]
    BY <1>1
  <2> QED
    BY <1>1, <2>1
<1>2. PICK both : both = s \o t
  OBVIOUS
<1>3. both = [i \in 1..(n + c) |-> IF i =< n THEN s[i] ELSE t[i - n]]
  BY <1>1, <1>2, <1>7
<1>4. Len(both) = n + c /\ both = [i \in 1..(n + c) |-> both[i]]
  BY <1>3
<1>5. \A i \in 1..n : both[i] = s[i]
  BY <1>3
<1>6. \A i \in 1..c : both[n + i] = t[i]
  BY <1>3
<1> QED
  BY <1>1, <1>2, <1>4, <1>5, <1>6 DEF IsList

\* No messages.
LEMMA LeadsNowhere ==
    ASSUME NEW d, NEW msgs, Len(msgs) = 0
    PROVE  Leads(d, msgs, d)
<1>1. PICK f : f = [k \in {0} |-> d]
  OBVIOUS
<1>2. WrittenBy(f, 0, d, msgs) /\ f[0] = d /\ AllAccepted(f, 0, msgs)
  BY <1>1 DEF WrittenBy, AllAccepted
<1> QED
  BY <1>2 DEF Leads

\* One message.
LEMMA LeadsOne ==
    ASSUME NEW d, NEW msgs, Len(msgs) = 1, Accepted(d, msgs[1])
    PROVE  Leads(d, msgs, Written(d, msgs[1]))
<1>1. PICK t : t = Written(d, msgs[1])
  OBVIOUS
<1>2. PICK f : f = [k \in {0, 1} |-> IF k = 0 THEN d ELSE t]
  OBVIOUS
<1>3. f[0] = d /\ f[1] = t /\ \A k \in 1..1 : k = 1 /\ k - 1 = 0
  BY <1>2
<1>4. WrittenBy(f, 1, d, msgs) /\ AllAccepted(f, 1, msgs)
  BY <1>1, <1>3 DEF WrittenBy, AllAccepted
<1> QED
  BY <1>1, <1>3, <1>4 DEF Leads

\* The messages of an operation follow those that wait.
LEMMA LeadsOn ==
    ASSUME NEW d, NEW s, IsList(s), NEW t, Leads(d, s, t),
           NEW more, IsList(more), NEW u, Leads(t, more, u)
    PROVE  Leads(d, s \o more, u)
<1>1. PICK n \in Nat, c \in Nat : n = Len(s) /\ c = Len(more)
  BY DEF IsList
<1>2. PICK all : all = s \o more
  OBVIOUS
<1>3. /\ Len(all) = n + c
      /\ \A i \in 1..n : all[i] = s[i]
      /\ \A i \in 1..c : all[n + i] = more[i]
  BY <1>1, <1>2, ListsJoined
<1>4. PICK f : WrittenBy(f, n, d, s) /\ f[n] = t /\ AllAccepted(f, n, s)
  BY <1>1 DEF Leads
<1>5. PICK g : WrittenBy(g, c, t, more) /\ g[c] = u /\ AllAccepted(g, c, more)
  BY <1>1 DEF Leads
<1>6. PICK h : h = [k \in 0..(n + c) |-> IF k =< n THEN f[k] ELSE g[k - n]]
  OBVIOUS
<1>7. /\ \A k \in 0..n : h[k] = f[k]
      /\ \A j \in 0..c : h[n + j] = g[j]
  <2>1. \A k \in 0..n : h[k] = f[k]
    BY <1>6
  <2>2. ASSUME NEW j \in 0..c
        PROVE  h[n + j] = g[j]
    <3>1. CASE j = 0
      <4>1. n + j = n /\ n \in 0..n /\ g[j] = t
        BY <1>5, <3>1 DEF WrittenBy
      <4> QED
        BY <1>4, <2>1, <4>1
    <3>2. CASE j # 0
      <4>1. n + j \in 0..(n + c) /\ ~(n + j =< n) /\ (n + j) - n = j
        BY <3>2
      <4> QED
        BY <1>6, <4>1
    <3> QED
      BY <3>1, <3>2
  <2> QED
    BY <2>1, <2>2
<1>8. ASSUME NEW k \in 1..(n + c)
      PROVE  Accepted(h[k - 1], all[k]) /\ h[k] = Written(h[k - 1], all[k])
  <2>1. CASE k \in 1..n
    <3>1. h[k] = f[k] /\ h[k - 1] = f[k - 1] /\ all[k] = s[k]
      <4>1. k \in 0..n /\ k - 1 \in 0..n
        BY <2>1
      <4> QED
        BY <1>3, <1>7, <2>1, <4>1
    <3> QED
      BY <1>4, <2>1, <3>1 DEF WrittenBy, AllAccepted
  <2>2. CASE k \notin 1..n
    <3>1. PICK j \in 1..c : k = n + j /\ k - 1 = n + (j - 1) /\ j - 1 \in 0..c /\ j \in 0..c
      <4>1. k - n \in 1..c /\ k = n + (k - n) /\ k - 1 = n + ((k - n) - 1)
            /\ (k - n) - 1 \in 0..c /\ k - n \in 0..c
        BY <2>2
      <4> QED
        BY <4>1
    <3>2. h[k] = g[j] /\ h[k - 1] = g[j - 1] /\ all[k] = more[j]
      BY <1>3, <1>7, <3>1
    <3> QED
      BY <1>5, <3>1, <3>2 DEF WrittenBy, AllAccepted
  <2> QED
    BY <2>1, <2>2
<1>9. h[0] = d /\ h[n + c] = u
  <2>1. 0 \in 0..n /\ c \in 0..c
    OBVIOUS
  <2> QED
    BY <1>4, <1>5, <1>7, <2>1 DEF WrittenBy
<1>10. WrittenBy(h, n + c, d, all) /\ AllAccepted(h, n + c, all)
  BY <1>8, <1>9 DEF WrittenBy, AllAccepted
<1> QED
  BY <1>2, <1>3, <1>9, <1>10 DEF Leads

\* What waits when the first message is taken.
LEMMA QueueRest ==
    ASSUME NEW s, IsList(s), s # <<>>
    PROVE  /\ Head(s) = s[1] /\ Len(Tail(s)) = Len(s) - 1 /\ IsList(Tail(s))
           /\ \A k \in 1..(Len(s) - 1) : Tail(s)[k] = s[k + 1]
<1>1. PICK n \in Nat : n = Len(s) /\ s = [i \in 1..n |-> s[i]]
  BY DEF IsList
<1> DEFINE S == {s[i] : i \in 1..n}
<1>2. s \in Seq(S)
  <2>1. s \in [1..n -> S]
    BY <1>1
  <2> QED
    BY <1>1, <2>1
<1>3. n # 0
  BY <1>1
<1> QED
  BY <1>1, <1>2, <1>3 DEF IsList

\* The first message is accepted, and the others follow it.
LEMMA LeadsFrom ==
    ASSUME NEW d, NEW s, IsList(s), s # <<>>, NEW t, Leads(d, s, t)
    PROVE  /\ Accepted(d, Head(s))
           /\ IsList(Tail(s))
           /\ Leads(Written(d, Head(s)), Tail(s), t)
<1>1. PICK n \in Nat : n = Len(s) /\ n # 0 /\ s = [i \in 1..n |-> s[i]]
  BY DEF IsList
<1>2. PICK rest : rest = Tail(s)
  OBVIOUS
<1>3. /\ Head(s) = s[1] /\ Len(rest) = n - 1 /\ IsList(rest)
      /\ \A k \in 1..(n - 1) : rest[k] = s[k + 1]
  BY <1>1, <1>2, QueueRest
<1>4. PICK f : WrittenBy(f, n, d, s) /\ f[n] = t /\ AllAccepted(f, n, s)
  BY <1>1 DEF Leads
<1>5. PICK g : g = [k \in 0..(n - 1) |-> f[k + 1]]
  OBVIOUS
<1>6. f[0] = d /\ f[1] = Written(d, s[1]) /\ Accepted(d, s[1])
  <2>1. 1 \in 1..n /\ 1 - 1 = 0
    BY <1>1
  <2> QED
    BY <1>4, <2>1 DEF WrittenBy, AllAccepted
<1>7. g[0] = Written(d, s[1]) /\ g[n - 1] = t
  <2>1. 0 \in 0..(n - 1) /\ n - 1 \in 0..(n - 1) /\ (n - 1) + 1 = n /\ 0 + 1 = 1
    BY <1>1
  <2>2. g[0] = f[1] /\ g[n - 1] = f[n]
    BY <1>5, <2>1
  <2> QED
    BY <1>4, <1>6, <2>2
<1>8. ASSUME NEW k \in 1..(n - 1)
      PROVE  Accepted(g[k - 1], rest[k]) /\ g[k] = Written(g[k - 1], rest[k])
  <2>1. k + 1 \in 1..n /\ (k + 1) - 1 = k /\ k \in 0..(n - 1) /\ k - 1 \in 0..(n - 1)
        /\ (k - 1) + 1 = k
    BY <1>1
  <2>2. g[k] = f[k + 1] /\ g[k - 1] = f[k] /\ rest[k] = s[k + 1]
    BY <1>3, <1>5, <2>1
  <2> QED
    BY <1>4, <2>1, <2>2 DEF WrittenBy, AllAccepted
<1>9. WrittenBy(g, n - 1, Written(d, s[1]), rest) /\ AllAccepted(g, n - 1, rest)
  BY <1>7, <1>8 DEF WrittenBy, AllAccepted
<1> QED
  BY <1>2, <1>3, <1>6, <1>7, <1>9 DEF Leads

\* The tables when the queue is written.
IsCaught(f, n) ==
    f = [k \in 0..n |-> IF k = 0 THEN db ELSE Written(f[k - 1], queue[k])]

\* Where the queue leads to is what the tables become when it is written.
LEMMA CaughtIs ==
    ASSUME IsList(queue), NEW t, Leads(db, queue, t)
    PROVE  Caught = t
<1>1. PICK n \in Nat : n = Len(queue)
  BY DEF IsList
<1>2. PICK g : WrittenBy(g, n, db, queue) /\ g[n] = t
  BY <1>1 DEF Leads
<1> DEFINE next(k, x) == Written(x, queue[k])
<1> HIDE DEF next
<1>3. g[0] = db /\ \A k \in 1..n : g[k] = next(k, g[k - 1])
  BY <1>2 DEF WrittenBy, next
<1>4. \E f : IsCaught(f, n)
  <2>1. PICK h : h = [k \in 0..n |-> g[k]]
    OBVIOUS
  <2>2. ASSUME NEW k \in 0..n
        PROVE  h[k] = IF k = 0 THEN db ELSE next(k, h[k - 1])
    <3>1. CASE k = 0
      BY <1>3, <2>1, <3>1
    <3>2. CASE k # 0
      <4>1. k \in 1..n /\ k - 1 \in 0..n
        BY <3>2
      <4> QED
        BY <1>3, <2>1, <3>2, <4>1
    <3> QED
      BY <3>1, <3>2
  <2>3. h = [k \in 0..n |-> IF k = 0 THEN db ELSE next(k, h[k - 1])]
    BY <2>1, <2>2
  <2>4. IsCaught(h, n)
    BY <2>3 DEF IsCaught, next
  <2> QED
    BY <2>4
<1>5. PICK f : f = CHOOSE h : IsCaught(h, n)
  OBVIOUS
<1>6. IsCaught(f, n)
  BY <1>4, <1>5
<1>7. Caught = f[n]
  BY <1>1, <1>5 DEF Caught, IsCaught
<1>8. f = [k \in 0..n |-> IF k = 0 THEN db ELSE next(k, f[k - 1])]
  BY <1>6 DEF IsCaught, next
<1>9. f[0] = db
  BY <1>8
<1>10. \A k \in 1..n : k \in 0..n /\ k # 0
  OBVIOUS
<1>11. \A k \in 1..n : f[k] = next(k, f[k - 1])
  BY <1>8, <1>10
<1> DEFINE Good == {k \in Nat : k =< n => f[k] = g[k]}
<1>12. 0 \in Good
  BY <1>3, <1>9
<1>13. ASSUME NEW k \in Nat, k < n, k \in Good
       PROVE  k + 1 \in Good
  <2>1. PICK j \in 1..n : j = k + 1 /\ j - 1 = k
    BY <1>13
  <2>2. f[k] = g[k]
    BY <1>13
  <2>3. f[j] = g[j]
    BY <1>3, <1>11, <2>1, <2>2
  <2> QED
    BY <2>1, <2>3
<1> HIDE DEF Good
<1>14. \A k \in 0..n : k \in Good
  BY <1>12, <1>13, NumberInduction
<1>15. f[n] = g[n]
  BY <1>14 DEF Good
<1> QED
  BY <1>2, <1>7, <1>15

-----------------------------------------------------------------------------
(* Rows and orders. *)

\* An exec and an order, or two of them, are of the same order.
Alike(e, order) ==
    /\ e.accnt = order.accnt /\ e.ref = order.ref /\ e.side = order.side
    /\ e.ticks = order.ticks /\ e.minLots = order.minLots

\* A row is an order.
IsOrderRow(row) == row = OrderIn(row) /\ row.resd \in Nat

\* The table of orders has the orders "ords": those of which something is left.
RowsAre(d, ords) ==
    /\ \A k \in DOMAIN d.orders : IsOrderRow(d.orders[k])
    /\ \A m \in DOMAIN ords : \A id \in DOMAIN ords[m] :
            <<m, id>> \in LiveRows(d) /\ d.orders[<<m, id>>] = ords[m][id]
    /\ \A k \in LiveRows(d) : k[1] \in DOMAIN ords /\ k[2] \in DOMAIN ords[k[1]]

\* The table has a row of the order that e is of.
Knows(d, m, id, e) == <<m, id>> \in DOMAIN d.orders /\ Alike(d.orders[<<m, id>>], e)

\* All rows are of the market m.
OnlyOf(d, m) == \A k \in DOMAIN d.orders : \E id \in Nat : k = <<m, id>>

\* The row of an order that an exec writes.
LEMMA RowUpdated ==
    ASSUME NEW row, IsOrderRow(row), NEW e, Alike(row, e)
    PROVE  [row EXCEPT !.lots = e.lots, !.resd = e.resd, !.exec = e.exec, !.cost = e.cost]
            = OrderIn(e)
<1>1. PICK a, r, s, t, l, z, x, c, n :
        row = [accnt |-> a, ref |-> r, side |-> s, ticks |-> t, lots |-> l, resd |-> z,
               exec |-> x, cost |-> c, minLots |-> n]
  BY DEF IsOrderRow, OrderIn
<1>2. a = e.accnt /\ r = e.ref /\ s = e.side /\ t = e.ticks /\ n = e.minLots
  BY <1>1 DEF Alike
<1>3. PICK new : new = [row EXCEPT !.lots = e.lots, !.resd = e.resd,
                                   !.exec = e.exec, !.cost = e.cost]
  OBVIOUS
<1>4. /\ new.lots = e.lots /\ new.resd = e.resd /\ new.exec = e.exec /\ new.cost = e.cost
      /\ new.accnt = a /\ new.ref = r /\ new.side = s /\ new.ticks = t /\ new.minLots = n
  BY <1>1, <1>3
<1>5. /\ DOMAIN new = {"accnt", "ref", "side", "ticks", "lots", "resd", "exec", "cost", "minLots"}
      /\ new = [f \in DOMAIN new |-> new[f]]
  BY <1>1, <1>3
<1>6. new = [accnt |-> e.accnt, ref |-> e.ref, side |-> e.side, ticks |-> e.ticks,
             lots |-> e.lots, resd |-> e.resd, exec |-> e.exec, cost |-> e.cost,
             minLots |-> e.minLots]
  BY <1>2, <1>4, <1>5
<1> QED
  BY <1>3, <1>6 DEF OrderIn

\* The table t is d with this row of an order.
RowPut(d, t, key, row) ==
    /\ DOMAIN t.orders = DOMAIN d.orders \union {key}
    /\ t.orders[key] = row
    /\ \A k \in DOMAIN d.orders : k # key => t.orders[k] = d.orders[k]

\* What the triggers make of the row of the order and of the others.
LEMMA RowsWritten ==
    ASSUME NEW d, NEW m, OnlyOf(d, m), \A k \in DOMAIN d.orders : IsOrderRow(d.orders[k]),
           NEW e, e.market = m, e.orderId \in Nat \ {0}, e.resd \in Nat,
           e.state # "New" => Knows(d, m, e.orderId, e)
    PROVE  RowPut(d, InsertExec(d, e), <<m, e.orderId>>, OrderIn(e))
<1>1. PICK t, key : t = InsertExec(d, e) /\ key = <<m, e.orderId>>
  OBVIOUS
<1>2. CASE e.state = "New"
  <2>1. t.orders = Put(d.orders, key, OrderRow(e))
    BY <1>1, <1>2 DEF InsertExec
  <2>2. OrderRow(e) = OrderIn(e)
    BY DEF OrderRow, OrderIn
  <2> QED
    BY <1>1, <2>1, <2>2 DEF Put, RowPut
<1>3. CASE e.state # "New"
  <2>1. t.orders = UpdateOrders(d.orders, e)
    BY <1>1, <1>3 DEF InsertExec
  <2>2. key \in DOMAIN d.orders /\ Alike(d.orders[key], e) /\ key[2] = e.orderId
    BY <1>1, <1>3 DEF Knows
  <2>3. t.orders[key] = OrderIn(e)
    <3>1. PICK row : row = d.orders[key] /\ IsOrderRow(row) /\ Alike(row, e)
      BY <2>2
    <3>2. t.orders[key] = [row EXCEPT !.lots = e.lots, !.resd = e.resd,
                                      !.exec = e.exec, !.cost = e.cost]
      BY <2>1, <2>2, <3>1 DEF UpdateOrders
    <3> QED
      BY <3>1, <3>2, RowUpdated
  <2>4. ASSUME NEW k \in DOMAIN d.orders, k # key
        PROVE  t.orders[k] = d.orders[k]
    <3>1. k[2] # e.orderId
      BY <1>1, <2>4 DEF OnlyOf
    <3> QED
      BY <2>1, <3>1 DEF UpdateOrders
  <2>5. DOMAIN t.orders = DOMAIN d.orders
    BY <2>1 DEF UpdateOrders
  <2> QED
    BY <1>1, <2>2, <2>3, <2>4, <2>5 DEF RowPut
<1> QED
  BY <1>2, <1>3

\* One message later, the rows are the orders still.
LEMMA RowsFollow ==
    ASSUME NEW d, NEW ords, RowsAre(d, ords), NEW m \in DOMAIN ords, OnlyOf(d, m),
           NEW e, e.market = m, e.orderId \in Nat \ {0}, e.resd \in Nat,
           e.state # "New" => Knows(d, m, e.orderId, e),
           NEW msg, msg = [type |-> "CreateExec", exec |-> e]
    PROVE  /\ RowsAre(Written(d, msg), Applied(ords, msg))
           /\ OnlyOf(Written(d, msg), m)
           /\ RowPut(d, Written(d, msg), <<m, e.orderId>>, OrderIn(e))
           /\ DOMAIN Applied(ords, msg) = DOMAIN ords
<1>1. PICK t, key, id : t = InsertExec(d, e) /\ key = <<m, id>> /\ id = e.orderId
  OBVIOUS
<1>2. Written(d, msg) = t
  BY <1>1 DEF Written
<1>3. /\ DOMAIN t.orders = DOMAIN d.orders \union {key}
      /\ t.orders[key] = OrderIn(e)
      /\ \A k \in DOMAIN d.orders : k # key => t.orders[k] = d.orders[k]
  <2>1. \A k \in DOMAIN d.orders : IsOrderRow(d.orders[k])
    BY DEF RowsAre
  <2>2. RowPut(d, t, key, OrderIn(e))
    BY <1>1, <2>1, RowsWritten
  <2> QED
    BY <2>2 DEF RowPut
<1>4. IsOrderRow(OrderIn(e)) /\ OrderIn(e).resd = e.resd
  BY DEF IsOrderRow, OrderIn
<1>5. PICK os : os = Told(ords[m], id, OrderIn(e))
  OBVIOUS
<1>6. Applied(ords, msg) = [ords EXCEPT ![m] = os]
  BY <1>1, <1>4, <1>5 DEF Applied, Told, Done
<1>7. PICK new : new = [ords EXCEPT ![m] = os]
  OBVIOUS
<1>8. DOMAIN new = DOMAIN ords /\ new[m] = os /\ \A x \in DOMAIN ords : x # m => new[x] = ords[x]
  BY <1>7
<1>9. /\ e.resd = 0 => DOMAIN os = DOMAIN ords[m] \ {id}
      /\ e.resd # 0 => DOMAIN os = DOMAIN ords[m] \union {id} /\ os[id] = OrderIn(e)
      /\ \A x \in DOMAIN os : x # id => x \in DOMAIN ords[m] /\ os[x] = ords[m][x]
  <2>1. CASE e.resd = 0
    BY <1>4, <1>5, <2>1 DEF Told, Done, Drop
  <2>2. CASE e.resd # 0
    BY <1>4, <1>5, <2>2 DEF Told, Done, Put
  <2> QED
    BY <2>1, <2>2
<1>10. \A k \in DOMAIN t.orders : IsOrderRow(t.orders[k])
  BY <1>3, <1>4 DEF RowsAre
<1>11. /\ key \in LiveRows(t) <=> e.resd # 0
       /\ \A k : k # key => (k \in LiveRows(t) <=> k \in LiveRows(d))
  <2>1. key \in LiveRows(t) <=> e.resd # 0
    BY <1>3, <1>4 DEF LiveRows
  <2>2. \A k : k # key => (k \in LiveRows(t) <=> k \in LiveRows(d))
    BY <1>3 DEF LiveRows
  <2> QED
    BY <2>1, <2>2
<1>12. ASSUME NEW x \in DOMAIN new, NEW y \in DOMAIN new[x]
       PROVE  <<x, y>> \in LiveRows(t) /\ t.orders[<<x, y>>] = new[x][y]
  <2>1. CASE <<x, y>> = key
    <3>1. x = m /\ y = id /\ y \in DOMAIN os
      BY <1>1, <1>8, <1>12, <2>1
    <3>2. e.resd # 0 /\ os[id] = OrderIn(e)
      BY <1>9, <3>1
    <3> QED
      BY <1>3, <1>8, <1>11, <2>1, <3>1, <3>2
  <2>2. CASE <<x, y>> # key
    <3>1. x \in DOMAIN ords /\ y \in DOMAIN ords[x] /\ new[x][y] = ords[x][y]
      <4>1. CASE x = m
        <5>1. y # id
          BY <1>1, <2>2, <4>1
        <5> QED
          BY <1>8, <1>9, <1>12, <4>1, <5>1
      <4>2. CASE x # m
        BY <1>8, <1>12, <4>2
      <4> QED
        BY <4>1, <4>2
    <3>2. <<x, y>> \in LiveRows(d) /\ d.orders[<<x, y>>] = ords[x][y]
      BY <3>1 DEF RowsAre
    <3>3. <<x, y>> \in DOMAIN d.orders
      BY <3>2 DEF LiveRows
    <3> QED
      BY <1>3, <1>11, <2>2, <3>1, <3>2, <3>3
  <2> QED
    BY <2>1, <2>2
<1>13. ASSUME NEW k \in LiveRows(t)
       PROVE  k[1] \in DOMAIN new /\ k[2] \in DOMAIN new[k[1]]
  <2>1. CASE k = key
    <3>1. k[1] = m /\ k[2] = id
      BY <1>1, <2>1
    <3>2. id \in DOMAIN os
      BY <1>9, <1>11, <2>1
    <3> QED
      BY <1>8, <3>1, <3>2
  <2>2. CASE k # key
    <3>1. k \in LiveRows(d) /\ k[1] \in DOMAIN ords /\ k[2] \in DOMAIN ords[k[1]]
      BY <1>11, <2>2 DEF RowsAre
    <3>2. k[1] = m /\ k[2] # id
      <4>1. k \in DOMAIN d.orders
        BY <3>1 DEF LiveRows
      <4> QED
        BY <1>1, <2>2, <4>1 DEF OnlyOf
    <3>3. k[2] \in DOMAIN os
      <4>1. \A x \in DOMAIN ords[m] : x # id => x \in DOMAIN os
        BY <1>9
      <4> QED
        BY <3>1, <3>2, <4>1
    <3> QED
      BY <1>8, <3>2, <3>3
  <2> QED
    BY <2>1, <2>2
<1>14. RowsAre(t, new)
  BY <1>10, <1>12, <1>13 DEF RowsAre
<1>15. OnlyOf(t, m)
  BY <1>1, <1>3 DEF OnlyOf
<1>16. RowPut(d, t, <<m, e.orderId>>, OrderIn(e))
  BY <1>1, <1>3 DEF RowPut
<1> QED
  BY <1>2, <1>6, <1>7, <1>8, <1>14, <1>15, <1>16

\* What is known of an order stays known.
LEMMA KnownStays ==
    ASSUME NEW d, NEW t, NEW m, NEW e, RowPut(d, t, <<m, e.orderId>>, OrderIn(e)),
           NEW id, NEW r, Knows(d, m, id, r),
           e.orderId = id => Knows(d, m, id, e)
    PROVE  Knows(t, m, id, r)
<1>1. OrderIn(e).accnt = e.accnt /\ Alike(OrderIn(e), e)
  BY DEF OrderIn, Alike
<1>2. CASE e.orderId = id
  <2>1. PICK x, y : x = d.orders[<<m, id>>] /\ y = t.orders[<<m, id>>] /\ y = OrderIn(e)
    BY <1>2 DEF RowPut
  <2>2. Alike(x, r) /\ Alike(x, e) /\ Alike(y, e)
    BY <1>1, <1>2, <2>1 DEF Knows
  <2>3. Alike(y, r)
    BY <2>2 DEF Alike
  <2> QED
    BY <1>2, <2>1, <2>3 DEF Knows, RowPut
<1>3. CASE e.orderId # id
  <2>1. <<m, id>> # <<m, e.orderId>>
    BY <1>3
  <2> QED
    BY <2>1 DEF Knows, RowPut
<1> QED
  BY <1>2, <1>3

-----------------------------------------------------------------------------
(* Writing the execs of an operation. *)

\* The messages are the execs of a batch.
AreExecs(msgs, batch, n) ==
    \A k \in 1..n : msgs[k] = [type |-> "CreateExec", exec |-> batch[k]]

\* The ids of a market that has given out k more.
Later(last, m, k) == [last EXCEPT ![m] = @ + k]

\* Execs with the next ids of their market are accepted one by one.
LEMMA BatchWritten ==
    ASSUME NEW d, NEW last, TablesWithin(d, last), NEW m \in DOMAIN last,
           NEW n \in Nat, NEW batch, \A k \in 1..n : IsNext(batch[k], m, last[m] + k),
           NEW msgs, AreExecs(msgs, batch, n),
           NEW f, WrittenBy(f, n, d, msgs)
    PROVE  /\ AllAccepted(f, n, msgs)
           /\ TablesWithin(f[n], Later(last, m, n))
           /\ SameStates(d, f[n])
<1>1. PICK c \in Nat : c = last[m]
  BY DEF TablesWithin
<1> DEFINE Good == {k \in Nat : k =< n => /\ TablesWithin(f[k], Later(last, m, k))
                                          /\ SameStates(d, f[k])}
<1>3. ASSUME NEW k \in 0..n
      PROVE  /\ DOMAIN Later(last, m, k) = DOMAIN last
             /\ Later(last, m, k)[m] = c + k
             /\ \A x \in DOMAIN last : x # m => Later(last, m, k)[x] = last[x]
  BY <1>1 DEF Later
<1>4. 0 \in Good
  <2>1. PICK now : now = Later(last, m, 0)
    OBVIOUS
  <2>2. DOMAIN now = DOMAIN last /\ \A x \in DOMAIN last : now[x] = last[x]
    <3>1. c + 0 = c /\ 0 \in 0..n
      BY <1>1
    <3> QED
      BY <1>1, <1>3, <2>1, <3>1
  <2>3. TablesWithin(d, now)
    <3>1. ASSUME NEW r, ExecRowIn(r, last)
          PROVE  ExecRowIn(r, now)
      BY <2>2, <3>1 DEF ExecRowIn
    <3>2. ASSUME NEW k, OrderKeyIn(k, last)
          PROVE  OrderKeyIn(k, now)
      BY <2>2, <3>2 DEF OrderKeyIn
    <3> QED
      BY <2>2, <3>1, <3>2 DEF TablesWithin
  <2>4. SameStates(d, d)
    BY DEF SameStates
  <2> QED
    BY <2>1, <2>3, <2>4 DEF WrittenBy
<1>5. ASSUME NEW k \in 1..n, TablesWithin(f[k - 1], Later(last, m, k - 1))
      PROVE  /\ Accepted(f[k - 1], msgs[k])
             /\ TablesWithin(f[k], Later(last, m, k))
             /\ SameStates(f[k - 1], f[k])
  <2>1. PICK now, t, e : now = Later(last, m, k - 1) /\ t = f[k - 1] /\ e = batch[k]
    OBVIOUS
  <2>2. /\ DOMAIN now = DOMAIN last /\ now[m] = c + (k - 1)
        /\ (c + (k - 1)) + 1 = c + k
    <3>1. k - 1 \in 0..n /\ (c + (k - 1)) + 1 = c + k
      BY <1>1
    <3> QED
      BY <1>3, <2>1, <3>1
  <2>3. IsNext(e, m, now[m] + 1)
    BY <1>1, <2>1, <2>2
  <2>4. msgs[k] = [type |-> "CreateExec", exec |-> e] /\ f[k] = Written(t, msgs[k])
    BY <2>1 DEF AreExecs, WrittenBy
  <2>5. TablesWithin(t, now)
    BY <1>5, <2>1
  <2>6. /\ Accepted(t, msgs[k])
        /\ TablesWithin(f[k], More(now, m))
        /\ SameStates(t, f[k])
    BY <2>2, <2>3, <2>4, <2>5, ExecWritten
  <2>7. More(now, m) = Later(last, m, k)
    <3>1. k - 1 \in Nat /\ k \in Nat
      OBVIOUS
    <3>2. More(now, m) = [last EXCEPT ![m] = c + k]
      BY <1>1, <2>1, <2>2 DEF More, Later
    <3> QED
      BY <1>1, <3>1, <3>2 DEF Later
  <2> QED
    BY <2>1, <2>6, <2>7
<1>6. ASSUME NEW k \in Nat, k < n, k \in Good
      PROVE  k + 1 \in Good
  <2>1. PICK j \in 1..n : j = k + 1 /\ j - 1 = k /\ j \in Nat
    BY <1>6
  <2>2. TablesWithin(f[k], Later(last, m, k)) /\ SameStates(d, f[k])
    BY <1>6
  <2>3. TablesWithin(f[j], Later(last, m, j)) /\ SameStates(f[k], f[j])
    BY <1>5, <2>1, <2>2
  <2>4. DOMAIN d.markets = DOMAIN f[k].markets
    <3>1. k \in 0..n
      BY <1>6
    <3> QED
      BY <1>3, <2>2, <3>1 DEF TablesWithin
  <2>5. SameStates(d, f[j])
    BY <2>2, <2>3, <2>4 DEF SameStates
  <2> QED
    BY <2>1, <2>3, <2>5
<1> HIDE DEF Good
<1>7. \A k \in 0..n : k \in Good
  BY <1>4, <1>6, NumberInduction
<1>8. AllAccepted(f, n, msgs)
  <2>1. ASSUME NEW k \in 1..n
        PROVE  Accepted(f[k - 1], msgs[k])
    <3>1. k - 1 \in 0..n /\ k - 1 \in Nat
      OBVIOUS
    <3>2. TablesWithin(f[k - 1], Later(last, m, k - 1))
      BY <1>7, <3>1 DEF Good
    <3> QED
      BY <1>5, <3>2
  <2> QED
    BY <2>1 DEF AllAccepted
<1> QED
  <2>1. n \in Good
    BY <1>7
  <2> QED
    BY <1>8, <2>1 DEF Good

\* What an exec must be for the rows to follow it: of a new order, or of one
\* that is live or that the first exec of the batch told.
ExecFits(batch, k, os) ==
    /\ batch[k].orderId \in Nat \ {0} /\ batch[k].resd \in Nat
    /\ IF batch[k].state = "New" THEN k = 1 /\ batch[k].orderId \notin DOMAIN os
       ELSE \/ batch[k].orderId \in DOMAIN os /\ Alike(os[batch[k].orderId], batch[k])
            \/ k # 1 /\ batch[k].orderId = batch[1].orderId /\ Alike(batch[1], batch[k])

\* The rows know the orders "os" of the market, and the first k execs.
Known(d, m, os, batch, k) ==
    /\ OnlyOf(d, m)
    /\ \A id \in DOMAIN os : Knows(d, m, id, os[id])
    /\ k # 0 => Knows(d, m, batch[1].orderId, batch[1])

\* One exec later.
LEMMA KnownLater ==
    ASSUME NEW d, NEW ords, RowsAre(d, ords), NEW m \in DOMAIN ords, NEW os,
           NEW batch, NEW k \in Nat \ {0}, ExecFits(batch, k, os), batch[k].market = m,
           Known(d, m, os, batch, k - 1),
           NEW msg, msg = [type |-> "CreateExec", exec |-> batch[k]]
    PROVE  /\ RowsAre(Written(d, msg), Applied(ords, msg))
           /\ DOMAIN Applied(ords, msg) = DOMAIN ords
           /\ Known(Written(d, msg), m, os, batch, k)
<1>1. PICK e, oid, t : e = batch[k] /\ oid = e.orderId /\ t = Written(d, msg)
  OBVIOUS
<1>2. ASSUME NEW x, NEW y, Alike(x, y), NEW id, Knows(d, m, id, x)
      PROVE  Knows(d, m, id, y)
  BY <1>2 DEF Knows, Alike
<1>3. e.state # "New" => Knows(d, m, oid, e)
  <2> SUFFICES ASSUME e.state # "New" PROVE Knows(d, m, oid, e)
    OBVIOUS
  <2>1. CASE oid \in DOMAIN os /\ Alike(os[oid], e)
    BY <1>2, <2>1 DEF Known
  <2>2. CASE k # 1 /\ oid = batch[1].orderId /\ Alike(batch[1], e)
    <3>1. k - 1 # 0
      BY <2>2
    <3> QED
      BY <1>2, <2>2, <3>1 DEF Known
  <2> QED
    BY <1>1, <2>1, <2>2 DEF ExecFits
<1>4. OnlyOf(d, m) /\ e.market = m /\ oid \in Nat \ {0} /\ e.resd \in Nat
      /\ msg = [type |-> "CreateExec", exec |-> e]
  BY <1>1 DEF Known, ExecFits
<1>5. /\ RowsAre(t, Applied(ords, msg)) /\ OnlyOf(t, m)
      /\ RowPut(d, t, <<m, oid>>, OrderIn(e))
      /\ DOMAIN Applied(ords, msg) = DOMAIN ords
  BY <1>1, <1>3, <1>4, RowsFollow
<1>6. ASSUME NEW id \in DOMAIN os
      PROVE  Knows(t, m, id, os[id])
  <2>1. Knows(d, m, id, os[id])
    BY DEF Known
  <2>2. oid = id => e.state # "New"
    BY <1>1 DEF ExecFits
  <2> QED
    BY <1>1, <1>3, <1>5, <2>1, <2>2, KnownStays
<1>7. Knows(t, m, batch[1].orderId, batch[1])
  <2>1. CASE k = 1
    BY <1>1, <1>5, <2>1 DEF RowPut, Knows, Alike, OrderIn
  <2>2. CASE k # 1
    <3>1. Knows(d, m, batch[1].orderId, batch[1])
      <4>1. k - 1 # 0
        BY <2>2
      <4> QED
        BY <4>1 DEF Known
    <3>2. e.state # "New"
      BY <1>1, <2>2 DEF ExecFits
    <3> QED
      BY <1>1, <1>3, <1>5, <3>1, <3>2, KnownStays
  <2> QED
    BY <2>1, <2>2
<1> QED
  BY <1>1, <1>5, <1>6, <1>7 DEF Known

\* Once the execs of a batch are written, the rows are what they make of the
\* orders.
LEMMA BatchFollowed ==
    ASSUME NEW d, NEW ords, RowsAre(d, ords), NEW m \in DOMAIN ords, OnlyOf(d, m),
           NEW n \in Nat, NEW batch,
           \A k \in 1..n : batch[k].market = m /\ ExecFits(batch, k, ords[m]),
           NEW msgs, AreExecs(msgs, batch, n), Len(msgs) = n,
           NEW f, WrittenBy(f, n, d, msgs)
    PROVE  RowsAre(f[n], Replayed(ords, msgs))
<1>1. PICK os : os = ords[m]
  OBVIOUS
<1>2. PICK g : ReplaysBy(g, ords, msgs)
  BY ReplaySteps
<1> DEFINE Good == {k \in Nat : k =< n => /\ RowsAre(f[k], g[k])
                                          /\ DOMAIN g[k] = DOMAIN ords
                                          /\ Known(f[k], m, os, batch, k)}
<1>3. 0 \in Good
  <2>1. \A id \in DOMAIN os : Knows(d, m, id, os[id])
    BY <1>1 DEF RowsAre, LiveRows, Knows, Alike
  <2>2. Known(d, m, os, batch, 0)
    BY <2>1 DEF Known
  <2>3. f[0] = d /\ g[0] = ords
    BY <1>2 DEF WrittenBy, ReplaysBy
  <2> QED
    BY <2>2, <2>3
<1>4. ASSUME NEW k \in Nat, k < n, k \in Good
      PROVE  k + 1 \in Good
  <2>1. PICK j \in 1..n : j = k + 1 /\ j - 1 = k /\ j \in Nat \ {0}
    BY <1>4
  <2>2. RowsAre(f[k], g[k]) /\ m \in DOMAIN g[k] /\ DOMAIN g[k] = DOMAIN ords
        /\ Known(f[k], m, os, batch, j - 1)
    BY <1>4, <2>1
  <2>3. PICK msg : msg = msgs[j] /\ msg = [type |-> "CreateExec", exec |-> batch[j]]
    BY <2>1 DEF AreExecs
  <2>4. f[j] = Written(f[k], msg) /\ g[j] = Applied(g[k], msg)
    BY <1>2, <2>1, <2>3 DEF WrittenBy, ReplaysBy
  <2>5. ExecFits(batch, j, os) /\ batch[j].market = m
    BY <1>1, <2>1
  <2>6. /\ RowsAre(Written(f[k], msg), Applied(g[k], msg))
        /\ DOMAIN Applied(g[k], msg) = DOMAIN g[k]
        /\ Known(Written(f[k], msg), m, os, batch, j)
    BY <2>1, <2>2, <2>3, <2>5, KnownLater
  <2> QED
    BY <2>1, <2>2, <2>4, <2>6
<1> HIDE DEF Good
<1>5. \A k \in 0..n : k \in Good
  BY <1>3, <1>4, NumberInduction
<1>6. n \in Good
  BY <1>5
<1> QED
  BY <1>2, <1>6 DEF Good, ReplaysBy

-----------------------------------------------------------------------------
(* What the process would load. *)

\* The greatest of some bounded numbers is no greater than the bound.
LEMMA GreatestWithin ==
    ASSUME NEW S, 0 \in S, NEW c \in Nat, \A x \in S : x \in Nat /\ x =< c
    PROVE  Max(S) \in S /\ Max(S) =< c
<1>1. PICK T : T = {c - x : x \in S}
  OBVIOUS
<1>2. T \subseteq Nat /\ T # {}
  BY <1>1
<1>3. PICK y \in T : \A z \in T : y =< z
  BY <1>2, LeastNumber
<1>4. PICK x \in S : y = c - x
  BY <1>1, <1>3
<1>5. ASSUME NEW z \in S
      PROVE  x >= z
  <2>1. c - z \in T
    BY <1>1
  <2>2. c - x =< c - z
    BY <1>3, <1>4, <2>1
  <2> QED
    BY <2>2
<1>6. Max(S) \in S
  BY <1>5 DEF Max
<1> QED
  BY <1>6

\* Ids go on above all that is in the tables.
LEMMA LoadedMaxIs ==
    ASSUME NEW d, NEW last, TablesWithin(d, last), NEW m \in DOMAIN last
    PROVE  LoadedMaxId(d, m) =< last[m]
<1>1. PICK S : S = {0} \union {row.id : row \in {r \in ToSet(d.execs) : r.market = m}}
  OBVIOUS
<1>2. PICK c \in Nat : c = last[m]
  BY DEF TablesWithin
<1>3. ASSUME NEW x \in S
      PROVE  x \in Nat /\ x =< c
  <2>1. CASE x = 0
    BY <2>1
  <2>2. CASE x # 0
    <3>1. PICK r \in ToSet(d.execs) : r.market = m /\ x = r.id
      BY <1>1, <2>2
    <3>2. PICK i \in DOMAIN d.execs : r = d.execs[i]
      BY <3>1 DEF ToSet
    <3>3. ExecRowIn(r, last)
      BY <3>2 DEF TablesWithin
    <3> QED
      BY <1>2, <3>1, <3>3 DEF ExecRowIn
  <2> QED
    BY <2>1, <2>2
<1>4. Max(S) =< c
  BY <1>1, <1>3, GreatestWithin
<1> QED
  BY <1>1, <1>2, <1>4 DEF LoadedMaxId

\* The orders that are loaded.
LEMMA LoadedAre ==
    ASSUME NEW d, NEW last, TablesWithin(d, last),
           NEW ords, DOMAIN ords = DOMAIN last, RowsAre(d, ords),
           ords = [m \in DOMAIN ords |-> [id \in DOMAIN ords[m] |-> ords[m][id]]]
    PROVE  LoadedOrders(d) = ords
<1>1. ASSUME NEW m \in DOMAIN ords
      PROVE  [id \in {k[2] : k \in {j \in LiveRows(d) : j[1] = m}} |-> d.orders[<<m, id>>]]
                = ords[m]
  <2>1. PICK ids : ids = {k[2] : k \in {j \in LiveRows(d) : j[1] = m}}
    OBVIOUS
  <2>2. ids = DOMAIN ords[m]
    <3>1. \A id \in DOMAIN ords[m] : <<m, id>> \in LiveRows(d) /\ <<m, id>>[1] = m
                                     /\ <<m, id>>[2] = id
      BY DEF RowsAre
    <3>2. \A id \in DOMAIN ords[m] : id \in ids
      BY <2>1, <3>1
    <3>3. \A id \in ids : id \in DOMAIN ords[m]
      BY <2>1 DEF RowsAre
    <3> QED
      BY <3>2, <3>3
  <2>3. \A id \in DOMAIN ords[m] : d.orders[<<m, id>>] = ords[m][id]
    BY DEF RowsAre
  <2>4. ords[m] = [id \in DOMAIN ords[m] |-> ords[m][id]]
    OBVIOUS
  <2>5. [id \in ids |-> d.orders[<<m, id>>]] = ords[m]
    BY <2>2, <2>3, <2>4
  <2> QED
    BY <2>1, <2>5
<1>2. DOMAIN d.markets = DOMAIN ords
  BY DEF TablesWithin
<1>3. ords = [m \in DOMAIN ords |-> ords[m]]
  OBVIOUS
<1>4. LoadedOrders(d) = [m \in DOMAIN ords |->
        [id \in {k[2] : k \in {j \in LiveRows(d) : j[1] = m}} |-> d.orders[<<m, id>>]]]
  BY <1>2 DEF LoadedOrders
<1> QED
  BY <1>1, <1>3, <1>4

-----------------------------------------------------------------------------
(* What a step makes of the tables once its messages are written. *)

LastIds(ms) == [m \in DOMAIN ms |-> ms[m].maxId]

StatesAre(d, ms) == \A m \in DOMAIN ms : d.markets[m].state = ms[m].state

\* The tables know the markets, and no id that is not given out.
Tracks(d, ms) == TablesWithin(d, LastIds(ms)) /\ StatesAre(d, ms)

\* Every step is an operation on markets, or posts execs or archives.
LEMMA StepMessages ==
    ASSUME EngineInv, Next
    PROVE  /\ IsList(out')
           /\ MarketOps \/ TakesSome
           /\ \/ MarketOps
              \/ \A k \in 1..Len(out') : out'[k].type = "ArchiveTrade"
              \/ \E m, batch, n : PostsNext(m, batch, n)
<1>1. CASE PostsNoExec
  <2>1. IsList(out')
    BY <1>1 DEF PostsNoExec, IsList
  <2>2. MarketOps \/ \A k \in 1..Len(out') : out'[k].type = "ArchiveTrade"
    BY <1>1 DEF PostsNoExec
  <2> QED
    BY <2>1, <2>2, MarketSteps
<1>2. ASSUME NEW m, NEW batch, NEW n, PostsNext(m, batch, n)
      PROVE  IsList(out')
  <2>1. PICK c \in Nat : c = Len(batch)
    BY <1>2 DEF PostsNext
  <2>2. n \in 0..c /\ out' = [k \in 1..n |-> out'[k]]
    BY <1>2, <2>1 DEF PostsNext, PostsFirst
  <2>3. Len(out') = n
    BY <2>2
  <2> QED
    BY <2>2, <2>3 DEF IsList
<1> QED
  BY <1>1, <1>2, MarketSteps, StepPosts DEF PostsExecs

\* Ids that markets take later leave the tables within them.
LEMMA StillWithin ==
    ASSUME NEW d, NEW last, TablesWithin(d, last), NEW next,
           DOMAIN next = DOMAIN last,
           \A m \in DOMAIN last : next[m] \in Nat /\ last[m] =< next[m]
    PROVE  TablesWithin(d, next)
<1>1. \A m \in DOMAIN last : last[m] \in Nat
  BY DEF TablesWithin
<1>2. ASSUME NEW row, ExecRowIn(row, last)
      PROVE  ExecRowIn(row, next)
  <2>1. PICK m \in DOMAIN last, id \in Nat : m = row.market /\ id = row.id /\ id =< last[m]
    BY <1>2 DEF ExecRowIn
  <2>2. id =< next[m]
    BY <1>1, <2>1
  <2> QED
    BY <1>2, <2>1, <2>2 DEF ExecRowIn
<1>3. ASSUME NEW k, OrderKeyIn(k, last)
      PROVE  OrderKeyIn(k, next)
  <2>1. PICK m \in DOMAIN last, id \in Nat : k = <<m, id>> /\ id =< last[m]
    BY <1>3 DEF OrderKeyIn
  <2>2. id =< next[m]
    BY <1>1, <2>1
  <2> QED
    BY <2>1, <2>2 DEF OrderKeyIn
<1> QED
  BY <1>2, <1>3 DEF TablesWithin

\* A market that takes ids keeps its state.
LEMMA TakesKeep ==
    ASSUME EngineInv, TakesSome
    PROVE  /\ DOMAIN markets' = DOMAIN markets
           /\ \A m \in DOMAIN markets : markets'[m].state = markets[m].state
<1>1. PICK m, n : n \in Nat /\ (UNCHANGED markets \/ TakesIds(m, n) \/ RecordsTrade(m, n))
  BY DEF TakesSome
<1>2. CASE UNCHANGED markets
  BY <1>2
<1>3. \A x \in DOMAIN markets : markets[x] \in Market
  BY TheMarket DEF EngineInv
<1>4. CASE TakesIds(m, n)
  BY <1>3, <1>4 DEF TakesIds, Market
<1>5. ASSUME NEW lots, NEW ticks, markets' = [markets EXCEPT
                ![m].maxId = @ + n, ![m].lastLots = lots, ![m].lastTicks = ticks]
      PROVE  /\ DOMAIN markets' = DOMAIN markets
             /\ \A x \in DOMAIN markets : markets'[x].state = markets[x].state
  BY <1>3, <1>5 DEF Market
<1> QED
  BY <1>1, <1>2, <1>4, <1>5 DEF RecordsTrade

\* Tables that are within what the markets had given out, and k more of one of
\* them, are within what they have given out after the step.
LEMMA TracksLater ==
    ASSUME EngineInv, Next, TakesSome, NEW d, NEW t, Tracks(d, markets),
           SameStates(d, t),
           \/ TablesWithin(t, LastIds(markets))
           \/ \E m \in DOMAIN markets : \E k \in Nat :
                /\ TablesWithin(t, Later(LastIds(markets), m, k))
                /\ markets[m].maxId + k =< markets'[m].maxId
    PROVE  Tracks(t, markets')
<1>1. PICK last, next : last = LastIds(markets) /\ next = LastIds(markets')
  OBVIOUS
<1>2. /\ DOMAIN markets' = DOMAIN markets
      /\ \A m \in DOMAIN markets : markets'[m].state = markets[m].state
  BY TakesKeep
<1>3. /\ DOMAIN last = DOMAIN markets /\ DOMAIN next = DOMAIN markets
      /\ \A m \in DOMAIN markets : last[m] = markets[m].maxId /\ next[m] = markets'[m].maxId
  BY <1>1, <1>2 DEF LastIds
<1>4. \A m \in DOMAIN markets : last[m] \in Nat /\ next[m] \in Nat /\ last[m] =< next[m]
  BY <1>3, MarketsGrow DEF Grows
<1>5. TablesWithin(t, next)
  <2>1. CASE TablesWithin(t, last)
    BY <1>3, <1>4, <2>1, StillWithin
  <2>2. ASSUME NEW m \in DOMAIN markets, NEW k \in Nat, TablesWithin(t, Later(last, m, k)),
               last[m] + k =< next[m]
        PROVE  TablesWithin(t, next)
    <3>1. PICK mid : mid = Later(last, m, k)
      OBVIOUS
    <3>2. /\ DOMAIN mid = DOMAIN markets
          /\ \A x \in DOMAIN markets : mid[x] = IF x = m THEN last[m] + k ELSE last[x]
      BY <1>3, <3>1 DEF Later
    <3>3. \A x \in DOMAIN mid : next[x] \in Nat /\ mid[x] =< next[x]
      BY <1>4, <2>2, <3>2
    <3> QED
      BY <1>3, <2>2, <3>1, <3>2, <3>3, StillWithin
  <2> QED
    BY <1>1, <1>3, <2>1, <2>2
<1>6. StatesAre(t, markets')
  <2>1. DOMAIN d.markets = DOMAIN markets
    BY <1>1, <1>3 DEF Tracks, TablesWithin
  <2> QED
    BY <1>2, <2>1 DEF StatesAre, SameStates, Tracks
<1> QED
  BY <1>1, <1>5, <1>6 DEF Tracks

\* Messages that archive trades.
LEMMA ArchivesWritten ==
    ASSUME NEW d, NEW last, TablesWithin(d, last), NEW n \in Nat, NEW msgs,
           \A k \in 1..n : msgs[k].type = "ArchiveTrade",
           NEW f, WrittenBy(f, n, d, msgs)
    PROVE  /\ AllAccepted(f, n, msgs)
           /\ TablesWithin(f[n], last) /\ SameStates(d, f[n]) /\ f[n].orders = d.orders
<1> DEFINE Good == {k \in Nat : k =< n => /\ TablesWithin(f[k], last)
                                          /\ SameStates(d, f[k])
                                          /\ f[k].orders = d.orders}
<1>1. 0 \in Good
  BY DEF WrittenBy, SameStates
<1>2. ASSUME NEW k \in 1..n, TablesWithin(f[k - 1], last)
      PROVE  /\ Accepted(f[k - 1], msgs[k])
             /\ TablesWithin(f[k], last)
             /\ SameStates(f[k - 1], f[k])
             /\ f[k].orders = f[k - 1].orders
  <2>1. PICK t, msg : t = f[k - 1] /\ msg = msgs[k] /\ msg.type = "ArchiveTrade"
                      /\ f[k] = Written(t, msg)
    BY DEF WrittenBy
  <2> QED
    BY <1>2, <2>1, ArchiveWritten
<1>3. ASSUME NEW i \in Nat, i < n, i \in Good
      PROVE  i + 1 \in Good
  <2>1. PICK j \in 1..n : j = i + 1 /\ j - 1 = i /\ j \in Nat
    BY <1>3
  <2>2. TablesWithin(f[i], last) /\ SameStates(d, f[i]) /\ f[i].orders = d.orders
    BY <1>3
  <2>3. TablesWithin(f[j], last) /\ SameStates(f[i], f[j]) /\ f[j].orders = f[i].orders
    BY <1>2, <2>1, <2>2
  <2>4. DOMAIN d.markets = DOMAIN f[i].markets
    BY <2>2 DEF TablesWithin
  <2>5. SameStates(d, f[j])
    BY <2>2, <2>3, <2>4 DEF SameStates
  <2> QED
    BY <2>1, <2>2, <2>3, <2>5
<1> HIDE DEF Good
<1>4. \A k \in 0..n : k \in Good
  BY <1>1, <1>3, NumberInduction
<1>5. AllAccepted(f, n, msgs)
  <2>1. ASSUME NEW k \in 1..n
        PROVE  Accepted(f[k - 1], msgs[k])
    <3>1. k - 1 \in 0..n /\ k - 1 \in Nat
      OBVIOUS
    <3>2. TablesWithin(f[k - 1], last)
      BY <1>4, <3>1 DEF Good
    <3> QED
      BY <1>2, <3>2
  <2> QED
    BY <2>1 DEF AllAccepted
<1>6. n \in Good
  BY <1>4
<1> QED
  BY <1>5, <1>6 DEF Good

\* What is said of the messages of a step that are written to the tables d.
StepWrites(d, f) ==
    /\ AllAccepted(f, Len(out'), out')
    /\ Tracks(f[Len(out')], markets')

\* Execs.
LEMMA ExecsTracked ==
    ASSUME EngineInv, Next, TakesSome, NEW d, Tracks(d, markets),
           NEW f, WrittenBy(f, Len(out'), d, out'), IsList(out'),
           NEW m, NEW batch, NEW n, PostsNext(m, batch, n)
    PROVE  StepWrites(d, f)
<1>1. PICK c, msgs : c = Len(out') /\ msgs = out'
  OBVIOUS
<1>2. PICK last : last = LastIds(markets)
  OBVIOUS
<1>3. c \in Nat /\ n = c
  <2>1. c \in Nat /\ DOMAIN msgs = 1..c
    BY <1>1 DEF IsList
  <2>2. n \in Nat /\ DOMAIN msgs = 1..n
    BY <1>1 DEF PostsNext, PostsFirst
  <2> QED
    BY <2>1, <2>2
<1>4. /\ m \in DOMAIN markets /\ m \in DOMAIN last /\ last[m] = markets[m].maxId
      /\ markets[m].maxId + c =< markets'[m].maxId
      /\ \A k \in 1..c : IsNext(batch[k], m, last[m] + k)
      /\ AreExecs(msgs, batch, c)
  <2>1. m \in DOMAIN markets /\ m \in DOMAIN last /\ last[m] = markets[m].maxId
    BY <1>2 DEF PostsNext, LastIds
  <2>2. c =< Len(batch) /\ Len(batch) \in Nat
    BY <1>3 DEF PostsNext, PostsFirst
  <2>3. \A k \in 1..c : IsNext(batch[k], m, last[m] + k)
    BY <1>3, <2>1, <2>2 DEF PostsNext
  <2>4. AreExecs(msgs, batch, c)
    BY <1>1, <1>3 DEF PostsNext, PostsFirst, AreExecs
  <2> QED
    BY <1>3, <2>1, <2>3, <2>4 DEF PostsNext
<1>5. TablesWithin(d, last)
  BY <1>2 DEF Tracks
<1>6. WrittenBy(f, c, d, msgs)
  BY <1>1
<1>7. /\ AllAccepted(f, c, msgs)
      /\ TablesWithin(f[c], Later(last, m, c))
      /\ SameStates(d, f[c])
  BY <1>3, <1>4, <1>5, <1>6, BatchWritten
<1>8. Tracks(f[c], markets')
  BY <1>2, <1>3, <1>4, <1>7, TracksLater
<1> QED
  BY <1>1, <1>7, <1>8 DEF StepWrites

\* Archives, or nothing.
LEMMA ArchivesTracked ==
    ASSUME EngineInv, Next, TakesSome, NEW d, Tracks(d, markets),
           NEW f, WrittenBy(f, Len(out'), d, out'), IsList(out'),
           \A k \in 1..Len(out') : out'[k].type = "ArchiveTrade"
    PROVE  StepWrites(d, f) /\ f[Len(out')].orders = d.orders
<1>1. PICK c, msgs : c \in Nat /\ c = Len(out') /\ msgs = out'
  BY DEF IsList
<1>2. TablesWithin(d, LastIds(markets)) /\ WrittenBy(f, c, d, msgs)
  BY <1>1 DEF Tracks
<1>3. \A k \in 1..c : msgs[k].type = "ArchiveTrade"
  BY <1>1
<1>4. /\ AllAccepted(f, c, msgs) /\ TablesWithin(f[c], LastIds(markets))
      /\ SameStates(d, f[c]) /\ f[c].orders = d.orders
  BY <1>1, <1>2, <1>3, ArchivesWritten
<1>5. Tracks(f[c], markets')
  BY <1>4, TracksLater
<1> QED
  BY <1>1, <1>4, <1>5 DEF StepWrites

\* One message.
LEMMA OneWritten ==
    ASSUME NEW d, NEW msg, NEW msgs, msgs = <<msg>>, NEW f, WrittenBy(f, Len(msgs), d, msgs),
           Accepted(d, msg)
    PROVE  /\ Len(msgs) = 1 /\ AllAccepted(f, Len(msgs), msgs)
           /\ f[Len(msgs)] = Written(d, msg)
<1>1. Len(msgs) = 1 /\ msgs[1] = msg /\ \A k \in 1..1 : k = 1 /\ k - 1 = 0
  OBVIOUS
<1>2. 1 \in 1..1 /\ 1 - 1 = 0
  OBVIOUS
<1>3. f[0] = d /\ f[1] = Written(d, msg)
  BY <1>1, <1>2 DEF WrittenBy
<1> QED
  BY <1>1, <1>3 DEF AllAccepted

\* Operations on markets.
LEMMA MarketsTracked ==
    ASSUME EngineInv, Next, MarketOps, NEW d, Tracks(d, markets),
           NEW f, WrittenBy(f, Len(out'), d, out'), IsList(out')
    PROVE  StepWrites(d, f) /\ f[Len(out')].orders = d.orders
<1>1. PICK last : last = LastIds(markets) /\ TablesWithin(d, last)
                  /\ DOMAIN last = DOMAIN markets
  BY DEF Tracks, LastIds
<1>2. ASSUME UNCHANGED markets, out' = <<>>
      PROVE  StepWrites(d, f) /\ f[Len(out')].orders = d.orders
  <2>1. TakesSome
    BY <1>2 DEF TakesSome
  <2>2. \A k \in 1..Len(out') : out'[k].type = "ArchiveTrade"
    BY <1>2
  <2> QED
    BY <2>1, <2>2, ArchivesTracked
<1>3. ASSUME NEW msg, QueueFails(<<msg>>)
      PROVE  out' = <<>>
  <2>1. PICK k \in 0..0 : out' = SubSeq(<<msg>>, 1, k)
    BY <1>3 DEF QueueFails
  <2> QED
    BY <2>1
<1>4. PICK m \in Markets, state \in MarketStates :
            CreateMarket(m, state) \/ (m \in DOMAIN markets /\ UpdateMarket(m, state))
  BY DEF MarketOps
<1>5. CASE CreateMarket(m, state)
  <2>1. PICK msg, new : /\ msg = [type |-> "CreateMarket", market |-> m, state |-> state]
                        /\ new = [state |-> state, maxId |-> 0, lastLots |-> 0,
                                  lastTicks |-> 0]
    OBVIOUS
  <2>2. \/ UNCHANGED markets /\ out' = <<>>
        \/ /\ m \notin DOMAIN markets /\ out' = <<msg>> /\ markets' = Put(markets, m, new)
    BY <1>3, <1>5, <2>1 DEF CreateMarket, Refuse, Post
  <2>3. ASSUME m \notin DOMAIN markets, out' = <<msg>>, markets' = Put(markets, m, new)
        PROVE  StepWrites(d, f) /\ f[Len(out')].orders = d.orders
    <3>1. m \notin DOMAIN last
      BY <1>1, <2>3
    <3>2. /\ Accepted(d, msg)
          /\ TablesWithin(Written(d, msg), Put(last, m, 0))
          /\ SameStates(d, Written(d, msg))
          /\ Written(d, msg).markets[m].state = state
          /\ Written(d, msg).orders = d.orders
      BY <1>1, <2>1, <3>1, CreateWritten
    <3>3. PICK t : t = Written(d, msg)
      OBVIOUS
    <3>4. AllAccepted(f, Len(out'), out') /\ f[Len(out')] = t
      BY <2>3, <3>2, <3>3, OneWritten
    <3>5. LastIds(markets') = Put(last, m, 0)
      BY <1>1, <2>1, <2>3 DEF LastIds, Put
    <3>6. StatesAre(t, markets')
      <4>1. /\ DOMAIN markets' = DOMAIN markets \union {m} /\ markets'[m].state = state
            /\ \A x \in DOMAIN markets : x # m /\ markets'[x] = markets[x]
        BY <2>1, <2>3 DEF Put
      <4>2. \A x \in DOMAIN markets : t.markets[x].state = markets[x].state
        BY <1>1, <3>2, <3>3 DEF SameStates, Tracks, StatesAre, TablesWithin
      <4> QED
        BY <3>2, <3>3, <4>1, <4>2 DEF StatesAre
    <3> QED
      BY <3>2, <3>3, <3>4, <3>5, <3>6 DEF StepWrites, Tracks
  <2> QED
    BY <1>2, <2>2, <2>3
<1>6. CASE m \in DOMAIN markets /\ UpdateMarket(m, state)
  <2>1. PICK msg : msg = [type |-> "UpdateMarket", market |-> m, state |-> state]
    OBVIOUS
  <2>2. \/ UNCHANGED markets /\ out' = <<>>
        \/ out' = <<msg>> /\ markets' = [markets EXCEPT ![m].state = state]
    BY <1>3, <1>6, <2>1 DEF UpdateMarket, Post
  <2>3. ASSUME out' = <<msg>>, markets' = [markets EXCEPT ![m].state = state]
        PROVE  StepWrites(d, f) /\ f[Len(out')].orders = d.orders
    <3>1. m \in DOMAIN last
      BY <1>1, <1>6
    <3>2. PICK t : t = Written(d, msg)
      OBVIOUS
    <3>3. /\ Accepted(d, msg) /\ TablesWithin(t, last) /\ t.orders = d.orders
          /\ \A x \in DOMAIN last : t.markets[x].state
                    = IF x = m THEN state ELSE d.markets[x].state
      BY <1>1, <2>1, <3>1, <3>2, UpdateWritten
    <3>4. AllAccepted(f, Len(out'), out') /\ f[Len(out')] = t
      BY <2>3, <3>2, <3>3, OneWritten
    <3>5. /\ DOMAIN markets' = DOMAIN markets
          /\ \A x \in DOMAIN markets : /\ markets'[x].maxId = markets[x].maxId
                                       /\ markets'[x].state = IF x = m THEN state
                                                              ELSE markets[x].state
      <4>1. \A x \in DOMAIN markets : markets[x] \in Market
        BY TheMarket DEF EngineInv
      <4> QED
        BY <2>3, <4>1 DEF Market
    <3>6. LastIds(markets') = last
      BY <1>1, <3>5 DEF LastIds
    <3>7. StatesAre(t, markets')
      BY <1>1, <3>3, <3>5 DEF StatesAre, Tracks
    <3> QED
      BY <3>3, <3>4, <3>6, <3>7 DEF StepWrites, Tracks
  <2> QED
    BY <1>2, <2>2, <2>3
<1> QED
  BY <1>4, <1>5, <1>6

\* The messages of any step are accepted by tables that track the markets, and
\* these track them then.
LEMMA StepTracked ==
    ASSUME EngineInv, Next, NEW d, Tracks(d, markets),
           NEW f, WrittenBy(f, Len(out'), d, out')
    PROVE  StepWrites(d, f)
BY StepMessages, ExecsTracked, ArchivesTracked, MarketsTracked

-----------------------------------------------------------------------------
(* The journal of a process that does not end. *)

\* A process and its journal, from the start of an empty database, without any
\* restart.
FirstLife == JInit /\ [][Serve \/ WriteNext \/ WriteFails]_allVars

\* What waits for the journal leads from the tables to tables that track the
\* markets.
JournalFollows ==
    /\ IsList(queue)
    /\ journalUp => \E t : Leads(db, queue, t) /\ Tracks(t, markets)

\* It follows the engine's operations.
LEMMA ServeFollows ==
    ASSUME EngineInv, JournalFollows, Serve
    PROVE  JournalFollows'
<1>1. Next /\ queue' = queue \o out' /\ db' = db /\ journalUp' = journalUp
  BY DEF Serve
<1>2. IsList(out')
  BY <1>1, StepMessages
<1>3. IsList(queue')
  BY <1>1, <1>2, ListsJoined DEF JournalFollows
<1>4. ASSUME journalUp
      PROVE  \E t : Leads(db', queue', t) /\ Tracks(t, markets')
  <2>1. PICK d : Leads(db, queue, d) /\ Tracks(d, markets)
    BY <1>4 DEF JournalFollows
  <2>2. Len(out') \in Nat
    BY <1>2 DEF IsList
  <2>3. PICK f : WrittenBy(f, Len(out'), d, out')
    BY <2>2, WrittenSteps
  <2>4. StepWrites(d, f)
    BY <1>1, <2>1, <2>3, StepTracked
  <2>5. PICK t : t = f[Len(out')]
    OBVIOUS
  <2>6. Leads(d, out', t) /\ Tracks(t, markets')
    BY <2>3, <2>4, <2>5 DEF Leads, StepWrites
  <2>7. Leads(db, queue \o out', t)
    BY <1>2, <2>1, <2>6, LeadsOn DEF JournalFollows
  <2> QED
    BY <1>1, <2>6, <2>7
<1> QED
  BY <1>1, <1>3, <1>4 DEF JournalFollows

\* And its own steps.
LEMMA JournalStepFollows ==
    ASSUME JournalFollows, WriteNext \/ WriteFails
    PROVE  JournalFollows'
<1>1. queue # <<>> /\ queue' = Tail(queue) /\ markets' = markets
  BY DEF WriteNext, WriteFails, vars
<1>2. IsList(queue')
  BY <1>1, QueueRest DEF JournalFollows
<1>3. CASE WriteFails
  BY <1>2, <1>3 DEF WriteFails, JournalFollows
<1>4. CASE WriteNext
  <2>1. journalUp /\ journalUp' = journalUp /\ db' = Written(db, Head(queue))
    BY <1>4 DEF WriteNext
  <2>2. PICK t : Leads(db, queue, t) /\ Tracks(t, markets)
    BY <2>1 DEF JournalFollows
  <2>3. Leads(db', queue', t)
    BY <1>1, <2>1, <2>2, LeadsFrom DEF JournalFollows
  <2> QED
    BY <1>1, <1>2, <2>2, <2>3 DEF JournalFollows
<1> QED
  BY <1>3, <1>4

\* The tables are empty at the start, and so are the markets.
LEMMA JournalStarts ==
    ASSUME JInit
    PROVE  JournalFollows
<1>1. queue = <<>> /\ db = EmptyDb /\ markets = <<>>
  BY DEF JInit, Init
<1>2. Leads(db, queue, db)
  BY <1>1, LeadsNowhere
<1>3. TablesWithin(db, LastIds(markets))
  <2>1. LastIds(markets) = <<>> /\ DOMAIN LastIds(markets) = {}
    BY <1>1 DEF LastIds
  <2>2. db.markets = <<>> /\ db.orders = <<>> /\ db.execs = <<>>
        /\ {"markets", "orders", "execs"} \subseteq DOMAIN db
    BY <1>1 DEF EmptyDb
  <2>3. DOMAIN db.markets = {} /\ DOMAIN db.orders = {} /\ DOMAIN db.execs = {}
    BY <2>2
  <2>4. 0 \in Nat /\ db.execs = [i \in 1..0 |-> db.execs[i]]
    BY <2>2
  <2> QED
    BY <2>1, <2>2, <2>3, <2>4 DEF TablesWithin
<1>4. Tracks(db, markets)
  BY <1>1, <1>3 DEF Tracks, StatesAre
<1>5. IsList(queue)
  BY <1>1 DEF IsList
<1> QED
  BY <1>2, <1>4, <1>5 DEF JournalFollows

\* The engine's own state is that of its specification.
LEMMA FirstLifeIs == FirstLife => Spec
<1>1. JInit => Init
  BY DEF JInit
<1>2. [Serve \/ WriteNext \/ WriteFails]_allVars => [Next]_vars
  BY DEF Serve, WriteNext, WriteFails, allVars
<1> QED
  BY <1>1, <1>2, PTL DEF FirstLife, Spec

\* The journal follows the engine, step by step, as long as the process lives.
LEMMA FirstLifeFollows == FirstLife => []JournalFollows
<1>1. EngineInv /\ JournalFollows /\ [Serve \/ WriteNext \/ WriteFails]_allVars
        => JournalFollows'
  <2> SUFFICES ASSUME EngineInv, JournalFollows,
                      [Serve \/ WriteNext \/ WriteFails]_allVars
               PROVE  JournalFollows'
    OBVIOUS
  <2>1. CASE UNCHANGED allVars
    BY <2>1 DEF allVars, journalVars, vars, JournalFollows
  <2> QED
    BY <2>1, ServeFollows, JournalStepFollows
<1> QED
  BY <1>1, JournalStarts, FirstLifeIs, InvHolds, PTL DEF FirstLife

\* The journal never meets a key that is taken while the process lives,
\* whatever fails on the way, the journal's thread included (Market::alloc_id,
\* PRIMARY KEY (market_id, id)).
THEOREM KeysStayNew == FirstLife => []KeysAreNew
<1>1. JournalFollows => KeysAreNew
  BY LeadsFrom DEF JournalFollows, KeysAreNew
<1> QED
  BY <1>1, FirstLifeFollows, PTL

-----------------------------------------------------------------------------
(* The execs of an operation tell orders that the tables know. *)

\* What an exec tells of an order.
LEMMA TellsAlike ==
    ASSUME NEW e, NEW oid, NEW new, ExecTells(e, oid, new)
    PROVE  /\ e.orderId = oid /\ e.resd = new.resd
           /\ \A order : SameOrder(order, new) => Alike(order, e)
<1>1. e.orderId = oid /\ OrderIn(e) = new
  BY DEF ExecTells
<1>2. /\ new.resd = e.resd /\ new.accnt = e.accnt /\ new.ref = e.ref
      /\ new.side = e.side /\ new.ticks = e.ticks /\ new.minLots = e.minLots
  BY <1>1 DEF OrderIn
<1>3. ASSUME NEW order, SameOrder(order, new)
      PROVE  Alike(order, e)
  BY <1>2, <1>3 DEF SameOrder, Alike
<1> QED
  BY <1>1, <1>2, <1>3

\* Two execs of one order are alike.
LEMMA TellAlike ==
    ASSUME NEW e, NEW f, NEW oid, NEW old, NEW new, ExecTells(e, oid, old),
           ExecTells(f, oid, new), SameOrder(old, new)
    PROVE  Alike(e, f)
<1>1. OrderIn(e) = old
  BY DEF ExecTells
<1>2. /\ old.accnt = e.accnt /\ old.ref = e.ref
      /\ old.side = e.side /\ old.ticks = e.ticks /\ old.minLots = e.minLots
  BY <1>1 DEF OrderIn
<1>3. Alike(old, f)
  BY TellsAlike
<1> QED
  BY <1>2, <1>3 DEF Alike

\* A new order: its first exec is that of the order, and each trade is of one of
\* its makers, which are live, or of the order itself.
LEMMA NewExecsFit ==
    ASSUME NEW b, NEW os, NEW id, NEW order, NEW ms, Arrival(b, os, id, order, ms),
           NEW batch, NEW n, NEW m, n = Len(ms), OrderBatch(batch, n, m, id, order, ms),
           BatchTells(batch, n, id, order, ms)
    PROVE  \A k \in 1..Len(batch) : ExecFits(batch, k, os)
<1>1. n \in Nat /\ Len(batch) = 2 * n + 1 /\ batch[1].state = "New"
  BY DEF OrderBatch
<1>2. id \in Nat \ {0} /\ id \notin DOMAIN os /\ GoodOrder(order) /\ order.resd \in Nat
  <2>1. id \in Nat \ {0} /\ DOMAIN os \subseteq 1..(id - 1) /\ GoodOrder(order)
    BY DEF Arrival, GoodOrders
  <2>2. order.resd \in Nat
    BY <2>1, OrderFields DEF GoodOrder
  <2> QED
    BY <2>1, <2>2
<1>3. ExecTells(batch[1], id, order)
  BY DEF BatchTells
<1>4. ExecFits(batch, 1, os)
  <2>1. batch[1].orderId = id /\ batch[1].resd = order.resd
    BY <1>3, TellsAlike
  <2> QED
    BY <1>1, <1>2, <2>1 DEF ExecFits
<1>5. ASSUME NEW i \in 1..n
      PROVE  ExecFits(batch, 2 * i, os) /\ ExecFits(batch, 2 * i + 1, os)
  <2>1. PICK e, f, x : e = batch[2 * i] /\ f = batch[2 * i + 1] /\ x = ms[i]
    OBVIOUS
  <2>2. e.state = "Trade" /\ f.state = "Trade"
    BY <2>1 DEF OrderBatch, PairIs
  <2>3. ExecTells(e, x.id, MakerThen(x)) /\ ExecTells(f, id, TakerThen(order, x))
    BY <2>1 DEF BatchTells
  <2>4. /\ x.id \in DOMAIN os /\ x.maker = os[x.id] /\ GoodOrder(os[x.id])
        /\ x.lots \in Nat /\ x.lots =< os[x.id].resd
        /\ x.lots * x.ticks \in Nat /\ x.lots * x.ticks =< x.lots * MaxTicks
    BY <2>1, MakerIs
  <2>5. /\ MakerThen(x).resd = os[x.id].resd - x.lots /\ SameOrder(os[x.id], MakerThen(x))
    BY <2>4, TradedOrder DEF MakerThen
  <2>6. ExecFits(batch, 2 * i, os)
    <3>1. x.id \in Nat \ {0}
      BY <1>2, <2>4 DEF Arrival, GoodOrders
    <3>2. os[x.id].resd \in Nat
      BY <2>4, OrderFields DEF GoodOrder
    <3>3. e.orderId = x.id /\ e.resd \in Nat
      BY <2>3, <2>4, <2>5, <3>2, TellsAlike
    <3>4. Alike(os[x.id], e)
      BY <2>3, <2>5, TellsAlike
    <3> QED
      BY <2>1, <2>2, <2>4, <3>1, <3>3, <3>4 DEF ExecFits
  <2>7. x.sumLots \in Nat /\ x.sumLots =< order.resd
        /\ x.sumCost \in Nat /\ x.sumCost =< x.sumLots * MaxTicks
    BY <2>1, SumCostBound
  <2>8. TakerThen(order, x).resd = order.resd - x.sumLots
        /\ SameOrder(order, TakerThen(order, x))
    BY <1>2, <2>7, TradedOrder DEF TakerThen
  <2>9. ExecFits(batch, 2 * i + 1, os)
    <3>1. f.orderId = id /\ f.resd \in Nat
      BY <1>2, <2>3, <2>7, <2>8, TellsAlike
    <3>2. Alike(batch[1], f) /\ batch[1].orderId = id
      BY <1>3, <2>3, <2>8, TellAlike, TellsAlike
    <3>3. 2 * i + 1 # 1
      OBVIOUS
    <3> QED
      BY <1>2, <2>1, <2>2, <3>1, <3>2, <3>3 DEF ExecFits
  <2> QED
    BY <2>6, <2>9
<1>6. ASSUME NEW k \in 1..(2 * n + 1)
      PROVE  ExecFits(batch, k, os)
  <2>1. k = 1 \/ \E i \in 1..n : k = 2 * i \/ k = 2 * i + 1
    BY <1>1, OneOfPair
  <2> QED
    BY <1>4, <1>5, <2>1
<1> QED
  BY <1>1, <1>6

\* A change: each exec is of a live order.
LEMMA ChangeExecsFit ==
    ASSUME EngineInv, NEW a, NEW m, NEW ids, NEW batch, NEW after,
           GoodChange(a, m, ids, {}, batch, after)
    PROVE  \A k \in 1..Len(ids) : ExecFits(batch, k, orders[m])
<1>1. PICK os : os = orders[m]
  OBVIOUS
<1>2. GoodOrders(os, markets[m].maxId) /\ markets[m].maxId \in Nat
  BY <1>1, TheMarket DEF GoodChange, EngineInv, GoodMarket
<1> SUFFICES ASSUME NEW k \in 1..Len(ids)
             PROVE  ExecFits(batch, k, os)
  BY <1>1
<1>3. PICK e, x, new : e = batch[k] /\ x = ids[k] /\ new = after[x]
  OBVIOUS
<1>4. /\ x \in DOMAIN os /\ ChangesTo(os[x], new) /\ ExecTells(e, x, new)
      /\ e.state \in {"Revise", "Cancel"}
  BY <1>1, <1>3 DEF GoodChange
<1>5. e.orderId = x /\ e.resd \in Nat /\ Alike(os[x], e)
  BY <1>4, TellsAlike DEF ChangesTo
<1>6. x \in Nat \ {0}
  BY <1>2, <1>4 DEF GoodOrders
<1> QED
  BY <1>3, <1>4, <1>5, <1>6 DEF ExecFits

\* Manual trades are of no order.
LEMMA NoOrderWritten ==
    ASSUME NEW d, NEW n \in Nat, NEW batch, \A k \in 1..n : batch[k].orderId = 0,
           NEW msgs, AreExecs(msgs, batch, n), NEW f, WrittenBy(f, n, d, msgs)
    PROVE  f[n].orders = d.orders
<1> DEFINE Good == {k \in Nat : k =< n => f[k].orders = d.orders}
<1>1. 0 \in Good
  BY DEF WrittenBy
<1>2. ASSUME NEW i \in Nat, i < n, i \in Good
      PROVE  i + 1 \in Good
  <2>1. PICK j \in 1..n : j = i + 1 /\ j - 1 = i
    BY <1>2
  <2>2. PICK e, msg : e = batch[j] /\ e.orderId = 0 /\ msg = msgs[j]
                      /\ msg = [type |-> "CreateExec", exec |-> e]
    BY DEF AreExecs
  <2>3. f[j] = InsertExec(f[i], e)
    <3>1. f[j] = Written(f[i], msg)
      BY <2>1, <2>2 DEF WrittenBy
    <3>2. msg.type = "CreateExec" /\ msg.exec = e
      BY <2>2
    <3> QED
      BY <3>1, <3>2 DEF Written
  <2>4. f[j].orders = f[i].orders
    BY <2>2, <2>3 DEF InsertExec
  <2> QED
    BY <1>2, <2>1, <2>4
<1> HIDE DEF Good
<1>3. \A k \in 0..n : k \in Good
  BY <1>1, <1>2, NumberInduction
<1>4. n \in Good
  BY <1>3
<1> QED
  BY <1>4 DEF Good

-----------------------------------------------------------------------------
(* The tables have the orders. *)

\* Without faults of the queue, an operation that throws has posted nothing.
LEMMA ErrorsPostNothing ==
    ASSUME EngineInv, Next, res' = "error", "queue" \notin Faults
    PROVE  out' = <<>>
<1>1. \A batch : ~QueueFails(batch)
  BY DEF QueueFails
<1>2. CASE CreateOrders
  <2>1. PICK a, m, ref, side, lots, ticks, minLots :
            CreateOrder(a, m, ref, side, lots, ticks, minLots)
    BY <1>2, Zenon DEF CreateOrders
  <2>2. PICK order : order = OrderOf(a, ref, side, lots, ticks, minLots)
    OBVIOUS
  <2>3. PICK id, ms : /\ id = markets[m].maxId + 1
                      /\ ms = Matches(order, books[m][Opposite(side)].list, orders[m])
    OBVIOUS
  <2>4. \/ Refuse
        \/ OrderBooked(a, m, side, id, order, ms)
        \/ OrderUndone(a, m, side, id, order, ms)
        \/ OrderDropped(a, m, ms)
    BY <2>1, <2>2, <2>3, CreateOrderIs
  <2>5. ~OrderBooked(a, m, side, id, order, ms) /\ ~OrderUndone(a, m, side, id, order, ms)
    BY <1>1 DEF OrderBooked, Post, OrderUndone
  <2> QED
    BY <2>4, <2>5 DEF Refuse, OrderDropped, MemoryFails
<1>3. CASE ChangeOrder
  <2>1. CASE Refuse
    BY <2>1 DEF Refuse
  <2>2. CASE IsChange
    <3>1. PICK m, ids, bad, batch, after : ChangeOrders(m, ids, bad, batch, after)
      BY <2>2 DEF IsChange
    <3>2. ~ChangeBooked(m, ids, batch, after) /\ ~ChangeAborted(m, ids, batch)
      BY DEF ChangeBooked, ChangeAborted, Post
    <3>3. ChangeFailed(m, ids, bad, batch)
      BY <3>1, <3>2, ChangeOrdersIs
    <3> QED
      BY <1>1, <3>3 DEF ChangeFailed, MemoryFails
  <2> QED
    BY <1>3, <2>1, <2>2, ChangeOrderIs
<1>4. CASE TradeOps
  <2>1. ASSUME NEW a, NEW m, NEW side, NEW lots, NEW ticks, NEW cpty,
               CreateTrade(a, m, side, lots, ticks, cpty)
        PROVE  out' = <<>>
    <3>1. PICK id : id = markets[m].maxId + 1
      OBVIOUS
    <3>2. PICK batch : batch = ManualTrades(a, m, id, side, lots, ticks, cpty)
      OBVIOUS
    <3>3. PICK newPosns : newPosns = EnsurePosns(posns, {a, cpty}, m)
      OBVIOUS
    <3>4. TradeBooked(m, batch, newPosns) \/ TradeFailed(a, m, batch, newPosns)
      BY <2>1, <3>1, <3>2, <3>3, CreateTradeIs
    <3>5. ~TradeBooked(m, batch, newPosns)
      BY DEF TradeBooked, Post
    <3> QED
      BY <1>1, <3>4, <3>5 DEF TradeFailed, MemoryFails
  <2>2. ASSUME NEW a, NEW m, NEW ids, ArchiveTrade(a, m, ids)
        PROVE  out' = <<>>
    BY <1>1, <2>2, Zenon, "error" # "ok", "error" # "abort" DEF ArchiveTrade, Refuse, Post
  <2> QED
    BY <1>4, <2>1, <2>2, Zenon DEF TradeOps
<1>5. CASE MarketOps
  BY <1>1, <1>5, Zenon, "error" # "ok" DEF MarketOps, CreateMarket, UpdateMarket, Refuse, Post
<1>6. ~NextDay
  BY DEF NextDay
<1> QED
  BY <1>2, <1>3, <1>4, <1>5, <1>6 DEF Next

\* An operation that throws leaves the orders.
LEMMA ErrorsKeepOrders ==
    ASSUME EngineInv, Next, res' = "error"
    PROVE  UNCHANGED orders
<1>1. CASE CreateOrders
  <2>1. PICK a \in Accnts, m \in DOMAIN markets, ref \in Refs \union {NoRef},
             side \in Sides, lots \in 0..MaxLots, ticks \in 1..MaxTicks,
             minLots \in MinLots :
                CreateOrder(a, m, ref, side, lots, ticks, minLots)
    BY <1>1 DEF CreateOrders
  <2> QED
    BY <2>1, CreateOrderClean DEF Clean
<1>2. ~NextDay
  BY DEF NextDay
<1> QED
  BY <1>1, <1>2, ChangeOrderClean, TradeOpsClean, MarketOpsClean DEF Next, Clean

\* Only the table of orders matters.
LEMMA RowsOnly ==
    ASSUME NEW d, NEW ords, RowsAre(d, ords), NEW t, t.orders = d.orders
    PROVE  RowsAre(t, ords)
<1>1. LiveRows(t) = LiveRows(d)
  BY DEF LiveRows
<1> QED
  BY <1>1 DEF RowsAre

\* Operations on markets and days leave the orders, or add a market without any.
LEMMA MarketOpsOrders ==
    ASSUME EngineInv, MarketOps, NEW d, RowsAre(d, orders)
    PROVE  RowsAre(d, orders')
<1>1. \/ UNCHANGED orders
      \/ \E m : m \notin DOMAIN markets /\ orders' = Put(orders, m, <<>>)
  BY DEF MarketOps, CreateMarket, UpdateMarket, Refuse
<1>2. CASE UNCHANGED orders
  BY <1>2
<1>3. ASSUME NEW m, m \notin DOMAIN markets, orders' = Put(orders, m, <<>>)
      PROVE  RowsAre(d, orders')
  <2>1. m \notin DOMAIN orders
    BY <1>3 DEF EngineInv, GoodMarkets
  <2>2. PICK t, new : t = <<>> /\ DOMAIN t = {} /\ new = orders' /\ new = Put(orders, m, t)
    BY <1>3
  <2>3. /\ DOMAIN new = DOMAIN orders \union {m} /\ new[m] = t
        /\ \A x \in DOMAIN orders : x # m /\ new[x] = orders[x]
    BY <2>1, <2>2 DEF Put
  <2>4. RowsAre(d, new)
    BY <2>2, <2>3 DEF RowsAre
  <2> QED
    BY <2>2, <2>4
<1> QED
  BY <1>1, <1>2, <1>3

\* There is one market at most: later execs update the rows of all markets that
\* have the id of their order.
AtMostOneMarket == \A m1, m2 \in Markets : m1 = m2

\* So the orders in the tables are of that one.
LEMMA RowsOfOne ==
    ASSUME AtMostOneMarket, EngineInv, NEW d, Tracks(d, markets), NEW m \in DOMAIN markets
    PROVE  OnlyOf(d, m)
<1>1. DOMAIN LastIds(markets) = DOMAIN markets /\ DOMAIN markets \subseteq Markets
  BY DEF LastIds, EngineInv, GoodMarkets
<1> SUFFICES ASSUME NEW k \in DOMAIN d.orders
             PROVE  \E id \in Nat : k = <<m, id>>
  BY DEF OnlyOf
<1>2. OrderKeyIn(k, LastIds(markets))
  BY DEF Tracks, TablesWithin
<1>3. PICK x \in DOMAIN markets, id \in Nat : k = <<x, id>>
  BY <1>1, <1>2 DEF OrderKeyIn
<1>4. x = m
  BY <1>1 DEF AtMostOneMarket
<1> QED
  BY <1>3, <1>4

\* An operation that posts the execs of a batch and succeeds.
LEMMA BatchRows ==
    ASSUME EngineInv, AtMostOneMarket, NEW d, Tracks(d, markets), RowsAre(d, orders),
           NEW f, WrittenBy(f, Len(out'), d, out'),
           NEW m \in DOMAIN markets, NEW batch, Len(batch) \in Nat,
           DOMAIN batch = 1..Len(batch), out' = ExecMsgs(batch),
           orders' = Replayed(orders, out'),
           \A k \in 1..Len(batch) : batch[k].market = m /\ ExecFits(batch, k, orders[m])
    PROVE  RowsAre(f[Len(out')], orders')
<1>1. PICK n, msgs : n \in Nat /\ n = Len(batch) /\ msgs = out'
  OBVIOUS
<1>2. msgs = [k \in 1..n |-> [type |-> "CreateExec", exec |-> batch[k]]]
  BY <1>1 DEF ExecMsgs
<1>3. Len(msgs) = n /\ AreExecs(msgs, batch, n)
  BY <1>1, <1>2 DEF AreExecs
<1>4. OnlyOf(d, m) /\ m \in DOMAIN orders
  BY RowsOfOne DEF EngineInv, GoodMarkets
<1>5. WrittenBy(f, n, d, msgs)
  BY <1>1, <1>3
<1>6. RowsAre(f[n], Replayed(orders, msgs))
  BY <1>1, <1>3, <1>4, <1>5, BatchFollowed
<1> QED
  BY <1>1, <1>3, <1>6

\* A new order.
LEMMA BookedRows ==
    ASSUME EngineInv, OrdersAreTables, AtMostOneMarket, NEW d, Tracks(d, markets), RowsAre(d, orders),
           NEW f, WrittenBy(f, Len(out'), d, out'),
           NEW m, NEW id, NEW order, NEW ms, IsBooked(m, id, order, ms)
    PROVE  RowsAre(f[Len(out')], orders')
<1>1. PICK a, ref, side, lots, ticks, minLots :
            /\ NewOrder(a, m, ref, side, lots, ticks, minLots, id, order, ms)
            /\ OrderBooked(a, m, side, id, order, ms)
  BY DEF IsBooked
<1>2. PICK batch : batch = OrderExecs(m, id, order, ms)
  OBVIOUS
<1>3. /\ OrderBatch(batch, Len(ms), m, id, order, ms) /\ id \in Nat
      /\ id - 1 = markets[m].maxId /\ m \in DOMAIN markets
  BY <1>1, <1>2, NewOrderBatch
<1>4. Arrival(books[m], orders[m], id, order, ms) /\ Len(ms) \in Nat
  BY <1>1, NewOrderArrives
<1>5. order \in Order /\ \A i \in 1..Len(ms) : ms[i].maker \in Order
  <2>1. order \in Order
    BY <1>4 DEF Arrival, GoodOrder
  <2>2. \A i \in 1..Len(ms) : ms[i].maker \in Order
    BY <1>4, MakerIs DEF GoodOrder
  <2> QED
    BY <2>1, <2>2
<1>6. BatchTells(batch, Len(ms), id, order, ms)
  BY <1>2, <1>4, <1>5, OrderExecsTell
<1>7. \A k \in 1..Len(batch) : ExecFits(batch, k, orders[m])
  BY <1>3, <1>4, <1>6, NewExecsFit
<1>8. \A k \in 1..Len(batch) : batch[k].market = m
  BY <1>3, OrderIds DEF IsNext
<1>9. Len(batch) \in Nat /\ DOMAIN batch = 1..Len(batch)
  BY <1>3 DEF OrderBatch
<1>10. out' = ExecMsgs(batch)
  BY <1>1, <1>2 DEF OrderBooked, Post
<1>11. orders' = Replayed(orders, out')
  BY BookedReplayed
<1> QED
  BY <1>3, <1>7, <1>8, <1>9, <1>10, <1>11, BatchRows

\* A change.
LEMMA ChangeRows ==
    ASSUME EngineInv, OrdersAreTables, AtMostOneMarket, NEW d, Tracks(d, markets), RowsAre(d, orders),
           NEW f, WrittenBy(f, Len(out'), d, out'), res' = "ok", IsChange
    PROVE  RowsAre(f[Len(out')], orders')
<1>1. PICK a, m, ids, batch, after :
                /\ GoodChange(a, m, ids, {}, batch, after)
                /\ ChangeBooked(m, ids, batch, after)
                /\ Len(batch) = Len(ids) /\ DOMAIN batch = 1..Len(ids)
  BY ChangeOkIs, Zenon
<1>2. m \in DOMAIN markets /\ Len(ids) \in Nat
  BY <1>1 DEF GoodChange
<1>3. \A k \in 1..Len(ids) : batch[k].market = m
  BY <1>1 DEF GoodChange, ExecIs
<1>4. \A k \in 1..Len(ids) : ExecFits(batch, k, orders[m])
  BY <1>1, ChangeExecsFit
<1>5. out' = ExecMsgs(batch)
  BY <1>1 DEF ChangeBooked, Post
<1>6. orders' = Replayed(orders, out')
  BY ChangeReplayed
<1> QED
  BY <1>1, <1>2, <1>3, <1>4, <1>5, <1>6, BatchRows

\* A manual trade.
LEMMA ManualRows ==
    ASSUME EngineInv, NEW d, RowsAre(d, orders),
           NEW f, WrittenBy(f, Len(out'), d, out'), res' = "ok", IsManual
    PROVE  RowsAre(f[Len(out')], orders')
<1>1. PICK a, m, id, side, lots, ticks, cpty, batch :
            ManualBooked(a, m, id, side, lots, ticks, cpty, batch)
  BY ManualOkIs, Zenon
<1>2. /\ batch = ManualTrades(a, m, id, side, lots, ticks, cpty)
      /\ out' = ExecMsgs(batch) /\ UNCHANGED orders
  BY <1>1 DEF ManualBooked, TradeBooked, Post
<1>3. /\ Len(batch) \in Nat /\ DOMAIN batch = 1..Len(batch)
      /\ \A k \in 1..Len(batch) : batch[k].orderId = 0
  BY <1>2, ManualTradesAre DEF ManualIs
<1>4. PICK n, msgs : n \in Nat /\ n = Len(batch) /\ msgs = out'
  BY <1>3
<1>5. msgs = [k \in 1..n |-> [type |-> "CreateExec", exec |-> batch[k]]]
  BY <1>2, <1>3, <1>4 DEF ExecMsgs
<1>6. Len(msgs) = n /\ AreExecs(msgs, batch, n)
  BY <1>4, <1>5 DEF AreExecs
<1>7. WrittenBy(f, n, d, msgs) /\ \A k \in 1..n : batch[k].orderId = 0
  BY <1>3, <1>4, <1>6
<1>8. f[n].orders = d.orders
  BY <1>4, <1>6, <1>7, NoOrderWritten
<1> QED
  BY <1>2, <1>4, <1>6, <1>8, RowsOnly

\* Any step.
LEMMA StepFollowed ==
    ASSUME EngineInv, OrdersAreTables, Next, AtMostOneMarket, "queue" \notin Faults, res' # "abort",
           NEW d, Tracks(d, markets), RowsAre(d, orders),
           NEW f, WrittenBy(f, Len(out'), d, out')
    PROVE  RowsAre(f[Len(out')], orders')
<1>1. /\ IsList(out')
      /\ MarketOps \/ TakesSome
  BY StepMessages
<1>2. CASE MarketOps
  <2>1. f[Len(out')].orders = d.orders
    BY <1>1, <1>2, MarketsTracked
  <2>2. RowsAre(d, orders')
    BY <1>2, MarketOpsOrders
  <2> QED
    BY <2>1, <2>2, RowsOnly
<1>3. CASE res' = "error"
  <2>1. out' = <<>> /\ orders' = orders
    BY <1>3, ErrorsPostNothing, ErrorsKeepOrders
  <2>2. f[Len(out')] = d
    BY <2>1 DEF WrittenBy
  <2> QED
    BY <2>1, <2>2
<1>4. ASSUME ~MarketOps, PostsNoExec, UNCHANGED orders
      PROVE  RowsAre(f[Len(out')], orders')
  <2>1. \A k \in 1..Len(out') : out'[k].type = "ArchiveTrade"
    BY <1>4 DEF PostsNoExec
  <2>2. f[Len(out')].orders = d.orders
    BY <1>1, <1>4, <2>1, ArchivesTracked
  <2> QED
    BY <1>4, <2>2, RowsOnly
<1>5. CASE Quiet /\ ~MarketOps
  <2>1. DOMAIN markets' = DOMAIN markets
    BY <1>1, <1>5, TakesKeep
  <2>2. UNCHANGED orders
    BY <1>5, <2>1 DEF Quiet
  <2> QED
    BY <1>4, <1>5, <2>2 DEF Quiet
<1>6. res' = "ok" \/ res' = "error"
  BY NextKeeps DEF EngineInv
<1>7. ASSUME NEW m, NEW id, NEW order, NEW ms, IsUndone(m, id, order, ms)
      PROVE  res' = "error"
  BY <1>7 DEF IsUndone, OrderUndone
<1> QED
  BY <1>2, <1>3, <1>5, <1>6, <1>7, StepKinds, BookedRows, ChangeRows, ManualRows

\* What waits for the journal leads to tables that have the orders, too.
OrdersFollow ==
    journalUp /\ res # "abort" =>
        \E t : Leads(db, queue, t) /\ Tracks(t, markets) /\ RowsAre(t, orders)

\* It follows the engine's operations.
LEMMA ServeKeepsOrders ==
    ASSUME AtMostOneMarket, "queue" \notin Faults, EngineInv, OrdersAreTables,
           JournalFollows, OrdersFollow, Serve
    PROVE  OrdersFollow'
<1> SUFFICES ASSUME journalUp', res' # "abort"
             PROVE  \E t : Leads(db', queue', t) /\ Tracks(t, markets') /\ RowsAre(t, orders')
  BY DEF OrdersFollow
<1>1. Next /\ queue' = queue \o out' /\ db' = db /\ journalUp' = journalUp
  BY DEF Serve
<1>2. IsList(out')
  BY <1>1, StepMessages
<1>3. PICK d : Leads(db, queue, d) /\ Tracks(d, markets) /\ RowsAre(d, orders)
  BY <1>1 DEF OrdersFollow, Next
<1>4. Len(out') \in Nat
  BY <1>2 DEF IsList
<1>5. PICK f : WrittenBy(f, Len(out'), d, out')
  BY <1>4, WrittenSteps
<1>6. StepWrites(d, f)
  BY <1>1, <1>3, <1>5, StepTracked
<1>7. RowsAre(f[Len(out')], orders')
  BY <1>1, <1>3, <1>5, StepFollowed
<1>8. PICK t : t = f[Len(out')]
  OBVIOUS
<1>9. Leads(d, out', t) /\ Tracks(t, markets') /\ RowsAre(t, orders')
  BY <1>5, <1>6, <1>7, <1>8 DEF Leads, StepWrites
<1>10. Leads(db, queue \o out', t)
  BY <1>2, <1>3, <1>9, LeadsOn DEF JournalFollows
<1> QED
  BY <1>1, <1>9, <1>10

\* And the journal's own steps.
LEMMA JournalKeepsOrders ==
    ASSUME JournalFollows, OrdersFollow, WriteNext \/ WriteFails
    PROVE  OrdersFollow'
<1>1. CASE WriteFails
  BY <1>1 DEF WriteFails, OrdersFollow
<1>2. CASE WriteNext
  <2>1. /\ journalUp /\ queue # <<>> /\ queue' = Tail(queue)
        /\ db' = Written(db, Head(queue))
        /\ markets' = markets /\ orders' = orders /\ res' = res
    BY <1>2 DEF WriteNext, vars
  <2>2. ASSUME res # "abort"
        PROVE  \E t : Leads(db', queue', t) /\ Tracks(t, markets') /\ RowsAre(t, orders')
    <3>1. PICK t : Leads(db, queue, t) /\ Tracks(t, markets) /\ RowsAre(t, orders)
      BY <2>1, <2>2 DEF OrdersFollow
    <3>2. Leads(db', queue', t)
      BY <2>1, <3>1, LeadsFrom DEF JournalFollows
    <3> QED
      BY <2>1, <3>1, <3>2
  <2> QED
    BY <2>1, <2>2 DEF OrdersFollow
<1> QED
  BY <1>1, <1>2

\* No order is there at the start.
LEMMA OrdersStart ==
    ASSUME JInit
    PROVE  OrdersFollow
<1>1. db = EmptyDb /\ orders = <<>>
  BY DEF JInit, Init
<1>2. journalUp
  BY DEF JInit
<1>3. db.orders = <<>> /\ queue = <<>> /\ Len(queue) = 0
  BY <1>1 DEF EmptyDb, JInit
<1>4. DOMAIN db.orders = {} /\ DOMAIN orders = {} /\ LiveRows(db) = {}
  BY <1>1, <1>3 DEF LiveRows
<1>5. RowsAre(db, orders)
  BY <1>4 DEF RowsAre
<1>6. Leads(db, queue, db)
  BY <1>3, LeadsNowhere
<1>7. PICK t : Leads(db, queue, t) /\ Tracks(t, markets)
  BY <1>2, JournalStarts DEF JournalFollows
<1>8. t = db
  BY <1>3, <1>7 DEF Leads, WrittenBy
<1> QED
  BY <1>5, <1>7, <1>8 DEF OrdersFollow

\* What a restart would load then is what is in memory.
LEMMA FollowedAreJournalled ==
    ASSUME EngineInv, OrdersAreTables, JournalFollows, OrdersFollow
    PROVE  OrdersSurvive
<1>1. KeysAreNew
  BY LeadsFrom DEF JournalFollows, KeysAreNew
<1> SUFFICES ASSUME journalUp, res # "abort"
             PROVE  /\ DOMAIN Caught.markets = DOMAIN markets
                    /\ orders = LoadedOrders(Caught)
                    /\ \A m \in DOMAIN markets :
                        /\ markets[m].state = Caught.markets[m].state
                        /\ markets[m].maxId >= LoadedMaxId(Caught, m)
  BY <1>1 DEF OrdersSurvive, OrdersAreJournalled
<1>2. PICK t : Leads(db, queue, t) /\ Tracks(t, markets) /\ RowsAre(t, orders)
  BY DEF OrdersFollow
<1>3. Caught = t
  BY <1>2, CaughtIs DEF JournalFollows
<1>4. PICK last : last = LastIds(markets) /\ TablesWithin(t, last)
  BY <1>2 DEF Tracks
<1>5. DOMAIN last = DOMAIN markets /\ \A m \in DOMAIN markets : last[m] = markets[m].maxId
  BY <1>4 DEF LastIds
<1>6. DOMAIN t.markets = DOMAIN markets
  BY <1>4, <1>5 DEF TablesWithin
<1>7. LoadedOrders(t) = orders
  <2>1. DOMAIN orders = DOMAIN last
    BY <1>5 DEF EngineInv, GoodMarkets
  <2> QED
    BY <1>2, <1>4, <2>1, LoadedAre DEF OrdersAreTables
<1>8. ASSUME NEW m \in DOMAIN markets
      PROVE  markets[m].state = t.markets[m].state /\ markets[m].maxId >= LoadedMaxId(t, m)
  <2>1. markets[m].state = t.markets[m].state
    BY <1>2 DEF Tracks, StatesAre
  <2>2. m \in DOMAIN last /\ last[m] = markets[m].maxId
    BY <1>5
  <2>3. LoadedMaxId(t, m) =< last[m]
    BY <1>4, <2>2, LoadedMaxIs
  <2> QED
    BY <2>1, <2>2, <2>3
<1> QED
  BY <1>3, <1>6, <1>7, <1>8

\* While the process lives, with one market and a queue that takes what is
\* posted, what it would load if it were started again once the journal has
\* written all that waits is what it has in memory: order by order, field by
\* field, with the states of the markets, and no id is given out again (the
\* commit phases of App.cpp, the triggers on exec_t, App::load).
THEOREM OrdersAreSafe ==
    ASSUME AtMostOneMarket, "queue" \notin Faults
    PROVE  FirstLife => []OrdersSurvive
<1>1. EngineInv /\ OrdersAreTables /\ JournalFollows /\ OrdersFollow
        /\ [Serve \/ WriteNext \/ WriteFails]_allVars
            => OrdersFollow'
  <2> SUFFICES ASSUME EngineInv, OrdersAreTables, JournalFollows, OrdersFollow,
                      [Serve \/ WriteNext \/ WriteFails]_allVars
               PROVE  OrdersFollow'
    OBVIOUS
  <2>1. CASE UNCHANGED allVars
    BY <2>1 DEF allVars, journalVars, vars, OrdersFollow
  <2> QED
    BY <2>1, ServeKeepsOrders, JournalKeepsOrders
<1>2. EngineInv /\ OrdersAreTables /\ JournalFollows /\ OrdersFollow => OrdersSurvive
  BY FollowedAreJournalled
<1> QED
  BY <1>1, <1>2, OrdersStart, FirstLifeIs, FirstLifeFollows, InvHolds, TablesHold, PTL
     DEF FirstLife
=============================================================================
