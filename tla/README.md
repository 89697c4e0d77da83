# Swirly in TLA+

Swirly is a limit order book: a daemon that takes orders over HTTP, matches
them, keeps each account's orders, trades and positions in memory, and journals
what happened to a database on a second thread.  This directory holds TLA+
models of it, TLC configurations that check them on small instances, and proofs
that TLAPS checks.  Paths below are relative to the repository, which is `src/`.

## The system

    signals --> main thread
    HTTP --> reactor thread: EpollReactor -> HttpSess -> RestServ -> RestApp -> App
                                                                             |
                              MsgQueue / MemQueue (lock-free)  <-- post -----+
                                      |
             journ thread: pop --> Journ --> database (triggers) --> Model at start-up

| part | state | operations | interacts with | what is hard |
|---|---|---|---|---|
| order book (`swirly/fin`: Order, Level, MarketSide, Market) | orders of a side as an intrusive list; levels that point into it | insert, remove, revise, cancel, take | called by App only | two structures updated order by order; time priority |
| engine (`swirly/lob`: App, Sess) | markets, sessions (orders, index of references, trades, recent execs, positions) | create and update market; create, revise, cancel order; create and archive trade; load | posts execs to MsgQueue *before* it commits | several indexes per order; every exit by exception; undo |
| positions (`Posn`) | totals and net cost per account and market | add_trade | updated by App | cost when a position changes sign |
| message queue (`MsgQueue`, `MsgHandler`) | none of its own | batches of messages, at most `MaxIds` ids per message | posts to MemQueue | batches that fit half |
| in-memory queue (`swirly/app/MemQueue`) | positions, sequence numbers, values, shared by threads or processes | post, fetch, reserve | reactor thread and journal thread | lock-free interleavings; a claim not yet committed |
| memory pool (`MemPool`, `MemCtx`) | free-lists and a bump pointer | alloc, dealloc | used by all of `fin` | lock-free pop; ABA |
| threads (`AgentThread`, `ReactorThread`, `Backoff`) | stop flag | run until stopped | everything | what is left when a thread stops |
| journal and model (`swirly/db`, `etc/sql`) | tables; triggers that keep orders and positions | write a message; load | journal thread; App at start-up | restart; order of rows; triggers |
| reactor and timers (`swirly/sys`) | subscriptions, heaps of timers | subscribe, dispatch, timer insert, cancel | HttpServ, HttpSess | handlers that call back into it; stale events |
| HTTP (`swirlyd`, `swirly/web`) | per connection: parser, buffer, timer | parse, route, respond | RestServ to RestApp to App | closing from within a handler |
| the rest | `swirly/fix`, `swirly/prof`, `swirly/util`, `contrib`, `swirlyui`, tests and tools | | | text, histograms, containers; see below |

What makes each part correct:

* **Order book**: list and levels agree; price-time priority is kept; the depth
  is the total of the orders.
* **Engine**: no crossed market is left; nobody is traded through; trades come
  in pairs; market and sessions hold the same orders; an operation that fails
  changes no order, session or position; the journal says what was committed.
* **Positions**: the positions of all accounts cancel out, except for manual
  trades without a counter-party.
* **Queue**: first in, first out, each message once, no data race, no failure
  without a reason, and nothing stays in it forever.
* **Journal**: what the engine holds is what the tables will hold when the queue
  is written, and a restart gives it back.
* **Threads**: the process ends when it should, threads before what they use, and
  the database has no gaps.
* **Reactor and timers**: a callback is called for its own subscription only; no
  timer is lost.
* **HTTP**: a request is what the client sent, however it was cut; answers are
  whole, in order, and come.
* **User interface**: what it shows becomes what the server has.

## Modules

| module | models | depends on |
|---|---|---|
| `OrderBook` | `fin/Order.hpp`, `Level`, `MarketSide.cpp` as operators on records | |
| `PriceTime` | abstract: a queue by price and time, with depth | |
| `MarketSide` | `fin/MarketSide.hpp`, one action per call | `OrderBook`, implements `PriceTime` |
| `Posn` | `fin/Posn.hpp`, `Posn.cpp` as operators | |
| `Matching` | `Exec` and the matching loop of `lob/App.cpp` as operators | `OrderBook` |
| `Engine`, `EngineMC` | `lob/App.cpp`, `lob/Sess`, `fin/Market.hpp`, one action per operation | `Matching`, `Posn` |
| `EnginePartsMC` | parts of what callers of the engine may do, each with bounds of its own | `EngineMC`, `Engine` |
| `Journal`, `JournalMC` | `db/SqliteJourn`, `db/SqliteModel`, the triggers and views of `etc/sql/schema.sqlite`, `App::load`; crash and restart | `Engine` |
| `Fifo` | abstract: a bounded queue | |
| `MemQueue`, `MemQueueMC` | `app/MemQueue.hpp`, one action per atomic access | implements `Fifo` |
| `MemQueueFile` | the queue in a file, over deaths of the process | `MemQueue` |
| `MsgBatch` | `fin/MsgQueue`: batches over the queue | `MemQueue` |
| `MemPool` | `app/MemPool.hpp`, `app/MemCtx.cpp`, one action per atomic access | |
| `Daemon` | `swirlyd/Main.cpp`, `app/Thread`, `sys/Signal.cpp` | |
| `TimerQueue` | `sys/Timer.cpp` | |
| `Reactor` | `sys/EpollReactor.cpp`, `sys/Reactor.hpp`: subscriptions and dispatch | |
| `Poll` | `EpollReactor::do_poll`: the cycle with its two queues of timers | |
| `HttpSess` | `swirlyd/HttpSess.cpp` with its client | |
| `HttpHead`, `HttpHeadMC` | `web/Parser.hpp`, `web/Request.hpp`: the head of a request, in pieces | |
| `RestBody` | `web/RestBody.rl` and what is generated from it: the body, in pieces | |
| `RestServ` | `swirlyd/RestServ.cpp`: from a request to a call and a status | |
| `HttpAnswer` | `web/Stream.cpp`, `sys/Buffer.cpp`: how answers are written | |
| `UiClient` | `swirlyui/HttpClient.cpp` and its tables | |
| `Fix` | `fix/Stream.cpp`, `fix/Parser.hpp`, `fix/Tokeniser.cpp` | |
| `Dates` | `util/Date.hpp`, `fin/MarketId.hpp` | |
| `BusDay` | `fin/Date.cpp`: the cache of business days | |
| `ProgressMC` | what must go on | extends `TimerQueue`; `Daemon`, `MsgBatch`, `Poll`, `HttpSess`, `UiClient` |
| `SysMC` | what lies under the daemon | extends `MemPool`; `Reactor`, `MsgBatch`, `MemQueueFile` |
| `WebMC` | from the network to the engine and back | `HttpSess`, `HttpHead`, `HttpAnswer`, `RestBody`, `RestServ`, `UiClient`, `Fix`, `Dates`, `BusDay` |
| `OrderBookProofs`, `MarketSideProofs` | lemmas about sides; theorems about `MarketSide` | `MarketSide`, `TLAPS` |
| `EngineProofs`, `EngineStepProofs` | lemmas about matching; theorems about `Engine`: its invariants, and its steps; about `Journal` before the first restart | `Engine`, `Journal`, `OrderBookProofs` |
| `MemQueueProofs` | theorems about `MemQueue`, `MemQueueFile` and `MsgBatch` | `MemQueueFile`, `MsgBatch`, `TLAPS` |
| `ProgressProofs` | theorems about `TimerQueue` and `Daemon` | `ProgressMC`, `TLAPS` |
| `SysProofs` | theorems about `MemPool`, `Reactor` and the queues | `SysMC`; `MemQueueProofs`; `TLAPS` |
| `WebProofs` | theorems about `HttpSess`, `HttpHead`, `HttpAnswer`, `RestServ`, `UiClient` and `BusDay` | `WebMC`, `TLAPS` |

A module `...MC` gives others values for TLC.  `ProgressMC`, `SysMC` and `WebMC`
hold several small instances each, of parts that share no variable: in each
behaviour `part` says which of them runs, and the others stay as they start.
Interleaving them would show nothing of one that it does not show alone, so a
state of such a run is a state of one part.  Their properties are those of the
parts, under `part = ...` or, for what must happen in the end, under the part's
own fairness; each is a conjunction of the properties that its definition names,
which are stated and explained in the part's module.  One part each of `ProgressMC`
and `SysMC` is the module that it extends: its properties are checked as they stand
there.  The constants of `Daemon`, `Reactor` and `RestServ` and the bound of `HttpSess`
are constants of the composition, so that what is proved of their instances there holds
for every value.  `EnginePartsMC` has parts of another kind: all of them are `Engine`, with
some of its operations and inputs, so that each can have the ids that its cases need.

The parts are composed
where they meet in the code: `Journal` extends `Engine`, `MsgBatch` and
`MemQueueFile` extend `MemQueue`.  Elsewhere one module abstracts another to what
that one establishes: `Daemon` and `Journal` use the queue as the sequence that
`MemQueue` implements, `Poll` uses timers as `TimerQueue` shows them to be, and
`RestServ` takes a request as `HttpHead` and `RestBody` collect it.

Operators whose comment begins with "Faulty:" are not part of any
specification.  Each is a plausible mistake in the definition that follows it,
kept to confirm that the properties notice it.

### OrderBook and MarketSide

An order is a record; a side is `[list, levels]`: the ids of `orders_` in order,
and for each key of `levels_` its `first`, `lots` and `count`.  `RemoveOrder`
follows the code's three cases (last order of its level, first order, any
other), and `InsertOrder` finds a place through the next level's first order,
as the code does, and not by searching.  The pointer from an order to its level
is implied by membership of the list.

`MarketSide` drives a side through `insert_order`, `remove_order`,
`revise_order`, `cancel_order` and `take_order`, with the code's assertions as
guards.  The refinement to `PriceTime` maps the list to a queue of
`[id, key, lots]` and the levels to the depth.  The depth of `PriceTime` is
recomputed from the queue in each step, so the refinement says that the levels,
which the code updates incrementally, are right.

### Engine

Each public operation of `App` runs to its end on the reactor thread, so each is
one action.  The exits inside it are disjuncts: the refusals that change
nothing, the queue that does not take the batch (`QueueFails`), and the
allocation that throws (`MemoryFails`), each with what the code had changed by
then: ids taken from `Market::alloc_id`, flat positions created by `Sess::posn`,
a level created and removed again.  `out` holds the messages that the operation
left on the queue, `res` how it ended.  `res = "abort"` is a failed assertion of
a commit phase; nothing happens after it.

| variable | code |
|---|---|
| `markets`, `books`, `orders` | `App::Impl::markets_`: state, max_id and last trade; the two sides; the orders on them |
| `sessOrders`, `refIdx`, `trades`, `execs`, `posns` | `Sess`: `orders_`, `ref_idx_`, `trades_`, `execs_`, `posns_` |
| `day` | `bus_day_(now)`, which the code computes from the time of each call |

An overload for one order is the overload for a list of one id.  Left out:
`Response`, timestamps, liquidity indicators, the `posn_lots` and `posn_cost`
that are noted on a trade, and the reference of a manual trade.  Accounts always
have a session, since `App::sess` creates it on first use.  The engine starts
with the instruments of its reference data and no markets; `load` is in `Journal`.

### Journal

The messages of each operation of `Engine` go to `queue`; the journal thread
takes them one by one (`WriteNext`) and a write does what the statement and the
triggers on `exec_t` do.  It fails if a primary key is taken, or for a reason of
the database's own (`WriteFails`), and then the thread has ended.  `Restart` may
happen at any point: memory is lost, with the queue if it is anonymous, and is
made again from the tables as `SqliteModel` reads them and `App::load` inserts
them.  `Caught` is what the tables will be when all that waits is written;
`OrdersAreJournalled` and `TradesAreJournalled` compare it with memory, in every
state and not only when the queue is empty.

Observed while modelling, and left as they are: `posn_lots` and `posn_cost` of a
matched trade are journalled as 0; a manual trade updates `market_t.last_*` in the
database but not the live market; a market whose settlement day is today counts as
settled when it is loaded (`<=`, `SqliteModel.cpp:206`) and not for the engine
(`<`); after an overflow a session's history is loaded with its oldest execs, in
order; a crash in the middle of a batch may leave a book that is crossed after the
restart.  The MySQL journal, model and schema do the same in another dialect.

### MemQueue

Each of `post` and `fetch` is split at its atomic accesses: load of the
position, load of the sequence number with the decision on it, the
compare-and-exchange (which may fail spuriously and re-reads the position), the
plain access to the value, and the store that commits.  The plain access is an
action between claim and commit, so that `NoRace` can say that two of them never
meet on one element.  `Initialised` is the number of elements to which the
constructor gives a sequence number: it is the capacity asked for, while
`Capacity` is rounded up to a power of two.

The memory model: positions are accessed relaxed, which an interleaving covers
because each is one atomic object whose loads are only used as a guess that the
compare-and-exchange confirms.  Values are published by release and acquire on
the sequence number.  Positions are 64 bits wide and do not wrap in the model.

`MemQueueFile` adds `Crash`: all threads vanish in the middle of their calls and
new ones map the file as it was left.  `MsgBatch` adds the reactor thread's calls:
`Call` asks `reserve()` and refuses the batch or begins it, `PostStep` begins the
post of the next message, and `Posting` are `MemQueue`'s steps of it, after which
the batch goes on, is done, or is cut.

### MemPool

`alloc` is: read the head of the class's stack, read the `next` of that block, and
the compare-and-exchange; without a free block, the same with the offset of the
unused memory.  `dealloc` is: write the link into the block, and the
compare-and-exchange with a new tag.  The user of a block may write junk where a
free block has its link (`Write`).  The model's only bound on tags is `MaxTag`; in
the code a tag has 32 bits and could wrap during one call of another thread.

### Daemon

`main` is: start the threads, wait for a signal, act on it, and run the
destructors in reverse order, which stop and join the journal and then the reactor
thread.  Clients may send requests for ever.  Those that leave a message are numbered;
the messages after the first `Followed` ones share a number, which keeps the states
finite without an end of the load.  A thread that throws raises SIGTERM and ends.  A signal goes to `main` while it is in
`sigwait`; at other times to a thread that does not block it, and its default
action ends the process.  What is still on the queue when the journal thread is
stopped is not written: with an anonymous queue it is lost also in an orderly
stop, which `NoGaps` allows, since it is the end of the sequence.

The agent goes on while it finds messages (`Main.cpp:293`) and looks at its stop flag
only when it has found none (`Thread.hpp:78`-`86`), and the reactor serves until the
journal thread has been joined.  If requests keep coming so fast that the agent never
finds the queue empty, `main` waits in the join for ever.  `Terminates` therefore has the
condition `ClientsFallQuiet`: from some time on nothing more is posted.  Without it TLC
finds that behaviour, a cycle of post, pop and write while `main` is in `joinJournal`.
`FailureEndsProcess` needs no such condition: after a failure of either thread nothing is
left that could keep `main` waiting.

### TimerQueue, Reactor and Poll

A timer is referred to by the user's handle, the heap, and `expire()` while its
callback runs.  Whatever the user may do between two calls (`Insert`, `Cancel`,
`Release`), a callback may do.  The heap is a set with a front; timers that expire
together may be in any order.

In `Reactor` a user is the owner of a socket; descriptors are reused as soon as
they are closed.  `Wait` returns events for what epoll watches then, `Skip` and
`Call` work them off one by one as `dispatch` does, and during a call any user may
subscribe, change its interest, unsubscribe or close, itself or another.

`Poll` is the cycle around them: how long to wait (`WaitUntil`, in whole
milliseconds, over both queues), what is called then, and what is put off.  The
idle timers of HTTP sessions have low priority: on a server that has events in
every cycle they never fire, as the comment at `EpollReactor.cpp:134` says.

### HTTP

`HttpSess` is one connection with its client.  A request is two pieces, so that
the parser can be within one, and an answer two units, so that it can be written
in parts.  `OnIoEvent` begins a call with the events that are ready, `Handler`
are its steps (write, read, parse the next piece, close), `OnTimer` the idle
timer.  `sess = "broken"` is the use of a deleted session, which the run
`web` excludes for a client that sends nothing and closes nothing while it
waits for the answer to a closing request (`Patient`).  With any other client it
happens (see below), and `progress` shows what holds all the same.

`HttpHead` takes the callbacks of the third-party parser as they come: pieces of
the url, of names and of values, of any length.  `RestBody` is the state machine
of the body, character by character where it has an action and token by token
otherwise; `Rendered` is the grammar, written down a second time as the set of all
good texts with their meaning.  A blank in front of the digits of a number is
refused although JSON has it so, which `OnlyBadIsRefused` excepts.  `RestServ`
takes requests as sequences of parts and decides as the nested branches of the
code do; its outcome is a call of `RestApp`, with its ids, and a status.  A GET
with several ids answers the first one only, and a PUT with negative lots cancels
an order as one with none.  `HttpAnswer` is the writing: the header with a
place-holder, the body, an error in place of both, the length, and the buffer from
which the socket takes any number of units and whose memory is moved to the front.
The exchange of bytes with `HttpSess` is where they meet: there a buffer is the
sequence that `AnswersAreWhole` says it is.

### UiClient

Slots hold requests under way; `Handle` is the server's part, `Finish` the reply,
`Fail` an error of the connection, `Poll` and `Recover` the timer.  Orders are
marked and swept by replies; execs are kept in a circular buffer.  Replies may
overtake each other, as they use several connections.  The order of the rows of
execs is that of the replies and is never repaired.  A request that never ends and
an answer with an HTTP error are not modelled: the client then asks for reference
data no more.

### Fix, Dates and BusDay

`Fix` writes messages byte by byte (`Reset`, `PutField`, `Commit`), with the body
length put in afterwards, delivers the bytes in any pieces (`Receive`) and cuts
them up again.  The parser does not verify the check sum, and neither does the
model.  The daemon does not use FIX.

`Dates` walks through the calendar, day by day, beside the code's arithmetic.
`BusDay` asks for seconds in any order, since a request may bring its own time.

## Runs

| run | question | instance |
|---|---|---|
| `market_side` | does a side keep list and levels in step, and price-time order? | 5 orders, 2 prices, 2 lots |
| `engine_match` | is matching right, and are lots and journal right when orders are revised and cancelled, alone and in lists, and when queue or allocator fail? | 2 accounts, 2 prices, 2 lots; parts `Book` and `Sweep` below |
| `engine_markets` | do markets and sessions agree, do positions follow matched and manual trades, does a failure change nothing? | 2 accounts with one reference each, 2 prices, 2 lots, lists that name an id twice; parts `Sweep`, `Manual` and `Markets` below |
| `journal_orders` | are orders in memory those of the tables, over crashes, and are ids new? | 1 account that trades with itself, 4 ids, 2 lots, history of 2, 3 messages waiting, writes that fail |
| `journal_trades` | and trades and positions? | 2 accounts, a market and its forward, which settles on day 1 of 2 |
| `mem_queue` | is the queue a FIFO without races, that fails only for a reason? | 2 producers, 2 consumers, 2 elements, 2 different messages, 5 claims: two and a half laps |
| `progress` | what goes on, and what ends; does the reactor see the timers that are pending? | see below |
| `sys` | are blocks of memory, callbacks and messages kept apart? | see below |
| `web` | is a request what was sent, does it call what it should, and is the answer whole? | see below |

A match takes two ids of its market beside the taker's own, so that the bound on ids
decides what can be matched.  The parts of the engine (`EnginePartsMC`) are:

| part | operations | instance |
|---|---|---|
| `Book` | all of the run's operations (`Ops`: orders are created, revised and cancelled), going on after failures | one market, 5 ids: a taker meets one maker, which it fills or leaves partly filled |
| `Sweep` | creating, revising and cancelling orders, alone, in lists and by reference; a failure is the last step | one market, 7 ids, two live orders at most between operations: a taker sweeps one or two makers, at one price or two, which may be orders of its own account and may have been revised before; a list names two orders, also partly executed ones; queue and allocator fail also behind two matches |
| `Manual` | manual trades at one price, with and without counter-party or with the account itself, orders at another, the archive; a failure is the last step | one market, 5 ids, one live order at most: matched trades beside manual ones, so that cost and lots differ |
| `Markets` | creating and cancelling, by id and by reference, over two markets of which one settles on day 1 of 2; going on after failures | 4 ids, orders of one lot, one reference per account over both markets, matches in either |

The parts of the last three, with the properties they check:

| run | part | instance |
|---|---|---|
| `progress` | `Daemon` (`DaemonEndsInOrder`, `DaemonProgresses`) | requests without end, of which the first 2 that leave a message are followed; a queue of 2, 2 signals, either thread may throw |
| | `MsgBatch` (`BatchesArrive`) | 2 batches of up to 3 items over 2 elements, 1 consumer |
| | `TimerQueue` (`DeadAreCounted`, `PollSeesTimers`, `TimersFire`) | 2 timers, one-shot and periodic, 4 times; callbacks that insert, cancel and release |
| | `Poll` (`TimersArePolled`) | a timer of each priority |
| | `HttpSess` (`HandledIsAnswered`) | 3 requests of any client |
| | `UiClient` (`ClientCatchesUp`) | 2 requests at once, a fill, a failure, a timer faster than the reference data |
| `sys` | `MemPool` (`BlocksHaveOneOwner`, `BlocksAreLargeEnough`) | 2 threads, 3 lines of memory, 3 tags, objects of 64, 100 and 128 bytes: those of 100 are released to a smaller class than they are allocated in |
| | `Reactor` (`CallsAreCurrent`) | 2 users, 2 descriptors, each used 3 times |
| | `MsgBatch`, `MemQueueFile` (`QueueKeepsMessages`) | 3 batches of up to 4 items, 1 or 2 per message, 4 elements; a file over 2 deaths of the process |
| `web` | `HttpSess` (`AnswersAreInOrder`) | 3 requests of a patient client |
| | `HttpHead`, `HttpAnswer` (`MessagesAreMeant`) | 3 headers of 5 names, of which two are looked for, one is the beginning of another and one is longer than its buffer; bodies of up to 2 units, a buffer that shrinks at 3 |
| | `RestBody` (`BodiesAreMeant`) | one pair of any kind; two pairs; one pair in each of two bodies |
| | `RestServ` (`RequestsCallTheirOwn`) | all resources, methods, permissions; bodies in two fragments |
| | `UiClient` (`RowsHaveInstr`) | 3 requests at once, a timer slower than the reference data |
| | `Fix`, `Dates`, `BusDay` (`ConversionsAgree`) | 2 messages of up to 2 fields in all fragmentations; every day of 1970 to 2105; any seconds of more than a day |

Three runs are expected to be violated; each shows a place where the code does
other than a comment or an assertion of it says:

| run | what it shows |
|---|---|
| `engine_repeat` | `revise_order` and `cancel_order` accept a list that names an order twice, journal both execs, and fail the assertion at `App.cpp:327` or `:384` |
| `journal_ids` | the trigger finds orders by their id alone, which is that of another order in another market (`schema.sqlite:292`) |
| `http_head_long` | a url beyond 128 characters is cut, and a list of ids ends with another id (`Request.hpp:93`) |

Other disagreements that came up while modelling are described here only.  The
models have the behaviour that leads to them, and the properties that hold are
stated so as to allow it:

* "Minimum to be filled by this order" (`Order.hpp:160`): matching does not look at it.
* "Returns false if capacity is exceeded" (`MemQueue.hpp:185`): `post` also fails
  while a consumer reads the element, which `reserve` counts as unused
  (`FailuresAreForLack`).  A batch that was found to fit can be cut short for that
  reason (`OnlyTheLastIsCut`); an order whose batch is cut is refused to its owner
  and is live after the next restart.
* A capacity that is not a power of two leaves elements that `post` can never use
  (`MemQueue.hpp:74`, `Initialised < Capacity`).
* With a queue in a file, ids are given out twice after a restart, and the journal
  ends at the primary key (`QueueIsFile`).  The journal's runs have an anonymous queue:
  with the other `KeysAreNew` does not hold, and with it `OrdersSurvive`.  An element that
  was claimed when the process died stops the queue for ever.
* Orders are loaded in the order of their rows, not of time (`Sql.hxx:109`).
* A closed position has a cost again after a restart (`Posn.hpp:86`).
* A daemon that is told to stop does not while requests keep the queue from running empty
  (`Main.cpp:293`; see `Daemon` above).
* `sig_block_all` blocks no signal (`Signal.cpp:58`); a signal that comes while
  `main` acts on another ends the process without its destructors.
* A timer cancelled in its own callback is counted without being in the heap.
* A session that closed itself after a write goes on to read; it closes for a
  closing request that it has not handled yet.
* Reference data is never marked as cacheable (`RestServ.cpp:153`), and the first of
  no ids is used (`RestServ.cpp:587`).
* Truncated days begin on the 23rd of May 1968, not the 24th (`Date.hpp:132`).
* The second 0 is found in the cache before it was asked for (`fin/Date.cpp:53`).

**Bounds.**  `MaxId` bounds the ids that a market gives out: an operation that
would need more is not taken.  `MaxLots`, `MaxTicks`, `MaxDay` and the sets of
references, minima and lists bound the inputs.  `MaxExecs` and `MaxIds` are
parameters of the code, made so small that the history overflows and that a list
needs several messages.  `MaxPos` bounds the claims of the queue: no call of
`post` begins once that many positions were claimed.  `Ops` chooses the callers
of a run: each engine run spends its states on the operations its properties are
about, and between them they take every action.  Accounts are symmetric in the
engine runs, threads and messages in `mem_queue`, and users and the pool's threads in
`sys`; `progress`, with the liveness properties, uses no symmetry.
The engine runs use a view without `out`, which no guard reads; the properties of
a step read the `out'` that the step produces, and TLC evaluates them on every
transition.

In the other modules: `MaxQueue` bounds the messages that wait for the journal;
`MaxTag` the pushes of a class of blocks; `MaxSid` the uses of a descriptor;
`Followed` the messages of the daemon that are told apart, not those that come;
`MaxRequests`, `MaxSignals`, `MaxCrashes`, `MaxAsks`, `MaxFills` and `MaxFaults` what
clients, users and the world do; `MaxTime` the clock; `MaxItems` and `MaxBatches`
the batches; `MaxParts`, `MaxHeaders`, `MaxBody` and `MaxWaiting` requests and
answers; `MaxBodies`, `MaxPairs`, `MaxDigits` and `MaxBlanks` the texts that
`RestBody` is fed.  Sizes of the code are made small so that they are reached:
`MaxSymbol`, `MaxUrl`, `MaxField`, `MaxValue`, `ShrinkThreshold`, the moduli of
numbers (128 and 64 for 2^64 and 2^32), and in `Fix` the base 3, a length of 3
digits and a sum modulo 4.  The body of a FIX message stays below what its length
can hold, which the code does not check either.

These runs do not check for deadlock, because what they model comes to an end:
`market_side` stops when all ids have been used and no order is left;
`engine_match` and `engine_markets` have parts in which a failure is the last step, and
stop, like `engine_repeat`, after an abort, when a list names an order twice; `progress`, `sys` and `web` have parts that stop: `Daemon` when the
process has ended, `TimerQueue` at the end of the clock with no timer left,
`HttpSess` when the session is closed, `Fix` when all messages are written and
read, and `Dates` at the end of the last year.  All others check it.

**Fairness.**  Only the liveness properties rest on any.

* `BatchesArrive`: a thread that has begun a call goes on (weak fairness of its
  steps), and the consumer calls `fetch` again and again, which is the loop of
  `AgentThread::run` around the journal agent (`Thread.hpp:67`, `Main.cpp:290`).  The
  compare-and-exchange of a thread is strongly fair: a weak compare-and-exchange may
  fail for no reason, but not always.  Nobody has to start posting; a batch that has
  begun goes on.
* `DaemonProgresses`: each thread goes on (weak fairness), where the reactor's wait
  need only end if it is interrupted.  Clients and signals are not fair.  That the process
  ends when it is told to (`Terminates`) has the premise that its clients fall quiet.
* `TimersFire`: the reactor goes on dispatching and callbacks return (weak); time
  passes between two dispatches, however often they are (strong fairness of the
  tick, since the clock stands still during one).
* `TimersArePolled`: the cycle goes on (weak), its wait ends by its events or its
  time-out and is not interrupted by a signal every time (strong), and time passes.
* `HandledIsAnswered`: the reactor reports events and a call goes on (weak); a client
  takes data again and again, so that a write that may be a part is a whole one at
  some time (strong).
* `ClientCatchesUp`: the timer fires, and each request is handled and answered in the
  end (weak, for each slot).  Users and failures are not fair.

## Proofs

Theorems hold for every value of the constants that their assumptions allow:
any accounts, markets, bounds, threads and capacities.  `EngineAssumption`
says little more than that bounds are numbers and that `NoAccnt` is no account;
`AccntsAssumption`, that there are finitely many accounts, is needed only for
the sums over all of them.

### The side of a market

`OrderBookProofs` and `MarketSideProofs`: `TypesHold` (`[]TypeOK`), `LevelsRight`
(`[]LevelsSummariseOrders`), `PriorityHolds` (`PriorityIsKept`) and
`PriceTimeImplemented` (`ImplementsPriceTime`).

`LevelsSummariseOrders` alone is not inductive: `insert_order` finds the place of
an order through the levels, so the levels stay right only if the list is in
order, and the list stays in order only if the levels are right.  `SideInv` says both
(`BookSide`): at each price the orders stand by id, which is their age, and the levels
are those that the list has.  Its lemmas say what `InsertOrder` and
`RemoveOrder` do to a list in order: a new order comes behind all that are as good
(`InsertPlace`), and removing one leaves the rest in
order, whichever of the code's three cases applies.  From `SideInv` each step of a side
is a step of `PriceTime`, where the depth is recomputed from the queue.

### The matching engine

`EngineInv` is the inductive invariant of `Engine` (`EngineProofs!InvHolds`).  It says

* of each live order that its lots add up, that it costs no more than its lots at
  the highest price, and that it has an id that its market gave out;
* of each market that its sides are right in the sense above, that they hold its
  orders, and that no bid meets an offer;
* of each session that its orders are the live orders of its account and that its
  references find exactly those that have one.

`NotCrossed` is not inductive without the second: that no bid meets an offer
after an order has come in rests on the matching loop, which goes through a side
from its front and stops at the first order that does not cross.  That all
others do not cross either needs the side to be in order.  `EngineProofs` shows
that the matches take a prefix of the side, that every maker but the last one is
filled, and that the loop stops only where the taker is done, the side is, or prices
no longer cross.  `TypeOK`, `LotsAddUp`, `NotCrossed`, `BooksAreInOrder` and
`MarketsAndSessionsAgree` follow from `EngineInv`; `FailuresHold`
(`FailureChangesNothing`) follows from it step by step: where the queue is full, the
market insertion of `create_order` is undone, and the undone side is
the old one because removing an order is the inverse of inserting it (`InsertUndone`).

`EngineStepProofs` proves what a step may do, from `EngineInv`:

* `MatchesHold` (`MatchesAreFair`), of which `IdsHold`, `PairsHold` and
  `NoneTradedThrough` are the parts: `OrderBatch` says what the batch of an order
  with n matches is, exec by exec; an order that stands before one that trades
  is a maker that was filled (`EarlierMakers`).
* `JournalTold` (`JournalTellsOrders`): the batch is replayed message by message,
  and `ToldSoFar` says what has been told after the first so many makers.  It needs that
  no order is a maker twice (`MakersDiffer`).  An additional invariant, `OrdersAreTables`,
  says that `orders` is a function and its values are: equality of tables does not
  follow from equality at every point otherwise.
* `PosnsFollow` (`PositionsFollowTrades`): needs that the trades of a step are new to
  the session, which the additional invariant `TradesAreNumbered` gives (trades have
  ids that their market gave out), and that they are different from one another.
* `PosnsBalance` (`PositionsBalance`): the total moves exec by exec, and the two
  trades of a match, or of a manual trade with a counter-party, take back what the
  other gives (`TotalStays`), in whichever order the batch holds them.

### The journal, up to the first restart

`FirstLife` is `JSpec` without `Restart`: a process that starts on empty tables, serves,
and journals, where the database, the journal thread, the queue and the engine may fail as
`Faults` and `DbFaults` say.  `EngineStepProofs` proves of it:

* `KeysStayNew`: `[]KeysAreNew`, for any markets, operations and failures;
* `OrdersAreSafe`: `[]OrdersSurvive`, for at most one market (`AtMostOneMarket`) and a queue
  that takes what is posted (`"queue" \notin Faults`).

The tables lag behind memory, so neither is inductive.  What is, is that the queue leads
from the tables to tables that agree with memory: `Leads(db, queue, t)` says that the
database accepts every message that waits, in turn, and arrives at `t`.  `Tracks(t, markets)`
says of `t` that it has the markets, and no id that its market has not given out;
`RowsAre(t, orders)` that its rows are the orders of memory, each field as the trigger
on `exec_t` leaves it.  A write of the journal moves a message from the queue to the tables
and leaves `t` where it is (`JournalFollows`, `OrdersFollow`).  An operation of the engine
moves `t` by its batch: one exec, one market, archived trades, or the execs of an order and
of its matches.  Of an operation's batch it is proved at each place what the tables say after
so many of its messages, because the first exec of a match is written while its counterpart
waits.

Why the theorems assume what they do:

* A process that comes back may have lost part of a batch, and loads it so; then a book may be
  crossed and `EngineInv`, on which all this rests, does not hold.  That `OrdersSurvive` holds
  after restarts, too, is what `JournalOrders.cfg` checks.
* The trigger updates the rows of all markets that have the id of the order of an exec
  (`JournalIds.cfg` shows what comes of that), so `OrdersSurvive` fails with two markets.
* An operation that throws because the queue is full in the middle of its batch has posted a
  part of it, which is journalled and is not in memory.

### The queue

`MemQueueProofs` proves, for any sets of producers and consumers, any messages
and any capacity of at least two:

* `TypeCorrect`: `Spec => []TypeOK`, with no assumption on how many elements
  were initialised;
* `Invariance`: if all elements were initialised, `Spec => []Inv`;
* `AccessesAreExclusive`: then also `[]NoRace`;
* `Failures`: then also `FailuresAreForLack`, from `PostFailure` and `FetchFailure`
  for its two halves;
* `FifoImplemented`: then also `ImplementsFifo`.

The assumption is needed: without it `post` fails for ever at an element that has no
sequence number.
`NoRace` is not inductive: a thread in front of its compare-and-exchange decided
by a sequence number that may be out of date.  `Inv` therefore says

* where the positions are (`PositionsOK`: at most one lap apart);
* what a producer or consumer may rely on at each point of its call
  (`ProducersOK`, `ConsumersOK`): in particular, that once a thread has seen its
  sequence number it can only grow, so that if the position still matches, the
  element cannot have been used in between;
* that two claims are never of the same position (`ClaimsDiffer`);
* for each of the next `Capacity` positions to be posted, in which of four
  phases its element is: free, being written, full, being read (`ElemsOK`);
* that sequence numbers do not fall behind claimed positions (`SeqNotBehind`).

A successful compare-and-exchange is then the one step that needs thought
(`ClaimedElemIsFree`, `ClaimedElemIsFull`): of the four phases only one is
compatible with what the thread has seen.  The arithmetic is in `NextLap` and
`DifferentElems`: `% Capacity` identifies positions a lap apart and no closer
ones.  `QuietStep` disposes of the steps that move neither positions nor
sequence numbers nor claims.

The refinement takes a message to be in the abstract queue from the moment at
which its position is claimed, when it is not in its element yet: it is then what
the writer is about to store.  `ValuesOK`, a further invariant, says that
whatever was posted and not fetched is stored or about to be.

Of the queue in a file it proves, over any number of deaths of the process at any
points of any calls, `FileLosesNothing` (`[]NothingIsLost`), `FileDelivers`
(`[]DeliversWhatWasPosted`) and `FileAccessesAreExclusive` (`[]NoRace`).  `Inv` is of
no use there: an element that a dead producer had claimed is in none of its phases.
`FileInv` says of each element that it is at some position, free or full, and nothing
about who has claimed it; that its sequence number is the position or one more tells
which, since positions of an element are laps apart.  That is enough for a
compare-and-exchange that wins (`PostFindsFree`, `FetchFindsFull`), and it needs no
assumption on how many elements were initialised: those that were not are never
claimed.  What does not survive is progress, and nothing here says that it does.

Of batches it proves `BatchesAreKept`: for any capacity and bounds, any consumers and
one producer, the type invariant, `ItemsAreAccounted` and `OnlyTheLastIsCut` of
`MsgBatch`.  `BatchInv` relates the caller's loop to what the atomic steps of the
threads leave behind.  What is stored in elements is a set that
only the commits of `post` and `fetch` change, by one message each (`CommitStored`,
`FetchStored`); `Accounts` says that the messages of a batch are the items before its
offset, each in one of them.  `HasRoom` is why a batch that was found to fit is not cut
in the middle: the reactor is alone in posting, so that consumers can only add to the
room it has seen, and each message takes one element and one step of those left
(`StepsLeft`).  When `post` fails all the same, `FailingPost` names a consumer that is a
lap behind; if there is only one (`Alone`), one element is missing and one message
(`CutIsLast`).

`QueuesHold` (`SysProofs`) is the property of the run, `[]QueueKeepsMessages`: it takes
the two parts of `SysMC` to be the instances that `MemQueueProofs` is about.

### The timers

`ProgressProofs` proves, for any finite set of timers, `TypesHold` (`[]TypeOK`, with
the asserts of `Timer.cpp:63` and `:117`: the count is never negative), `DeadCounted`
(`[]DeadAreCounted`) and `PollSees` (`[]PollSeesTimers`).

`PollSeesTimers` speaks of the moments between two calls and is not inductive: during
a dispatch the front may be dead and the count may say anything that is enough.
`QueueInv` says what holds throughout (the front is the earliest timer of the heap,
the timer that runs is outside of it, dead timers are counted) and what every call
leaves behind (`Settled`: the front is pending, and at most half of the heap is
counted).  The count may be too high, since a timer that is cancelled in its own
callback is counted without being in the heap.  That it does no harm rests on `gc`:
with at most half of the heap counted, `size - cancelled` is zero only for an empty
heap, and a heap without a pending timer is all counted and so empty
(`SettledIsSeen`).  `CancellingSettles` and `GcSettles` are the two calls that need it.

### The daemon

`ProgressProofs` proves of the daemon's threads, for requests without end, any number of
followed messages and of signals, any capacity of the queue and whichever threads may
fail, `JournalHasNoGaps` (`[]NoGaps`),
`MainOutlivesThreads` (`[]ThreadsEndFirst`) and, of the specification that the run
checks, `DaemonAlwaysEndsInOrder` (`[]DaemonEndsInOrder`).  The invariant `DaemonInv`
numbers the messages: those in the database, the one that the journal thread has taken
and those on the queue are the first ones in order (`WrittenCounts`,
`QueueContinues`, with numbers that end at `Later`).  After the thread has failed only the first of these is still true,
which is enough since it is then never run again.  `JoinsInOrder` says that main is
past the journal thread only when that has ended, which `Start` needs as well: a
signal cannot take main back to where the thread is started.

### The memory pool

`SysProofs` proves, for any threads, any size of the pool and any sizes of objects
that the classes serve, `TypesHold` (`[]TypeOK`), `OwnersHold`
(`[]BlocksHaveOneOwner`) and `RoomHolds` (`[]BlocksAreLargeEnough`).

The properties follow links through memory, which is no basis for an induction.
`PoolInv` says that there is a pile of links for each stack that memory agrees with
(`Linked`).  A thread that pops has read a node that may be another's by now; the
invariant promises nothing of what it read unless its link is in the pile, and then
that it read the link below (`KnownBelow`).  The exchange compares the link with the
top of the pile, so that a thread that wins it knows the rest.  This needs that a link
never comes back to a pile, which is what tags are for: the tag that a release draws
has been seen by nobody (`Unseen`, `OwnRelease`).  Tags that wrap are beyond `MaxTag`
and not covered.  `ChainIsPile` shows that the recursive `Chain` of the properties is
the pile, and `PileHeight` that it ends, by counting addresses.
`RoomHolds` is arithmetic: allocation rounds up and release rounds down, so that a
block goes to a class no larger than it (`ClassesFit`).

### The reactor

`SysProofs` proves, for any users and descriptors and any number of subscriptions,
`CallsHold` (`CallsAreCurrent`): a slot is called for the subscription that its event
was reported for, no event is dropped that somebody waits for, and handles are
current.  `ReactorInv` relates the four places that know of a subscription: the entry
of the descriptor, epoll, the user's handle and the user's socket (`SocketsAgree`,
`HandlesAgree`).  An event in the batch either has an identity older than the
entry's or is for the user in the entry, whose handle has that identity
(`EventsAgree`): every reuse of a descriptor, also one that fails, draws a new
identity (`SubscribeKeeps`, `SubscribeFailsKeeps`).  A user that closes its socket and
keeps its handle, whose descriptor is then another's, takes nothing away by
resetting it, since the identities differ (`UnsubscribeKeeps`).

### The session and its requests

`WebProofs` proves `AnswersInOrder` (`[]AnswersAreInOrder`) for a client that waits for
its answers before it asks for anything that ends the connection, and sends any number
of requests.  `SessInv` takes what the client sends for one stream of pieces: what has been
read and what is on its way is the rest of it, from the place where the parser is
(`StreamIsWhole`), whose flag is that of the request it is in (`ParserFollows`).  The
property itself says nothing of the stream, but needs it for `NotUsedAfterClose`: the
session that is closed after its last write does not go on to read, because nothing comes
after a closing request (`NothingAfterClosing`), which is the last and has its answer to
wait for (`ClosingIsAlone`).  With a client that does not wait the session is used after it
is closed; that is not part of this theorem, and `HandledIsAnswered` is checked with such a
client too.

`RequestsCallWhatTheyAsk` (`[]RequestsCallTheirOwn`) holds for any paths and bodies:
`RouteSound` goes through the routes and shows of each call that it asks for the rights it
needs and for the fields that the path does not give, and `ServInv` that what was collected
is what was sent.  Permissions without an account give no access to anything.

### The client of the user interface

`RowsKnowTheirInstrs` (`[]RowsHaveInstr`) holds for any number of connections, execs,
fills, requests and failures.  That every row knows its instrument is not inductive: a
reply from before a new start could bring a row while the instruments are forgotten.
`ClientInv` says that without the instruments there is no row and nothing under way that
could bring one (`InstrsComeFirst`); a new start keeps that because it waits until
`pending_` is zero (`RecoverKeeps`), which is why `ClientInv` also says that `pending_`
counts the slots that are busy.  `SlotChanges` gives how both counts, of busy and of
failed slots, change with one slot, and `ExecsAreAdded` that the circular buffer of execs
never gets longer than it may.  As in the run, the timer is one that is slower than the
reference data; with a faster one the property does not hold.

### What a client says and what it gets

`MessagesMeant` (`[]MessagesAreMeant`) holds for any names, values and sizes of buffers, and
any pieces in which a request arrives and an answer is written and sent; of the urls it assumes
that they fit (`WebAssumption`), because with longer ones `IdsAreMeant` is violated, as the run
`http_head_long` shows.

`HeadInv` splits what the client sent at the place that was heard last: the headers before
it, and of the url, the name or the value there the part that the parser has called back
for.  It says for each of these places what `HttpRequest` holds and what the parser
called back for last; in particular that a name is not taken for the continuation of the one
before, because there is a value between them, be it empty (`last # "field"`).  Its steps rest on
`AppendedTwice`, that a buffer which is filled piece by piece keeps what it would of the whole;
`TargetOfCut`, that a name that was cut to the buffer is not taken for one that is looked for;
and `SentAppended`, what one more header adds to what was sent.

`AnswerInv` says that what waits is in the memory unit for unit (`HasAt`), that behind it is as
much of an answer as has been written, all but its length (`HasBegun`), and that the memory is
bounded as long as what was consumed is near its front (`Bounded`).  The last is what makes
`MemoryIsBounded` inductive: the memory grows only for what is written behind `wpos`, and
`consume` moves what waits to the front as soon as half of the memory is behind `rpos`
(`RoomIsBounded`, `ConsumeKeeps`).

`DaysAreOfTheirTimes` is `DayIsOfTime` for every time zone, length of a day and time but 0,
which an empty entry of the cache has.

### What is only model-checked

* Liveness (the temporal properties of `Progress.cfg`), and with it fairness and `ENABLED`: out of the
  prover's reach.
* What a recursive definition computes for every input, by induction over data:
  the prover cannot instantiate the library's induction theorems.  Where a proof about the
  engine needed it, an operator was written as a recursive function and the
  induction done over a set of numbers (`NumberInduction`) or over the subsets of a
  finite set (`FiniteInduction`), both of which `OrderBookProofs` proves; `SysProofs` and
  `WebProofs` have the first for loops of their own.
* `Journal` across restarts, and `TradesAreJournalled` and `HistoryIsNewestFirst` in the
  first life, too: what the tables hold of trades and positions is a sum over rows.
* Above the engine, `RestBody`, `Fix` and `Dates`.

## Not modelled

Most lines of the repository are declarations, accessors, wrappers of types and of
system calls, formatting, tests and third-party code, which keep no state that a
property could be about.  What is left out in particular:

* Formatting: JSON, DSV, logs, pages, and what `RestApp` writes of what it finds.
  The parsers of HTTP and of URLs (`contrib/http_parser.c`) are third-party; what
  they call is modelled.
* System-call wrappers of `swirly/sys` (sockets, files, addresses, daemonising,
  the pid file), which have no state of their own.
* The configuration of the daemon.  A `mem_size` of 4096 MiB or more is truncated to
  32 bits there; `MemPool` assumes one that fits.
* Of `RestServ`, the exceptions that are none of its own are one status (500) that any call
  of `RestApp` may end with; what a header says that is not a number is left out.
* `Response`, which reports the outcome of a call.
* `expire_end_of_day`, `settl_end_of_day` and the two bulk cancels, which are
  empty in the code (`App.cpp:391`, `App.cpp:472`).
* The MySQL twins of the journal and the model, which follow the SQLite ones
  statement by statement.
* Dates that are none, as 20140231: the code takes them for another day, and
  nothing says what it should do.
* Containers and conversions of `swirly/util` other than dates; conversions between
  lots, ticks and prices in floating point (`fin/Conv`).
* `TcpConnector`, which no part of the daemon uses (its `connect` is `noexcept` and
  may throw), histograms (`swirly/prof`), windows and views of the user interface,
  benchmarks, examples and system tests.

## Plan

What is left is to prove more of what is checked:

1. `Journal`: `TradesAreJournalled` and `HistoryIsNewestFirst` before the first restart,
   and `OrdersSurvive` after it.  The latter needs an invariant of the engine that is weaker
   than `EngineInv`, without `NotCrossed`.
2. The grammar of bodies: `BodiesAreMeant`.
3. `ConversionsAgree` for `Fix`, which writes and reads numbers to any base.
