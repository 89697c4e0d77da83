---------------------------- MODULE EnginePartsMC ----------------------------
(***************************************************************************)
(* Instances of Engine that reach further than one set of bounds could: in *)
(* each behaviour one part of what callers may do goes on, with bounds of  *)
(* its own.  The parts are steps of Engine and nothing else.               *)
(***************************************************************************)
EXTENDS EngineMC

CONSTANT Parts  \* those that are checked
ASSUME PartsAssumption == Parts \subseteq {"Book", "Sweep", "Manual", "Markets"}

VARIABLE part   \* the one that goes on

\* Engine with fewer ids.
Five == INSTANCE Engine WITH MaxId <- 5
Four == INSTANCE Engine WITH MaxId <- 4

\* A bound on the orders that are live between two operations.
LiveWithin(n) == \A m \in DOMAIN orders' : Cardinality(DOMAIN orders'[m]) =< n

\* All operations, also after failures that used ids up: a taker meets one maker.
Book == Five!Next

\* Two makers at any prices, of any accounts, and a taker that may sweep both,
\* which needs seven ids; revised and cancelled between, alone and in lists.  A
\* failure is the last step here.
Sweep ==
    /\ res = "ok"
    /\ \/ CreateMarket(1, 0)
       \/ \E a \in Accnts, m \in DOMAIN markets, ref \in Refs \union {NoRef},
             side \in Sides, lots \in 1..MaxLots, ticks \in 1..MaxTicks :
                CreateOrder(a, m, ref, side, lots, ticks, 1)
       \/ ChangeOrder
    /\ LiveWithin(2)

\* Manual trades at one price and matches at another, in one market, with and
\* without a counter-party, which may be the account itself.  A failure is the
\* last step here, too.
Manual ==
    /\ res = "ok"
    /\ \/ CreateMarket(1, 0)
       \/ \E a \in Accnts, m \in DOMAIN markets, side \in Sides :
            \/ Five!CreateOrder(a, m, NoRef, side, 1, 1, 1)
            \/ \E cpty \in Accnts \union {NoAccnt} :
                    Five!CreateTrade(a, m, side, 1, MaxTicks, cpty)
            \/ \E ids \in IdLists : ArchiveTrade(a, m, ids)
    /\ LiveWithin(1)

\* Two markets with orders of one lot: one reference per account for both, matches
\* in either, and one that settles.  The second one is left alone after two ids.
TwoMarketsAtOnce ==
    /\ res # "abort"
    /\ \/ \E m \in Markets : CreateMarket(m, 0)
       \/ \E a \in Accnts, m \in DOMAIN markets :
            /\ m = 1 \/ markets[m].maxId < 2
            /\ \/ \E ref \in Refs \union {NoRef}, side \in Sides :
                    Four!CreateOrder(a, m, ref, side, 1, 1, 1)
               \/ \E ids \in IdLists : Four!CancelOrder(a, m, ids)
       \/ \E a \in Accnts, ref \in Refs : Four!CancelOrderByRef(a, ref)
       \/ NextDay
    /\ LiveWithin(2)

PartsInit == Init /\ part \in Parts

PartsNext ==
    /\ UNCHANGED part
    /\ \/ part = "Book" /\ Book
       \/ part = "Sweep" /\ Sweep
       \/ part = "Manual" /\ Manual
       \/ part = "Markets" /\ TwoMarketsAtOnce

PartsSpec == PartsInit /\ [][PartsNext]_<<part, vars>>

\* As View, and without the history of execs, which no operation reads.
PartsView == <<part, View>>
BareView == <<part, day, markets, books, orders, sessOrders, refIdx, trades, posns, res>>
===============================================================================
