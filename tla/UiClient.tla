------------------------------- MODULE UiClient -------------------------------
(***************************************************************************)
(* The client of the user interface: HttpClient and its tables             *)
(* (src/src/swirlyui).                                                     *)
(*                                                                         *)
(* Requests go out over several connections at once: the server may handle *)
(* them, and the replies come, in any order.  Of the tables that are marked *)
(* and swept only that of the orders is here, the others work alike; the   *)
(* table of execs is a circular buffer that is never swept.  Of the server *)
(* there are the open orders of the user's account and the number of its   *)
(* execs: the first exec of an order stands for its id, the last one for   *)
(* its contents.                                                           *)
(***************************************************************************)
EXTENDS Integers, Sequences, FiniteSets, SequencesExt, Functions

CONSTANTS
    MaxExecs,       \* execs asked for and shown
    MaxRequests,    \* bound on the requests under way
    MaxAsks,        \* bound on what the user asks for
    MaxFills,       \* bound on fills of orders that have been in the book
    MaxFaults,      \* bound on requests that fail without a status
    Hasty           \* whether the timer may fire before the reference data is there

UiClientAssumption ==
    /\ {MaxExecs, MaxRequests} \subseteq Nat \ {0}
    /\ {MaxAsks, MaxFills, MaxFaults} \subseteq Nat
    /\ Hasty \in BOOLEAN

VARIABLES
    orders,     \* of the server: order -> its last exec
    nexecs,     \* of the server: number of execs, which are numbered
    net,        \* slot -> request or reply under way
    pending, errors, instrs,    \* pending_, errors_; whether the instruments are known
    rows,       \* order -> [exec, marked: its tag is tag_, known: its instrument is]
    execs,      \* rows of the execs, newest first
    asks, fills, faults         \* counted for the bounds

server == <<orders, nexecs>>
client == <<pending, errors, instrs, rows, execs>>
counts == <<asks, fills, faults>>
vars == <<orders, nexecs, net, pending, errors, instrs, rows, execs, asks, fills, faults>>

Free == [kind |-> "free"]
Empty == [i \in {} |-> 0]
Without(f, id) == Restrict(f, DOMAIN f \ {id})
With(f, id, v) == [i \in DOMAIN f \union {id} |-> IF i = id THEN v ELSE f[i]]

Slots == 1..MaxRequests
FreeSlots == {s \in Slots : net[s] = Free}
Send(request) ==
    LET s == CHOOSE s \in FreeSlots : \A t \in FreeSlots : s =< t
    IN net' = [net EXCEPT ![s] = request]

Init ==
    /\ orders = Empty /\ nexecs = 0
    /\ net = [s \in Slots |-> IF s = 1 THEN [kind |-> "GetRefData"] ELSE Free]
    /\ pending = 1 /\ errors = 0 /\ instrs = FALSE
    /\ rows = Empty /\ execs = <<>>
    /\ asks = 0 /\ fills = 0 /\ faults = 0

-----------------------------------------------------------------------------
(* The server *)

\* The newest execs, newest first.
Newest == [i \in 1..(IF nexecs < MaxExecs THEN nexecs ELSE MaxExecs) |-> nexecs + 1 - i]

\* Another account trades with an order.
Fill(id, done) ==
    /\ id \in DOMAIN orders /\ fills < MaxFills
    /\ fills' = fills + 1
    /\ nexecs' = nexecs + 1
    /\ orders' = IF done THEN Without(orders, id) ELSE [orders EXCEPT ![id] = nexecs + 1]
    /\ UNCHANGED <<net, client, asks, faults>>

OrderReply(id, done) ==
    [kind |-> "OrderReply", id |-> id, exec |-> nexecs + 1, done |-> done]

Handle(s) ==
    /\ \/ /\ net[s].kind = "GetRefData"
          /\ net' = [net EXCEPT ![s] = [kind |-> "RefDataReply"]]
          /\ UNCHANGED server
       \/ /\ net[s].kind = "GetSess"
          /\ net' = [net EXCEPT ![s] =
                [kind |-> "SessReply", orders |-> orders, execs |-> Newest]]
          /\ UNCHANGED server
       \/ /\ net[s].kind = "PostOrder"
          /\ net' = [net EXCEPT ![s] = OrderReply(nexecs + 1, FALSE)]
          /\ orders' = With(orders, nexecs + 1, nexecs + 1)
          /\ nexecs' = nexecs + 1
       \/ /\ net[s].kind = "PutOrder" /\ net[s].id \in DOMAIN orders
          /\ net' = [net EXCEPT ![s] = OrderReply(net[s].id, TRUE)]
          /\ orders' = Without(orders, net[s].id)
          /\ nexecs' = nexecs + 1
       \/ /\ net[s].kind = "PutOrder" /\ net[s].id \notin DOMAIN orders
          /\ net' = [net EXCEPT ![s] = [kind |-> "Refusal"]]
          /\ UNCHANGED server
    /\ UNCHANGED <<client, counts>>

\* A connection breaks, before or after the request has been handled.
Fail(s) ==
    /\ net[s].kind \notin {"free", "Failure"} /\ faults < MaxFaults
    /\ faults' = faults + 1
    /\ net' = [net EXCEPT ![s] = [kind |-> "Failure"]]
    /\ UNCHANGED <<server, client, asks, fills>>

-----------------------------------------------------------------------------
(* The tables *)

\* Faulty: the tag is not a new one.
NewTagKept(table) == table

\* ++tag_: no row has the tag that comes next.
NewTag(table) == [i \in DOMAIN table |-> [table[i] EXCEPT !.marked = FALSE]]

\* update_row: a row whose value is not modified keeps it, its instrument included.
UpdateRow(table, id, exec) ==
    IF id \in DOMAIN table /\ table[id].exec = exec
    THEN [table EXCEPT ![id].marked = TRUE]
    ELSE With(table, id, [exec |-> exec, marked |-> TRUE, known |-> instrs])

Sweep(table) == Restrict(table, {i \in DOMAIN table : table[i].marked})

\* ExecModel::update_row.
UpdateExec(table, e) ==
    IF e \in ToSet(table) THEN table
    ELSE <<e>> \o (IF Len(table) = MaxExecs THEN Front(table) ELSE table)

\* The oldest of several is the first to come.
UpdateExecs(table, es) ==
    LET f[i \in 0..Len(es)] == IF i = 0 THEN table ELSE UpdateExec(f[i - 1], es[Len(es) + 1 - i])
    IN f[Len(es)]

-----------------------------------------------------------------------------
(* What the client does *)

\* Faulty: replies from before may still come.
RecoverEarly ==
    /\ errors > 0 /\ FreeSlots # {}
    /\ errors' = 0
    /\ instrs' = FALSE /\ rows' = Empty /\ execs' = <<>>
    /\ Send([kind |-> "GetRefData"]) /\ pending' = pending + 1
    /\ UNCHANGED <<server, counts>>

\* The timer: a new start once all requests under way when one failed are over,
\* or the next poll.
Recover ==
    /\ errors > 0 /\ pending = 0
    /\ errors' = 0
    /\ instrs' = FALSE /\ rows' = Empty /\ execs' = <<>>
    /\ Send([kind |-> "GetRefData"]) /\ pending' = pending + 1
    /\ UNCHANGED <<server, counts>>

Poll ==
    /\ errors = 0 /\ FreeSlots # {} /\ (Hasty \/ instrs)
    /\ Send([kind |-> "GetSess"]) /\ pending' = pending + 1
    /\ UNCHANGED <<server, counts, errors, instrs, rows, execs>>

\* The user creates an order, which takes an instrument, or cancels one that is shown.
CreateOrder ==
    /\ instrs /\ FreeSlots # {} /\ asks < MaxAsks
    /\ Send([kind |-> "PostOrder"]) /\ pending' = pending + 1
    /\ asks' = asks + 1
    /\ UNCHANGED <<server, errors, instrs, rows, execs, fills, faults>>

CancelOrder(id) ==
    /\ id \in DOMAIN rows /\ FreeSlots # {} /\ asks < MaxAsks
    /\ Send([kind |-> "PutOrder", id |-> id]) /\ pending' = pending + 1
    /\ asks' = asks + 1
    /\ UNCHANGED <<server, errors, instrs, rows, execs, fills, faults>>

\* slot_finished.  The reply to the reference data is followed by a poll.
FinishRefData(s) ==
    /\ net[s].kind = "RefDataReply"
    /\ instrs' = TRUE
    /\ rows' = NewTag(rows)
    /\ net' = [net EXCEPT ![s] = [kind |-> "GetSess"]]
    /\ UNCHANGED <<server, counts, pending, errors, execs>>

FinishSess(s) ==
    /\ net[s].kind = "SessReply"
    /\ LET r == net[s]
       IN /\ rows' = Sweep([i \in DOMAIN rows \union DOMAIN r.orders |->
                 IF i \in DOMAIN r.orders THEN UpdateRow(NewTag(rows), i, r.orders[i])[i]
                 ELSE NewTag(rows)[i]])
          /\ execs' = UpdateExecs(execs, r.execs)
    /\ net' = [net EXCEPT ![s] = Free]
    /\ pending' = pending - 1
    /\ UNCHANGED <<server, counts, errors, instrs>>

FinishOrder(s) ==
    /\ net[s].kind = "OrderReply"
    /\ rows' = IF net[s].done THEN Without(rows, net[s].id)
               ELSE UpdateRow(rows, net[s].id, net[s].exec)
    /\ execs' = UpdateExec(execs, net[s].exec)
    /\ net' = [net EXCEPT ![s] = Free]
    /\ pending' = pending - 1
    /\ UNCHANGED <<server, counts, errors, instrs>>

\* An error with a status is only shown.
FinishError(s) ==
    /\ net[s].kind \in {"Refusal", "Failure"}
    /\ errors' = IF net[s].kind = "Failure" THEN errors + 1 ELSE errors
    /\ net' = [net EXCEPT ![s] = Free]
    /\ pending' = pending - 1
    /\ UNCHANGED <<server, counts, instrs, rows, execs>>

Finish(s) == FinishRefData(s) \/ FinishSess(s) \/ FinishOrder(s) \/ FinishError(s)

Next ==
    \/ CreateOrder
    \/ \E id \in 1..nexecs : CancelOrder(id)
    \/ \E id \in 1..nexecs, done \in BOOLEAN : Fill(id, done)
    \/ \E s \in Slots : Handle(s) \/ Fail(s) \/ Finish(s)
    \/ Recover \/ Poll

Spec == Init /\ [][Next]_vars

\* The timer ticks for ever, and every request ends, if only with an error.
Fairness ==
    /\ WF_vars(Recover) /\ WF_vars(Poll)
    /\ \A s \in Slots : WF_vars(Handle(s)) /\ WF_vars(Finish(s))

FairSpec == Spec /\ Fairness

-----------------------------------------------------------------------------

\* The type invariant: pending_ counts the requests that have no reply yet.
TypeOK ==
    /\ pending = Cardinality(Slots \ FreeSlots)
    /\ errors \in 0..MaxFaults
    /\ instrs \in BOOLEAN
    /\ \A id \in DOMAIN rows : id \in 1..nexecs /\ rows[id].exec \in id..nexecs
    /\ Len(execs) =< MaxExecs /\ ToSet(execs) \subseteq 1..nexecs

\* Every row knows its instrument, provided the timer does not fire before the
\* reference data is there: a row that is made without one keeps it until the
\* order changes.
RowsHaveInstr == Hasty \/ \A id \in DOMAIN rows : rows[id].known

\* However replies overtake each other and requests fail, once the book is quiet
\* the orders that are shown become, and stay, those that are open.
OrdersCatchUp == <>[]([id \in DOMAIN rows |-> rows[id].exec] = orders)

\* The same for the execs, as a set: their order is that in which replies came.
ExecsCatchUp == <>[](ToSet(execs) = ToSet(Newest))

\* A failure is got over: requests under way end, and all is asked for again.
Recovers == errors > 0 ~> errors = 0
=============================================================================
