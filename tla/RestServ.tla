------------------------------- MODULE RestServ ------------------------------
(***************************************************************************)
(* REST requests: how HttpRequest collects one from what the parser finds, *)
(* and how RestServ turns it into a call of RestApp and a status           *)
(* (src/src/swirlyd/RestServ.cpp, src/src/swirly/web).                     *)
(*                                                                         *)
(* The parts of a request come one after the other, the body in fragments; *)
(* the same HttpRequest and the same RestServ, with their members, serve   *)
(* one request after the other.  Paths are sequences of tokens; the plural *)
(* of an entity is taken for its singular throughout.                      *)
(***************************************************************************)
EXTENDS Integers, Sequences, FiniteSets

CONSTANTS
    Paths,      \* of requests: tokens as the Tokeniser splits them
    Bodies,     \* sets of fields that come in one fragment
    MaxParts    \* bound on the fragments of a body

RestServAssumption ==
    /\ Paths \subseteq Seq(STRING)
    /\ \A b \in Bodies : IsFiniteSet(b)
    /\ MaxParts \in Nat

VARIABLES
    req,        \* req_ of the session: what has been collected
    sent,       \* what the client sent of the request so far (not in the code)
    parts,      \* fragments of the body so far
    ids,        \* ids_
    matchPath, matchMethod,
    last        \* outcome of the last request

vars == <<req, sent, parts, ids, matchPath, matchMethod, last>>

Methods == {"GET", "POST", "PUT", "DELETE"}
Perms == {"admin", "trade"}

Blank == [method |-> "GET", path |-> <<>>, accnt |-> FALSE, perm |-> {}, fields |-> {},
          partial |-> FALSE]
NoOp == [op |-> "none", ids |-> <<>>]
Unanswered == [status |-> 0, call |-> NoOp, cache |-> FALSE, req |-> Blank]

Init ==
    /\ req = Blank /\ sent = Blank /\ parts = 0
    /\ ids = <<>>
    /\ matchPath = FALSE /\ matchMethod = FALSE
    /\ last = Unanswered

-----------------------------------------------------------------------------
(* Routes.  A route is a function from the methods of a resource to the call  *)
(* of RestApp, with the permission and the fields that it needs; it is empty  *)
(* if there is no such resource.                                              *)

Op(op, perm, required, optional) ==
    [op |-> op, perm |-> perm, required |-> required, optional |-> optional]
\* What only reads does not look at the body.
AnyFields == UNION Bodies
Read(op, perm) == Op(op, perm, {}, AnyFields)
Query(op, perm) == [GET |-> Read(op, perm)]
NoRoute == <<>>

\* Fields that the path gives, from the instrument on.
Given(path) ==
    {f \in {"instr", "settl_date"} : Len(path) >= IF f = "instr" THEN 1 ELSE 2}

AssetRoute(path) == IF Len(path) =< 1 THEN Query("get_asset", "none") ELSE NoRoute
InstrRoute(path) == IF Len(path) =< 1 THEN Query("get_instr", "none") ELSE NoRoute
ExecRoute(path) == IF path = <<>> THEN Query("get_exec", "trade") ELSE NoRoute
PosnRoute(path) == IF Len(path) =< 2 THEN Query("get_posn", "trade") ELSE NoRoute

\* Faulty: the date is not required.
MarketRouteUndated(path) ==
    LET get == Read("get_market", "none")
        post == Op("post_market", "admin", {"instr"} \ Given(path), {"settl_date", "state"})
        put == Op("put_market", "admin", {"state"}, {})
    IN CASE Len(path) =< 1 -> [GET |-> get, POST |-> post]
         [] Len(path) = 2 -> [GET |-> get, POST |-> post, PUT |-> put]
         [] OTHER -> NoRoute

MarketRoute(path) ==
    LET get == Read("get_market", "none")
        post == Op("post_market", "admin", {"instr", "settl_date"} \ Given(path), {"state"})
        put == Op("put_market", "admin", {"state"}, {})
    IN CASE Len(path) =< 1 -> [GET |-> get, POST |-> post]
         [] Len(path) = 2 -> [GET |-> get, POST |-> post, PUT |-> put]
         [] OTHER -> NoRoute

OrderRoute(path) ==
    LET post == Op("post_order", "trade",
                   {"instr", "settl_date", "side", "lots", "ticks"} \ Given(path), {"ref", "min_lots"})
        put == Op("put_order", "trade", {"lots"}, {})
    IN CASE Len(path) =< 2 -> [GET |-> Read("get_order", "trade"), POST |-> post]
         [] Len(path) = 3 -> [GET |-> Read("get_order_id", "trade"), PUT |-> put]
         [] OTHER -> NoRoute

TradeRoute(path) ==
    LET post == Op("post_trade", "admin",
                   {"instr", "settl_date", "accnt", "side", "lots"} \ Given(path),
                   {"ref", "ticks", "liq_ind", "cpty"})
        delete == Op("delete_trade", "trade", {}, AnyFields)
    IN CASE Len(path) =< 2 -> [GET |-> Read("get_trade", "trade"), POST |-> post]
         [] Len(path) = 3 -> [GET |-> Read("get_trade_id", "trade"), DELETE |-> delete]
         [] OTHER -> NoRoute

\* "list" stands for a list of several entities, that only the collections have.
RefDataRoute(path) ==
    CASE path = <<>> \/ path = <<"list">> -> Query("get_ref_data", "none")
      [] path # <<>> /\ Head(path) = "asset" -> AssetRoute(Tail(path))
      [] path # <<>> /\ Head(path) = "instr" -> InstrRoute(Tail(path))
      [] OTHER -> NoRoute

SessRoute(path) ==
    CASE path = <<>> \/ path = <<"list">> -> Query("get_sess", "trade")
      [] path # <<>> /\ Head(path) = "market" -> MarketRoute(Tail(path))
      [] path # <<>> /\ Head(path) = "order" -> OrderRoute(Tail(path))
      [] path # <<>> /\ Head(path) = "exec" -> ExecRoute(Tail(path))
      [] path # <<>> /\ Head(path) = "trade" -> TradeRoute(Tail(path))
      [] path # <<>> /\ Head(path) = "posn" -> PosnRoute(Tail(path))
      [] OTHER -> NoRoute

Route(path) ==
    IF Len(path) < 2 \/ Head(path) # "api" THEN NoRoute
    ELSE CASE path[2] = "refdata" -> RefDataRoute(SubSeq(path, 3, Len(path)))
           [] path[2] = "sess" -> SessRoute(SubSeq(path, 3, Len(path)))
           [] path[2] = "market" -> MarketRoute(SubSeq(path, 3, Len(path)))
           [] OTHER -> NoRoute

\* ScopedIds: the ids of the last token of an order's or a trade's path.
ScopedIds(path) ==
    IF Len(path) = 6 /\ path[3] \in {"order", "trade"}
    THEN CASE path[6] = "id" -> <<1>>
           [] path[6] = "ids" -> <<1, 2>>
           [] path[6] = "" -> <<>>
           [] OTHER -> <<0>>
    ELSE <<>>

-----------------------------------------------------------------------------
(* Collecting a request *)

Begin(method, path) ==
    /\ sent.path = <<>>
    /\ req' = [req EXCEPT !.path = @ \o path, !.method = method]
    /\ sent' = [Blank EXCEPT !.path = path, !.method = method]
    /\ last' = Unanswered
    /\ UNCHANGED <<parts, ids, matchPath, matchMethod>>

\* The headers with the account and its permissions; each may be missing.
Headers(accnt, perm) ==
    /\ sent.path # <<>> /\ parts = 0
    /\ ~sent.accnt /\ sent.perm = {}
    /\ req' = [req EXCEPT !.accnt = @ \/ accnt, !.perm = @ \union perm]
    /\ sent' = [sent EXCEPT !.accnt = accnt, !.perm = perm]
    /\ UNCHANGED <<parts, ids, matchPath, matchMethod, last>>

\* A fragment of the body; RestBody says whether the object is complete.
Body(fields, complete) ==
    /\ sent.path # <<>> /\ parts < MaxParts
    /\ parts = 0 \/ req.partial
    /\ req' = [req EXCEPT !.fields = @ \union fields, !.partial = ~complete]
    /\ sent' = [sent EXCEPT !.fields = @ \union fields, !.partial = ~complete]
    /\ parts' = parts + 1
    /\ UNCHANGED <<ids, matchPath, matchMethod, last>>

\* clear()
Cleared(r) == Blank

-----------------------------------------------------------------------------
(* Answering it *)

\* reset(), before the request is looked at.
Reset(flag) == FALSE

\* The cache decision of reset(), which looks at the first token.
Cache(r) == r.method = "GET" /\ r.path # <<>> /\ Head(r.path) = "refdata"

\* The error that a matched request ends with before RestApp is called, or 0.
Refusal(r, op) ==
    IF op.perm # "none" /\ ~r.accnt THEN 401
    ELSE IF op.perm # "none" /\ op.perm \notin r.perm THEN 403
    ELSE IF ~(op.required \subseteq r.fields /\ r.fields \subseteq op.required \union op.optional)
    THEN 400
    ELSE 0

Done(r) == IF r.method = "DELETE" THEN 204 ELSE 200

\* The destructor of ScopedIds.
IdsAfter(scoped) == <<>>

\* RestApp does what it is called for, or refuses with 404 or 400, or the queue or
\* an allocation fails under it, which is 500.
AppStatus(r) == {Done(r), 404, 400, 500}

Answer(status, call) ==
    last' = [status |-> status, call |-> call, cache |-> Cache(req), req |-> sent]

\* handle_request()
Handle ==
    LET route == Route(req.path)
        path == Reset(matchPath) \/ (~req.partial /\ route # NoRoute)
        method == Reset(matchMethod) \/ (~req.partial /\ req.method \in DOMAIN route)
        scoped == ids \o ScopedIds(req.path)
    IN /\ sent.path # <<>>
       /\ matchPath' = path /\ matchMethod' = method
       /\ IF req.partial THEN Answer(400, NoOp) /\ UNCHANGED ids
          ELSE /\ ids' = IdsAfter(scoped)
               /\ IF req.method \in DOMAIN route
                  THEN LET op == route[req.method]
                       IN IF Refusal(req, op) # 0 THEN Answer(Refusal(req, op), NoOp)
                          ELSE \E status \in AppStatus(req) :
                              Answer(status, [op |-> op.op, ids |-> scoped])
                  ELSE Answer(IF ~path THEN 404 ELSE IF ~method THEN 405 ELSE Done(req), NoOp)
       /\ req' = Cleared(req) /\ sent' = Blank /\ parts' = 0

-----------------------------------------------------------------------------

Next ==
    \/ \E m \in Methods, p \in Paths : Begin(m, p)
    \/ \E accnt \in BOOLEAN, perm \in SUBSET Perms : Headers(accnt, perm)
    \/ \E b \in Bodies, complete \in BOOLEAN : Body(b, complete)
    \/ Handle

Spec == Init /\ [][Next]_vars

-----------------------------------------------------------------------------

Succeeded == last.status \in {200, 204}

\* The type invariant: ids_ is empty between two requests.
TypeOK ==
    /\ parts \in 0..MaxParts
    /\ req.method \in Methods /\ req.perm \subseteq Perms /\ req.fields \subseteq AnyFields
    /\ matchPath \in BOOLEAN /\ matchMethod \in BOOLEAN
    /\ ids = <<>>
    /\ last.status \in {0, 200, 204, 400, 401, 403, 404, 405, 500}

\* What was collected is what the client sent of this very request: nothing of
\* an earlier one, an account above all, is left for one that lacks it.
NothingOfEarlierRequests == req = sent

\* A request succeeds only if it has called RestApp; the flags and ids of the
\* RestServ that all requests share do not let one pass because another did,
\* and a call has the ids of its own path.
SuccessIsACall ==
    /\ Succeeded => last.call # NoOp
    /\ last.call # NoOp => last.call.ids = ScopedIds(last.req.path)

\* What changes markets or makes trades is for administrators, what reads a
\* session or changes its orders and trades is for its trader, by whatever path
\* the resource is reached; permissions without an account give no access.
CallsArePermitted ==
    LET op == last.call.op
        by == last.req
    IN /\ op \in {"post_market", "put_market", "post_trade"} => by.accnt /\ "admin" \in by.perm
       /\ op \in {"get_sess", "get_order", "get_order_id", "post_order", "put_order", "get_exec",
                  "get_trade", "get_trade_id", "delete_trade", "get_posn"} =>
            by.accnt /\ "trade" \in by.perm
       /\ by.method = "GET" => op \notin {"post_market", "put_market", "post_order", "put_order",
                                           "post_trade", "delete_trade"}

\* A command has all its arguments: what the path of the resource does not give
\* the body must.
CommandsAreComplete ==
    LET p == last.req.path
        first == IF last.call # NoOp /\ p[2] = "market" THEN 3 ELSE 4
        given == last.req.fields \union Given(SubSeq(p, first, Len(p)))
    IN /\ last.call.op \in {"post_market", "put_market"} => {"instr", "settl_date"} \subseteq given
       /\ last.call.op = "put_market" => "state" \in given
       /\ last.call.op = "post_order" => {"instr", "settl_date", "side", "lots", "ticks"} \subseteq given
       /\ last.call.op = "post_trade" => {"instr", "settl_date", "accnt", "side", "lots"} \subseteq given
       /\ last.call.op = "put_order" => "lots" \in given
=============================================================================
