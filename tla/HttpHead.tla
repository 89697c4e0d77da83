------------------------------- MODULE HttpHead -------------------------------
(***************************************************************************)
(* How the head of a request gets into HttpRequest: the third-party parser *)
(* calls back for the url and for the name and the value of each header,   *)
(* with whatever piece of them has arrived, empty ones included;           *)
(* BasicHttpParser tells the first piece from later ones (web/Parser.hpp), *)
(* and HttpRequest appends them to strings of limited size                 *)
(* (web/Request.hpp).                                                      *)
(*                                                                         *)
(* A character is a number.  Of the url there is its list of ids, of a     *)
(* digit or more with commas in between.                                   *)
(***************************************************************************)
EXTENDS Integers, Sequences

CONSTANTS
    Urls, Names, Values,        \* of requests
    AccntName, PermName,        \* the headers that are looked for
    MaxUrl, MaxField, MaxValue, \* sizes of the buffers
    MaxHeaders                  \* bound on the headers of a request

Comma == 0

HttpHeadAssumption ==
    /\ {MaxUrl, MaxField, MaxValue, MaxHeaders} \subseteq Nat
    /\ Urls \union Names \union Values \subseteq Seq(Nat)
    /\ {AccntName, PermName} \subseteq Names /\ AccntName # PermName
    /\ Len(AccntName) < MaxField /\ Len(PermName) < MaxField

VARIABLES
    url, headers,   \* what the client sent of the request (not in the code)
    elem, rest,     \* the element that is parsed, and what is left of it
    begun,          \* whether the parser has called back for it
    last,           \* last_header_elem_
    req             \* HttpRequest
vars == <<url, headers, elem, rest, begun, last, req>>

Blank == [url |-> <<>>, field |-> <<>>, value |-> "none", accnt |-> <<>>, perm |-> <<>>]

Init ==
    /\ url = <<>> /\ headers = <<>> /\ elem = "end" /\ rest = <<>> /\ begun = TRUE
    /\ last = "none" /\ req = Blank

\* assign of a StringBuf of size n.
Truncate(s, n) == IF Len(s) > n THEN SubSeq(s, 1, n) ELSE s

\* append.
Appended(s, piece, n) == Truncate(s \o piece, n)

\* The parser begins with an element.
Begin(e, s) == elem' = e /\ rest' = s /\ begun' = FALSE
Ended(e) == elem = e /\ rest = <<>> /\ begun

\* Faulty: the url is kept for the next request.
ClearedButUrl == [Blank EXCEPT !.url = req.url]

\* HttpRequest::clear.
Cleared == Blank

\* The client begins a request; the session has cleared its own at the end of
\* the last one.
Request ==
    /\ elem = "end"
    /\ \E u \in Urls : url' = u /\ Begin("url", u)
    /\ headers' = <<>>
    /\ req' = Cleared
    /\ UNCHANGED last

Name ==
    /\ Ended("url") \/ Ended("value")
    /\ Len(headers) < MaxHeaders
    /\ \E n \in Names : headers' = Append(headers, [name |-> n, value |-> <<>>]) /\ Begin("field", n)
    /\ UNCHANGED <<url, last, req>>

Value ==
    /\ Ended("field")
    /\ \E v \in Values :
        headers' = [headers EXCEPT ![Len(headers)].value = v] /\ Begin("value", v)
    /\ UNCHANGED <<url, last, req>>

\* The request is complete, and handled.
End ==
    /\ Ended("url") \/ Ended("value")
    /\ elem' = "end"
    /\ UNCHANGED <<url, headers, rest, begun, last, req>>

\* A piece of the element arrives.
Piece(e, n) ==
    /\ elem = e
    /\ rest' = SubSeq(rest, n + 1, Len(rest)) /\ begun' = TRUE
    /\ UNCHANGED <<url, headers, elem>>

OnUrl(n) ==
    /\ Piece("url", n)
    /\ req' = [req EXCEPT !.url = Appended(@, Truncate(rest, n), MaxUrl)]
    /\ UNCHANGED last

\* append_header_field.
Field(piece, first) == Appended(IF first THEN <<>> ELSE req.field, piece, MaxField)

OnHeaderField(n) ==
    /\ Piece("field", n)
    /\ req' = [req EXCEPT !.field = Field(Truncate(rest, n), last # "field")]
    /\ last' = "field"

\* The member that takes the value of a header.
Target(field) ==
    CASE field = AccntName -> "accnt"
      [] field = PermName -> "perm"
      [] OTHER -> "none"

\* append_header_value.
OnHeaderValue(n) ==
    /\ Piece("value", n)
    /\ LET v == IF last # "value" THEN Target(req.field) ELSE req.value
           piece == Truncate(rest, n)
       IN  req' = [req EXCEPT !.value = v,
                    !.accnt = IF v = "accnt" THEN Appended(@, piece, MaxValue) ELSE @,
                    !.perm = IF v = "perm" THEN Appended(@, piece, MaxValue) ELSE @]
    /\ last' = "value"

Callback == \E n \in 0..Len(rest) : OnUrl(n) \/ OnHeaderField(n) \/ OnHeaderValue(n)

Next == Request \/ Name \/ Value \/ End \/ Callback
Spec == Init /\ [][Next]_vars

-----------------------------------------------------------------------------

\* The type invariant.
TypeOK ==
    /\ elem \in {"end", "url", "field", "value"} /\ begun \in BOOLEAN
    /\ last \in {"none", "field", "value"}
    /\ Len(req.url) =< MaxUrl /\ Len(req.field) =< MaxField
    /\ Len(req.accnt) =< MaxValue /\ Len(req.perm) =< MaxValue
    /\ req.value \in {"none", "accnt", "perm"}

\* The values of the headers of a name, one after the other.
Sent(hs, name) ==
    LET f[i \in 0..Len(hs)] ==
            IF i = 0 THEN <<>>
            ELSE f[i - 1] \o (IF hs[i].name = name THEN hs[i].value ELSE <<>>)
    IN  f[Len(hs)]

\* However the head was cut, a complete request has the account and the
\* permissions that its headers give, one after the other if they come more
\* than once, and nothing of other headers or of earlier requests.
HeadersAreMeant ==
    elem = "end" =>
        /\ req.accnt = Truncate(Sent(headers, AccntName), MaxValue)
        /\ req.perm = Truncate(Sent(headers, PermName), MaxValue)

\* The ids of a list, as sequences of digits.
IdsOf(u) ==
    LET commas == {0, Len(u) + 1} \union {i \in 1..Len(u) : u[i] = Comma}
    IN  {SubSeq(u, p[1] + 1, p[2] - 1) : p \in
            {p \in commas \X commas : p[1] < p[2] /\ commas \cap (p[1] + 1)..(p[2] - 1) = {}}}

\* "PUT /api/sess/order/INSTR/SETTL_DATE/ID,ID..." (RestServ.cpp:590): a request
\* for a list of orders is about the orders it lists.
IdsAreMeant == elem = "end" => IdsOf(req.url) \subseteq IdsOf(url)
===============================================================================
