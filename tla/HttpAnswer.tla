------------------------------ MODULE HttpAnswer -------------------------------
(***************************************************************************)
(* How answers get from RestServ::handle_request to the socket: HttpStream *)
(* writes into the memory of a Buffer, behind the answers that are still   *)
(* to be sent, and knows the length of a body only at its end              *)
(* (web/Stream.cpp); the Buffer moves what is left to its front when       *)
(* enough was consumed (sys/Buffer.cpp).                                   *)
(*                                                                         *)
(* A header is three units: its status, a place-holder for the length of   *)
(* the body if there is one, and its end.                                  *)
(***************************************************************************)
EXTENDS Integers, Sequences, SequencesExt

CONSTANTS
    ShrinkThreshold,
    Chunks,         \* lengths of what is written to a body at once
    MaxBody,        \* bound on the length of a body
    MaxWaiting      \* bound on what is waiting when a request is handled

HttpAnswerAssumption ==
    {ShrinkThreshold, MaxBody, MaxWaiting} \subseteq Nat /\ Chunks \subseteq Nat \ {0}

VARIABLES
    mem, rpos, wpos,        \* Buffer: buf_, rpos_, wpos_
    pcount, cloff, hcount,  \* HttpStream and its HttpBuf
    request,                \* the one that is handled, or None
    meant                   \* what the client is to get yet (not in the code)
buffer == <<mem, rpos, wpos>>
stream == <<pcount, cloff, hcount>>
vars == <<buffer, stream, request, meant>>

None == 0
Ok == 11
NoContent == 12
Failed == 13
EndOfHeader == 14
Unset == 0
Byte == 15          \* of a body
WithBody(status) == status # NoContent

Init ==
    /\ mem = <<>> /\ rpos = 0 /\ wpos = 0
    /\ pcount = 0 /\ cloff = 0 /\ hcount = 0
    /\ request = None /\ meant = <<>>

\* Buffer::prepare: the memory, large enough for size more units after wpos.
Prepared(size) ==
    LET unused == Len(mem) - wpos
    IN  IF size > unused THEN mem \o [i \in 1..size - unused |-> Unset] ELSE mem

\* The memory m with the units s at the position p.
At(m, p, s) == [i \in 1..Len(m) |-> IF i \in p + 1..p + Len(s) THEN s[i - p] ELSE m[i]]

\* HttpStream::reset: the header replaces what was written so far.
Reset(status, body) ==
    LET s == (IF WithBody(status) THEN <<status, Unset, EndOfHeader>> ELSE <<status, EndOfHeader>>) \o body
        n == Len(s)
    IN  /\ mem' = At(Prepared(n), wpos, s)
        /\ pcount' = n
        /\ cloff' = IF WithBody(status) THEN 2 ELSE 0
        /\ hcount' = n - Len(body)

Handle(status) ==
    /\ request = None /\ Len(meant) =< MaxWaiting
    /\ request' = status
    /\ Reset(status, <<>>)
    /\ UNCHANGED <<rpos, wpos, meant>>

\* RestApp writes to the body: HttpBuf::xsputn.
Write(n) ==
    /\ request = Ok /\ pcount - hcount + n =< MaxBody
    /\ mem' = At(Prepared(pcount + n), wpos + pcount, [i \in 1..n |-> Byte])
    /\ pcount' = pcount + n
    /\ UNCHANGED <<rpos, wpos, cloff, hcount, request, meant>>

\* The request fails: an error is answered instead.
Fail ==
    /\ request \in {Ok, NoContent}
    /\ request' = Failed
    /\ Reset(Failed, <<Byte>>)
    /\ UNCHANGED <<rpos, wpos, meant>>

\* A whole answer.
Answer(status, n) ==
    IF WithBody(status) THEN <<status, n, EndOfHeader>> \o [i \in 1..n |-> Byte]
    ELSE <<status, EndOfHeader>>

\* HttpStream::commit: the length is put in its place.
Commit ==
    /\ request # None
    /\ request' = None
    /\ mem' = IF cloff > 0 THEN At(mem, wpos + cloff - 1, <<pcount - hcount>>) ELSE mem
    /\ wpos' = wpos + pcount
    /\ meant' = meant \o Answer(request, IF request = Failed THEN 1 ELSE pcount - hcount)
    /\ UNCHANGED <<rpos, stream>>

Shrinks(r) == r >= ShrinkThreshold /\ r >= Len(mem) \div 2

\* The socket takes n units: Buffer::consume.
Consume(n) ==
    /\ request = None
    /\ LET r == rpos + n
       IN  IF Shrinks(r)
           THEN mem' = At(mem, 0, SubSeq(mem, r + 1, wpos)) /\ rpos' = 0 /\ wpos' = wpos - r
           ELSE rpos' = r /\ UNCHANGED <<mem, wpos>>
    /\ meant' = SubSeq(meant, n + 1, Len(meant))
    /\ UNCHANGED <<stream, request>>

Next ==
    \/ Handle(Ok) \/ Handle(NoContent)
    \/ \E n \in Chunks : Write(n)
    \/ Fail \/ Commit
    \/ \E n \in 1..wpos - rpos : Consume(n)
Spec == Init /\ [][Next]_vars

-----------------------------------------------------------------------------

\* The type invariant.
TypeOK ==
    /\ rpos \in 0..wpos /\ wpos + (IF request = None THEN 0 ELSE pcount) =< Len(mem)
    /\ hcount \in 0..pcount /\ cloff \in 0..hcount

\* What waits in the buffer are the answers of the requests handled, whole and
\* each with the length of its body, less what was sent of them: whatever was
\* written for requests that failed, and wherever the memory was moved.
AnswersAreWhole == SubSeq(mem, rpos + 1, wpos) = meant

\* The memory is in proportion to what it ever held at a time, however long the
\* connection lasts and though the buffer is never empty.
MemoryIsBounded == Len(mem) =< ShrinkThreshold + 2 * (MaxWaiting + 3 + MaxBody)
===============================================================================
