------------------------------- MODULE HttpSess ------------------------------
(***************************************************************************)
(* One connection of the HTTP server (src/src/swirlyd/HttpSess.cpp) and    *)
(* its client.                                                             *)
(*                                                                         *)
(* The client sends requests, each in two pieces (the headers, that say    *)
(* whether the connection is kept, and the rest), and may send the next    *)
(* before it has the answer to the last.  A session reads what is there,   *)
(* runs the parser over it, and buffers the answers, that it writes when   *)
(* the socket takes them; an answer is two units, for a write may take     *)
(* part of it.  The parser is strict: after a request that does not keep   *)
(* the connection it takes nothing more.                                   *)
(***************************************************************************)
EXTENDS Integers, Sequences, SequencesExt

CONSTANTS
    MaxRequests,    \* bound on the requests of the client
    Patient         \* the client sends a closing request alone, and sends and
                    \* closes nothing before it is answered

HttpSessAssumption ==
    /\ MaxRequests \in Nat
    /\ Patient \in BOOLEAN

VARIABLES
    sent,       \* the requests that the client began to send: TRUE if they are
                \* closing ones
    midway,     \* the client has sent the headers of its last request only
    wire,       \* pieces on their way; "eof" when the client has closed
    got,        \* units of answers the client has
    sess,       \* "open"; "closed" when deleted; "broken" when used after that;
                \* "killed" by SIGPIPE, with the process
    events,     \* what is left of the events of the call under way
    input,      \* what is left of the data that was read
    parser,     \* state of the parser
    keep,       \* http_should_keep_alive()
    interest,   \* events the session is subscribed to
    timer,      \* the idle timer is set
    handled,    \* number of requests the application has handled
    buf         \* buf_: units of answers

clientVars == <<sent, midway, got>>
callVars == <<events, input>>
parserVars == <<parser, keep, handled>>
vars == <<clientVars, wire, sess, callVars, parserVars, interest, timer, buf>>

Init ==
    /\ sent = <<>> /\ midway = FALSE /\ wire = <<>> /\ got = <<>>
    /\ sess = "open" /\ events = {} /\ input = <<>>
    /\ parser = "start" /\ keep = FALSE
    /\ interest = {"in"} /\ timer = TRUE
    /\ handled = 0 /\ buf = <<>>

\* Two units for each of the first n requests.
AnswersOf(n) == [i \in 1..2 * n |-> (i + 1) \div 2]
Answered == got = AnswersOf(Len(sent))

-----------------------------------------------------------------------------
(* The client *)

SendHead(closing) ==
    /\ ~midway /\ Len(sent) < MaxRequests
    /\ "eof" \notin ToSet(wire)
    /\ Patient => /\ closing => Answered
                  /\ \A i \in 1..Len(sent) : ~sent[i]
    /\ sent' = Append(sent, closing)
    /\ midway' = TRUE
    /\ wire' = Append(wire, IF closing THEN "close" ELSE "keep")
    /\ UNCHANGED <<got, sess, callVars, parserVars, interest, timer, buf>>

SendTail ==
    /\ midway
    /\ "eof" \notin ToSet(wire)
    /\ midway' = FALSE
    /\ wire' = Append(wire, "tail")
    /\ UNCHANGED <<sent, got, sess, callVars, parserVars, interest, timer, buf>>

\* Bytes that are no request, or a body that RestBody does not parse.
SendBad ==
    /\ ~Patient
    /\ {"bad", "eof"} \intersect ToSet(wire) = {}
    /\ wire' = Append(wire, "bad")
    /\ UNCHANGED <<clientVars, sess, callVars, parserVars, interest, timer, buf>>

Hangup ==
    /\ "eof" \notin ToSet(wire)
    /\ Patient => ~midway /\ Answered
    /\ wire' = Append(wire, "eof")
    /\ UNCHANGED <<clientVars, sess, callVars, parserVars, interest, timer, buf>>

-----------------------------------------------------------------------------
(* The session *)

\* close(): the object is deleted; a second call uses it after that.
Close ==
    /\ sess' = IF sess = "open" THEN "closed" ELSE "broken"
    /\ interest' = {}
    /\ timer' = FALSE

\* The reactor calls on_io_event() with events the session is subscribed to.
OnIoEvent(evs) ==
    /\ sess = "open" /\ events = {} /\ input = <<>>
    /\ evs # {} /\ evs \subseteq interest
    /\ "in" \in evs => wire # <<>>
    /\ events' = evs
    /\ UNCHANGED <<clientVars, wire, sess, input, parserVars, interest, timer, buf>>

\* After a write the call goes on with what it read, if that was an event.
Wrote(rest) ==
    /\ buf' = rest
    /\ events' = events \ {"out"}
    /\ UNCHANGED <<sent, midway, wire, input, parserVars>>

\* Some of the answers are written, but not all.
WriteSome ==
    /\ "out" \in events
    /\ \E n \in 0..Len(buf) - 1 :
        /\ got' = got \o SubSeq(buf, 1, n)
        /\ Wrote(SubSeq(buf, n + 1, Len(buf)))
    /\ UNCHANGED <<sess, interest, timer>>

\* All that was buffered is written, and the connection is kept.
WriteAll ==
    /\ "out" \in events
    /\ keep
    /\ got' = got \o buf
    /\ Wrote(<<>>)
    /\ interest' = {"in"}
    /\ UNCHANGED <<sess, timer>>

\* All that was buffered is written, and the parser says that the connection
\* is not kept.  The call goes on with the event to read, if there is one.
WriteAndClose ==
    /\ "out" \in events
    /\ ~keep
    /\ got' = got \o buf
    /\ Wrote(<<>>)
    /\ Close

\* Writing to a connection that the client has closed raises SIGPIPE, which is
\* neither blocked nor handled.
WriteToClosed ==
    /\ "out" \in events
    /\ "eof" \in ToSet(wire)
    /\ sess' = "killed"
    /\ events' = {}
    /\ UNCHANGED <<clientVars, wire, input, parserVars, interest, timer, buf>>

\* The socket is read; its end closes the session.
Read ==
    /\ events = {"in"} /\ sess = "open"
    /\ wire # <<>>
    /\ events' = {}
    /\ IF Head(wire) = "eof"
       THEN Close /\ UNCHANGED <<wire, input>>
       ELSE /\ \E n \in 1..Len(wire) :
                /\ wire[n] # "eof"
                /\ input' = SubSeq(wire, 1, n)
                /\ wire' = SubSeq(wire, n + 1, Len(wire))
            /\ UNCHANGED <<sess, interest, timer>>
    /\ UNCHANGED <<clientVars, parserVars, buf>>

\* The same for a session that has been closed by the write before: its socket
\* is closed as well, the error is caught, and the session closed again.
ReadClosed ==
    /\ events = {"in"} /\ sess = "closed"
    /\ events' = {}
    /\ Close
    /\ UNCHANGED <<clientVars, wire, input, parserVars, buf>>

\* parse() goes on.  At its end the idle timer is set anew.
Parsed ==
    /\ input' = Tail(input)
    /\ timer' = IF Len(input) = 1 THEN TRUE ELSE timer

ParseHead ==
    /\ input # <<>> /\ Head(input) \in {"keep", "close"}
    /\ parser = "start"
    /\ parser' = "body"
    /\ keep' = (Head(input) = "keep")
    /\ Parsed
    /\ UNCHANGED <<clientVars, wire, sess, events, handled, interest, buf>>

\* Faulty: whether the buffer was empty is looked at after the answer.
MessageEndLate ==
    /\ input # <<>> /\ Head(input) = "tail"
    /\ parser = "body"
    /\ parser' = IF keep THEN "start" ELSE "dead"
    /\ handled' = handled + 1
    /\ buf' = buf \o <<handled + 1, handled + 1>>
    /\ interest' = IF buf' = <<>> THEN {"in", "out"} ELSE interest
    /\ Parsed
    /\ UNCHANGED <<clientVars, wire, sess, events, keep>>

\* Faulty: the answer replaces what has not been written.
MessageEndReset ==
    /\ input # <<>> /\ Head(input) = "tail"
    /\ parser = "body"
    /\ parser' = IF keep THEN "start" ELSE "dead"
    /\ handled' = handled + 1
    /\ buf' = <<handled + 1, handled + 1>>
    /\ interest' = {"in", "out"}
    /\ Parsed
    /\ UNCHANGED <<clientVars, wire, sess, events, keep>>

\* on_message_end(): the request is handled and its answer buffered.
MessageEnd ==
    /\ input # <<>> /\ Head(input) = "tail"
    /\ parser = "body"
    /\ parser' = IF keep THEN "start" ELSE "dead"
    /\ handled' = handled + 1
    /\ buf' = buf \o <<handled + 1, handled + 1>>
    /\ interest' = IF buf = <<>> THEN {"in", "out"} ELSE interest
    /\ Parsed
    /\ UNCHANGED <<clientVars, wire, sess, events, keep>>

\* parse() throws: the request is bad, or the connection was to be closed.
\* Answers that have not been written are lost.
ParseFails ==
    /\ input # <<>>
    /\ Head(input) = "bad" \/ parser = "dead"
    /\ input' = <<>>
    /\ Close
    /\ UNCHANGED <<clientVars, wire, events, parserVars, buf>>

\* on_timer()
OnTimer ==
    /\ timer /\ events = {} /\ input = <<>>
    /\ sess \in {"open", "closed"}
    /\ Close
    /\ UNCHANGED <<clientVars, wire, callVars, parserVars, buf>>

-----------------------------------------------------------------------------

Handler ==
    \/ WriteSome \/ WriteAll \/ WriteAndClose \/ WriteToClosed
    \/ Read \/ ReadClosed
    \/ ParseHead \/ MessageEnd \/ ParseFails

Next ==
    \/ \E closing \in BOOLEAN : SendHead(closing)
    \/ SendTail \/ SendBad \/ Hangup
    \/ \E evs \in SUBSET {"in", "out"} : OnIoEvent(evs)
    \/ Handler
    \/ OnTimer

\* The reactor calls a session that is ready, which then runs to its end, and
\* the client takes what it is sent, all of it now and then.  Nothing makes the
\* client send anything, or the timer expire in time.
Fairness ==
    /\ WF_vars(\E evs \in SUBSET {"in", "out"} : "in" \in evs /\ OnIoEvent(evs))
    /\ SF_vars(OnIoEvent({"out"}) \/ OnIoEvent({"in", "out"}))
    /\ WF_vars(Handler)
    /\ SF_vars(WriteAll \/ WriteAndClose)

Spec == Init /\ [][Next]_vars /\ Fairness

-----------------------------------------------------------------------------

\* The type invariant.
TypeOK ==
    /\ sent \in Seq(BOOLEAN) /\ Len(sent) =< MaxRequests
    /\ midway \in BOOLEAN
    /\ wire \in Seq({"keep", "close", "tail", "bad", "eof"})
    /\ got \in Seq(1..MaxRequests) /\ buf \in Seq(1..MaxRequests)
    /\ sess \in {"open", "closed", "broken", "killed"}
    /\ events \subseteq {"in", "out"}
    /\ input \in Seq({"keep", "close", "tail", "bad"})
    /\ parser \in {"start", "body", "dead"} /\ keep \in BOOLEAN
    /\ interest \subseteq {"in", "out"}
    /\ timer \in BOOLEAN
    /\ handled \in 0..MaxRequests

\* What the client gets are the answers to its requests, in their order, each
\* once, and nothing is missing between what it has and what is buffered,
\* however requests and answers are cut up and overlap.
AnswersAreInOrder ==
    /\ handled =< Len(sent)
    /\ got \o buf = AnswersOf(handled)

\* on_message_end() asks for writing only if the buffer was empty, and
\* on_io_event() stops asking when it is: an open session waits for the socket
\* to take data if and only if it has some.
WaitsToWriteIfBuffered ==
    sess = "open" => ("out" \in interest <=> buf # <<>>)

\* A session deletes itself on four occasions: it is used no more after that,
\* neither by the rest of the call that closed it nor by its timer.
NotUsedAfterClose == sess # "broken"

\* Every request that was handled is answered, unless the session times out or
\* the client misbehaves or leaves.
HandledIsAnswered ==
    \A r \in 1..MaxRequests :
        handled >= r ~> (Len(got) >= 2 * r \/ sess # "open")
=============================================================================
