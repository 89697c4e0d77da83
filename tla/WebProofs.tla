------------------------------ MODULE WebProofs -------------------------------
(***************************************************************************)
(* The HTTP session (HttpSess) with a client that waits for its answers,   *)
(* for every bound on the number of requests; what is done with a          *)
(* request (RestServ), for all paths and bodies; the client of the user    *)
(* interface (UiClient), for all bounds on what it has and asks for; how   *)
(* answers get to the socket (HttpAnswer) and how a request is kept        *)
(* (HttpHead), for all sizes, pieces and headers; the business day.        *)
(***************************************************************************)
EXTENDS WebMC, FiniteSetTheorems, SequenceTheorems, WellFoundedInduction, TLAPS

-----------------------------------------------------------------------------
(* The session.  What the client sends is a stream of pieces, two for each   *)
(* request, that the parser takes one after the other.                       *)

\* Pieces that the client sent, and those that the parser took.
Total == 2 * Len(requests) - (IF midway THEN 1 ELSE 0)
Taken == 2 * handled + (IF parser = "body" THEN 1 ELSE 0)

\* The piece at a place of the stream.
IsPiece(x, k, reqs) ==
    \/ \E r \in 1..Len(reqs) : k = 2 * r - 1 /\ x = IF reqs[r] THEN "close" ELSE "keep"
    \/ \E r \in 1..Len(reqs) : k = 2 * r /\ x = "tail"

\* What was read and what is on its way is the rest of the stream; the client hangs
\* up after it, when it has all its answers.
StreamIsWhole ==
    /\ \A i \in 1..Len(input) : IsPiece(input[i], Taken + i, requests)
    /\ \A i \in 1..Len(wire) :
        IF Taken + Len(input) + i =< Total
        THEN IsPiece(wire[i], Taken + Len(input) + i, requests)
        ELSE wire[i] = "eof"
    /\ Taken + Len(input) =< Total
    /\ \/ Taken + Len(input) + Len(wire) = Total
       \/ /\ Taken + Len(input) + Len(wire) = Total + 1
          /\ ~midway
          /\ Len(answers) = 2 * Len(requests)

\* A closing request is the last, and sent when the others are answered.
ClosingIsAlone ==
    \A r \in 1..Len(requests) :
        requests[r] => r = Len(requests) /\ Len(answers) >= 2 * (r - 1)

\* The parser has the flag of the request that it is in, or that it took last.
ParserFollows ==
    /\ parser = "body" => handled < Len(requests) /\ keep = ~requests[handled + 1]
    /\ parser # "body" /\ handled > 0 => keep = ~requests[handled]
    /\ parser = "dead" => handled > 0 /\ ~keep
    /\ parser = "start" /\ handled > 0 => keep

\* A call is of an open session and writes before it reads, and reads before it parses.
CallsAreInOrder ==
    /\ sess \in {"open", "closed"}
    /\ events # {} => sess = "open" /\ input = <<>>
    /\ "out" \in events => buf # <<>>
    /\ "in" \in events => wire # <<>>
    /\ input # <<>> => sess = "open"
    /\ timer => sess = "open"
    /\ sess = "open" => ("out" \in interest <=> buf # <<>>)

SessInv ==
    /\ Sess!TypeOK
    /\ handled =< Len(requests) /\ answers \o buf = Sess!AnswersOf(handled)
    /\ StreamIsWhole /\ ClosingIsAlone /\ ParserFollows /\ CallsAreInOrder


-----------------------------------------------------------------------------

\* A front and a back make up the whole.
LEMMA Join ==
    ASSUME NEW S, NEW t \in Seq(S), NEW n \in 0..Len(t),
           NEW front \in Seq(S), NEW back \in Seq(S),
           Len(front) = n, Len(back) = Len(t) - n,
           \A i \in 1..n : front[i] = t[i],
           \A i \in 1..Len(t) - n : back[i] = t[n + i]
    PROVE  front \o back = t
<1>1. front \o back \in Seq(S) /\ Len(front \o back) = Len(front) + Len(back)
    BY ConcatProperties
<1>2. Len(t) \in Nat /\ n \in Nat
    OBVIOUS
<1>3. Len(front \o back) = Len(t)
    BY <1>1, <1>2
<1>4. ASSUME NEW i \in 1..Len(t)
      PROVE  (front \o back)[i] = t[i]
    <2>1. CASE i <= n
        BY <2>1
    <2>2. CASE i > n
        <3>1. (front \o back)[i] = back[i - n]
            BY <2>2
        <3>2. i - n \in 1..Len(t) - n
            BY <2>2
        <3> QED
            BY <3>1, <3>2
    <2> QED
        BY <2>1, <2>2
<1> QED
    BY <1>1, <1>3, <1>4, SeqEqual

\* What was written and what is left of it.
LEMMA Regroup ==
    ASSUME NEW S, NEW t \in Seq(S), NEW n \in 0..Len(t)
    PROVE  /\ SubSeq(t, 1, n) \in Seq(S) /\ Len(SubSeq(t, 1, n)) = n
           /\ SubSeq(t, n + 1, Len(t)) \in Seq(S) /\ Len(SubSeq(t, n + 1, Len(t))) = Len(t) - n
           /\ \A i \in 1..n : SubSeq(t, 1, n)[i] = t[i]
           /\ \A i \in 1..Len(t) - n : SubSeq(t, n + 1, Len(t))[i] = t[n + i]
    OBVIOUS

\* They are what was buffered.
LEMMA AllInAll ==
    ASSUME NEW S, NEW s \in Seq(S), NEW t \in Seq(S), NEW n \in 0..Len(t)
    PROVE  (s \o SubSeq(t, 1, n)) \o SubSeq(t, n + 1, Len(t)) = s \o t
<1> DEFINE front == SubSeq(t, 1, n)
           back == SubSeq(t, n + 1, Len(t))
<1>1. /\ front \in Seq(S) /\ Len(front) = n
      /\ back \in Seq(S) /\ Len(back) = Len(t) - n
      /\ \A i \in 1..n : front[i] = t[i]
      /\ \A i \in 1..Len(t) - n : back[i] = t[n + i]
    BY Regroup
<1> HIDE DEF front, back
<1>2. front \o back = t
    BY <1>1, Join
<1>3. (s \o front) \o back = s \o (front \o back)
    BY <1>1, ConcatAssociative, SMTT(30)
<1> QED
    BY <1>2, <1>3 DEF front, back

\* The answers to n requests are two units each.
LEMMA AnswersSize ==
    ASSUME NEW n \in Nat
    PROVE  /\ Sess!AnswersOf(n) \in Seq(Nat) /\ Len(Sess!AnswersOf(n)) = 2 * n
           /\ \A i \in 1..2 * n : Sess!AnswersOf(n)[i] = (i + 1) \div 2
    BY DEF Sess!AnswersOf

\* Two more units come after those that are there.
LEMMA TwoMore ==
    ASSUME NEW n \in Nat, NEW all \in Seq(Nat), NEW more \in Seq(Nat),
           Len(all) = 2 * n, \A i \in 1..2 * n : all[i] = (i + 1) \div 2,
           Len(more) = 2, more[1] = n + 1, more[2] = n + 1
    PROVE  all \o more = Sess!AnswersOf(n + 1)
<1>1. PICK m \in Nat : m = n + 1
    OBVIOUS
<1>2. /\ Sess!AnswersOf(m) \in Seq(Nat) /\ Len(Sess!AnswersOf(m)) = 2 * m
      /\ \A i \in 1..2 * m : Sess!AnswersOf(m)[i] = (i + 1) \div 2
    BY AnswersSize
<1>3. all \o more \in Seq(Nat) /\ Len(all \o more) = Len(all) + Len(more)
    BY ConcatProperties
<1>4. Len(all \o more) = 2 * m
    BY <1>1, <1>3
<1>7. \A i \in 1..2 * n + 2 :
        (all \o more)[i] = IF i <= 2 * n THEN all[i] ELSE more[i - 2 * n]
    <2>1. \A i \in 1..Len(all) + Len(more) :
            (all \o more)[i] = IF i <= Len(all) THEN all[i] ELSE more[i - Len(all)]
        BY ConcatProperties
    <2> QED
        BY <2>1
<1>5. ASSUME NEW i \in 1..2 * m
      PROVE  (all \o more)[i] = (i + 1) \div 2
    <2>1. CASE i =< 2 * n
        BY <1>1, <2>1
    <2>2. CASE i = 2 * n + 1
        <3>3. i \in 1..2 * n + 2 /\ ~(i <= 2 * n) /\ i - 2 * n = 1
            BY <2>2
        <3>1. (all \o more)[i] = more[1]
            BY <1>7, <3>3
        <3>2. (i + 1) \div 2 = n + 1
            BY <2>2
        <3> QED
            BY <2>2, <3>1, <3>2
    <2>3. CASE i = 2 * n + 2
        <3>3. i \in 1..2 * n + 2 /\ ~(i <= 2 * n) /\ i - 2 * n = 2
            BY <2>3
        <3>1. (all \o more)[i] = more[2]
            BY <1>7, <3>3
        <3>2. (i + 1) \div 2 = n + 1
            BY <2>3
        <3> QED
            BY <2>3, <3>1, <3>2
    <2>4. i =< 2 * n \/ i = 2 * n + 1 \/ i = 2 * n + 2
        BY <1>1
    <2> QED
        BY <2>1, <2>2, <2>3, <2>4
<1>6. all \o more = Sess!AnswersOf(m)
    <2>1. \A i \in 1..2 * m : (all \o more)[i] = Sess!AnswersOf(m)[i]
        BY <1>2, <1>5
    <2> QED
        BY <1>2, <1>3, <1>4, <2>1, SeqEqual
<1> QED
    BY <1>1, <1>6

\* Concatenation of answers.
LEMMA Regrouped ==
    ASSUME NEW s \in Seq(Nat), NEW t \in Seq(Nat), NEW u \in Seq(Nat)
    PROVE  (s \o t) \o u = s \o (t \o u)
    BY ConcatAssociative, SMTT(30)

\* One more answer comes after those that are there.
LEMMA OneMoreAnswer ==
    ASSUME NEW n \in Nat, NEW s \in Seq(Nat), NEW t \in Seq(Nat),
           s \o t = Sess!AnswersOf(n)
    PROVE  s \o (t \o <<n + 1, n + 1>>) = Sess!AnswersOf(n + 1)
<1>7. n + 1 \in Nat
    OBVIOUS
<1>8. <<n + 1, n + 1>> \in Seq(Nat)
    BY <1>7
<1>1. PICK more \in Seq(Nat) : more = <<n + 1, n + 1>>
    BY <1>8
<1>2. Len(more) = 2 /\ more[1] = n + 1 /\ more[2] = n + 1
    BY <1>1
<1>3. s \o t \in Seq(Nat)
    BY ConcatProperties
<1>4. Len(s \o t) = 2 * n /\ \A i \in 1..2 * n : (s \o t)[i] = (i + 1) \div 2
    BY AnswersSize
<1>5. (s \o t) \o more = s \o (t \o more)
    BY Regrouped
<1>6. (s \o t) \o more = Sess!AnswersOf(n + 1)
    BY <1>2, <1>3, <1>4, TwoMore
<1> QED
    BY <1>1, <1>5, <1>6

-----------------------------------------------------------------------------

\* The pieces of requests are three, and stay what they are when there are more.
LEMMA PieceKinds ==
    ASSUME NEW x, NEW k, NEW reqs, IsPiece(x, k, reqs)
    PROVE  x \in {"keep", "close", "tail"}
    BY DEF IsPiece

\* A piece of requests is one of more requests too.
LEMMA PieceStays ==
    ASSUME NEW x, NEW k, NEW reqs \in Seq(BOOLEAN), NEW c \in BOOLEAN, IsPiece(x, k, reqs)
    PROVE  IsPiece(x, k, Append(reqs, c))
<1>1. /\ Len(Append(reqs, c)) = Len(reqs) + 1
      /\ \A r \in 1..Len(reqs) : Append(reqs, c)[r] = reqs[r] /\ r \in 1..Len(reqs) + 1
    OBVIOUS
<1> QED
    BY <1>1 DEF IsPiece

\* Answers are numbered.
LEMMA Numbered ==
    ASSUME NEW n \in Nat, NEW s \in Seq(1..n)
    PROVE  s \in Seq(Nat)
<1>1. Len(s) \in Nat /\ \A i \in 1..Len(s) : s[i] \in Nat
    OBVIOUS
<1>2. s = [i \in 1..Len(s) |-> s[i]]
    OBVIOUS
<1>3. [i \in 1..Len(s) |-> s[i]] \in Seq(Nat)
    BY <1>1
<1> QED
    BY <1>2, <1>3

\* The numbers in an invariant state.
LEMMA SessNumbers ==
    ASSUME SessInv
    PROVE  /\ MaxRequests \in Nat /\ handled \in Nat /\ Taken \in Nat /\ Total \in Int
           /\ Len(requests) \in Nat /\ Len(wire) \in Nat /\ Len(input) \in Nat
           /\ Len(answers) \in Nat /\ Len(buf) \in Nat
           /\ answers \in Seq(Nat) /\ buf \in Seq(Nat)
           /\ Len(answers) + Len(buf) = 2 * handled
<1>1. MaxRequests \in Nat
    BY WebAssumption DEF WebAssumption, Sess!HttpSessAssumption
<1>2. /\ handled \in Nat /\ Len(requests) \in Nat /\ Len(wire) \in Nat /\ Len(input) \in Nat
      /\ Len(answers) \in Nat /\ Len(buf) \in Nat
      /\ midway \in BOOLEAN
      /\ answers \in Seq(1..MaxRequests) /\ buf \in Seq(1..MaxRequests)
    BY <1>1 DEF SessInv, Sess!TypeOK
<1>3. answers \in Seq(Nat) /\ buf \in Seq(Nat)
    BY <1>1, <1>2, Numbered
<1>4. Taken \in Nat /\ Total \in Int
    BY <1>2 DEF Taken, Total
<1>5. Len(answers \o buf) = 2 * handled
    BY <1>2, AnswersSize DEF SessInv
<1>6. Len(answers \o buf) = Len(answers) + Len(buf)
    BY <1>3
<1> QED
    BY <1>1, <1>2, <1>3, <1>4, <1>5, <1>6

\* Nothing follows the stream but the end of the connection, that comes when the client
\* has all its answers.
LEMMA EndOfStream ==
    ASSUME SessInv
    PROVE  /\ "eof" \notin Sess!ToSet(wire) => Taken + Len(input) + Len(wire) = Total
           /\ \A i \in 1..Len(wire) : wire[i] = "eof" <=> Taken + Len(input) + i > Total
           /\ \A i \in 1..Len(wire) : wire[i] = "eof" =>
                /\ i = Len(wire) /\ ~midway /\ Taken + Len(input) + Len(wire) = Total + 1
                /\ Len(answers) = 2 * Len(requests) /\ handled = Len(requests) /\ buf = <<>>
<1>1. ASSUME NEW i \in 1..Len(wire)
      PROVE  wire[i] = "eof" <=> Taken + Len(input) + i > Total
    <2>1. CASE Taken + Len(input) + i =< Total
        <3>1. IsPiece(wire[i], Taken + Len(input) + i, requests)
            BY <2>1 DEF SessInv, StreamIsWhole
        <3>2. wire[i] # "eof"
            BY <3>1, PieceKinds
        <3> QED
            BY <2>1, <3>2, SessNumbers
    <2>2. CASE ~(Taken + Len(input) + i =< Total)
        <3>1. wire[i] = "eof"
            BY <2>2 DEF SessInv, StreamIsWhole
        <3> QED
            BY <2>2, <3>1, SessNumbers
    <2> QED
        BY <2>1, <2>2
<1>2. Taken + Len(input) + Len(wire) # Total =>
        /\ Len(wire) \in 1..Len(wire) /\ Taken + Len(input) + Len(wire) = Total + 1 /\ ~midway
        /\ Len(answers) = 2 * Len(requests)
    BY SessNumbers DEF SessInv, StreamIsWhole
<1>3. "eof" \notin Sess!ToSet(wire) => Taken + Len(input) + Len(wire) = Total
    <2>1. \A i \in 1..Len(wire) : wire[i] \in Sess!ToSet(wire)
        BY SessNumbers DEF SessInv, Sess!TypeOK, Sess!ToSet
    <2> QED
        BY <1>1, <1>2, <2>1, SessNumbers, SMTT(30)
<1>4. ASSUME NEW i \in 1..Len(wire), wire[i] = "eof"
      PROVE  /\ i = Len(wire) /\ ~midway /\ Taken + Len(input) + Len(wire) = Total + 1
             /\ Len(answers) = 2 * Len(requests) /\ handled = Len(requests) /\ buf = <<>>
    <2>1. Taken + Len(input) + i > Total
        BY <1>1, <1>4
    <2>2. Taken + Len(input) + Len(wire) # Total
        BY <2>1, SessNumbers
    <2>3. i = Len(wire)
        BY <1>2, <2>1, <2>2, SessNumbers, SMTT(30)
    <2>4. handled =< Len(requests)
        BY DEF SessInv
    <2>5. handled = Len(requests) /\ Len(buf) = 0
        BY <1>2, <2>2, <2>4, SessNumbers, SMTT(30)
    <2>6. buf = <<>>
        BY <2>5, SessNumbers
    <2> QED
        BY <1>2, <2>2, <2>3, <2>5, <2>6
<1> QED
    BY <1>1, <1>3, <1>4

\* A closing request is the last: with something to write to such a client, there is
\* nothing to read.
LEMMA NothingAfterClosing ==
    ASSUME SessInv, ~keep, "out" \in events
    PROVE  wire = <<>>
<1> USE SessNumbers
<1>1. buf # <<>> /\ input = <<>> /\ Len(buf) > 0
    BY DEF SessInv, CallsAreInOrder
<1>2. handled > 0 /\ handled \in 1..Len(requests)
    BY <1>1 DEF SessInv
<1>3. \A i \in 1..Len(wire) : wire[i] # "eof"
    BY <1>1, EndOfStream
<1>4. CASE parser = "body"
    <2>1. handled < Len(requests) /\ requests[handled + 1] = TRUE
        BY <1>4 DEF SessInv, ParserFollows, Sess!TypeOK
    <2>2. Len(answers) >= 2 * handled
        BY <2>1 DEF SessInv, ClosingIsAlone
    <2> QED
        BY <1>1, <2>2
<1>5. CASE parser # "body"
    <2>1. requests[handled]
        BY <1>2, <1>5 DEF SessInv, ParserFollows, Sess!TypeOK
    <2>2. handled = Len(requests)
        BY <1>2, <2>1 DEF SessInv, ClosingIsAlone
    <2>3. Taken >= Total
        BY <1>5, <2>2 DEF Taken, Total, SessInv, Sess!TypeOK
    <2>4. \A i \in 1..Len(wire) : Taken + Len(input) + i > Total
        BY <2>3
    <2>5. Len(wire) = 0
        BY <1>3, <2>4, EndOfStream, SMTT(30)
    <2> QED
        BY <2>5 DEF SessInv, Sess!TypeOK
<1> QED
    BY <1>4, <1>5

-----------------------------------------------------------------------------

\* The invariant holds of a session that has just been accepted.
LEMMA SessStarts == Sess!Init => SessInv
<1> SUFFICES ASSUME Sess!Init PROVE SessInv
    OBVIOUS
<1>1. MaxRequests \in Nat
    BY WebAssumption DEF WebAssumption, Sess!HttpSessAssumption
<1>2. Sess!TypeOK
    <2>1. /\ requests = <<>> /\ wire = <<>> /\ answers = <<>> /\ buf = <<>> /\ input = <<>>
          /\ handled \in 0..MaxRequests /\ 0 =< MaxRequests
        BY <1>1 DEF Sess!Init
    <2>2. /\ midway \in BOOLEAN /\ sess \in {"open", "closed", "broken", "killed"}
          /\ events \subseteq {"in", "out"} /\ interest \subseteq {"in", "out"}
          /\ parser \in {"start", "body", "dead"} /\ keep \in BOOLEAN /\ timer \in BOOLEAN
        BY DEF Sess!Init
    <2>3. Len(requests) =< MaxRequests
        BY <2>1
    <2>4. requests \in Seq(BOOLEAN) /\ answers \in Seq(1..MaxRequests) /\ buf \in Seq(1..MaxRequests)
        BY <2>1
    <2>5. /\ wire \in Seq({"keep", "close", "tail", "bad", "eof"})
          /\ input \in Seq({"keep", "close", "tail", "bad"})
        BY <2>1
    <2> QED
        BY <2>1, <2>2, <2>3, <2>4, <2>5 DEF Sess!TypeOK
<1>3. answers \o buf = Sess!AnswersOf(handled)
    BY DEF Sess!Init, Sess!AnswersOf
<1>4. StreamIsWhole /\ ClosingIsAlone /\ ParserFollows /\ CallsAreInOrder /\ handled =< Len(requests)
    BY DEF Sess!Init, StreamIsWhole, ClosingIsAlone, ParserFollows, CallsAreInOrder, Taken, Total
<1> QED
    BY <1>2, <1>3, <1>4 DEF SessInv

\* The client begins a request.
LEMMA SendHeadKeeps ==
    ASSUME SessInv, NEW closing \in BOOLEAN, Sess!SendHead(closing)
    PROVE  SessInv'
<1> USE SessNumbers
<1>0. Taken \in Nat /\ Total \in Int /\ Len(input) \in Nat /\ Len(wire) \in Nat
    OBVIOUS
<1>1. /\ ~midway /\ Len(requests) < MaxRequests /\ "eof" \notin Sess!ToSet(wire)
      /\ closing => answers = Sess!AnswersOf(Len(requests))
      /\ \A r \in 1..Len(requests) : ~requests[r]
      /\ requests' = Append(requests, closing) /\ midway' = TRUE
      /\ wire' = Append(wire, IF closing THEN "close" ELSE "keep")
      /\ UNCHANGED <<answers, sess, events, input, parser, keep, handled, interest, timer, buf>>
    BY DEF Sess!SendHead, Sess!Answered, Sess!callVars, Sess!parserVars
<1>2. requests \in Seq(BOOLEAN) /\ wire \in Seq({"keep", "close", "tail", "bad", "eof"})
    BY DEF SessInv, Sess!TypeOK
<1>3. /\ Len(requests') = Len(requests) + 1 /\ requests'[Len(requests) + 1] = closing
      /\ \A r \in 1..Len(requests) : requests'[r] = requests[r]
      /\ Len(wire') = Len(wire) + 1
      /\ wire'[Len(wire) + 1] = IF closing THEN "close" ELSE "keep"
      /\ \A i \in 1..Len(wire) : wire'[i] = wire[i]
    BY <1>1, <1>2
<1>4. Taken' = Taken /\ Total' = Total + 1 /\ Total = 2 * Len(requests)
    BY <1>1, <1>3 DEF Taken, Total
<1>5. Taken + Len(input) + Len(wire) = Total
    BY <1>1, EndOfStream
<1>6. Sess!TypeOK'
    BY <1>1, <1>2, <1>3 DEF SessInv, Sess!TypeOK
<1>7. handled' =< Len(requests') /\ (answers \o buf)' = Sess!AnswersOf(handled)'
    BY <1>1, <1>3 DEF SessInv, Sess!AnswersOf
<1>8. StreamIsWhole'
    <2>1. ASSUME NEW i \in 1..Len(input')
          PROVE  IsPiece(input[i], Taken + i, requests)'
        <3>1. IsPiece(input[i], Taken + i, requests)
            BY <1>1 DEF SessInv, StreamIsWhole
        <3> QED
            BY <1>1, <1>2, <1>4, <3>1, PieceStays
    <2>2. ASSUME NEW i \in 1..Len(wire')
          PROVE  Taken' + Len(input') + i =< Total' /\ IsPiece(wire[i], Taken + Len(input) + i, requests)'
        <3>1. CASE i = Len(wire) + 1
            <4>1. PICK n \in 1..Len(requests') : n = Len(requests) + 1
                BY <1>3
            <4>2. Total + 1 = 2 * n - 1
                BY <1>4, <4>1
            <4>3. wire'[i] = IF requests'[n] THEN "close" ELSE "keep"
                BY <1>3, <3>1, <4>1
            <4>4. IsPiece(wire'[i], Total + 1, requests')
                BY <4>1, <4>2, <4>3 DEF IsPiece
            <4>5. Taken + Len(input) + (Len(wire) + 1) = Total + 1
                BY ONLY <1>5, <1>0
            <4>6. Total + 1 =< Total + 1
                OBVIOUS
            <4> QED
                BY <1>1, <1>4, <3>1, <4>4, <4>5, <4>6
        <3>2. CASE i # Len(wire) + 1
            <4>1. i \in 1..Len(wire)
                BY <1>3, <3>2
            <4>2. Taken + Len(input) + i =< Total /\ IsPiece(wire[i], Taken + Len(input) + i, requests)
                BY <1>5, <4>1 DEF SessInv, StreamIsWhole
            <4>3. IsPiece(wire[i], Taken + Len(input) + i, requests')
                BY <1>1, <1>2, <4>2, PieceStays
            <4> QED
                BY <1>1, <1>3, <1>4, <4>1, <4>2, <4>3, SMTT(30)
        <3> QED
            BY <3>1, <3>2
    <2>3. Taken' + Len(input') =< Total' /\ Taken' + Len(input') + Len(wire') = Total'
        BY <1>1, <1>3, <1>4, <1>5, SMTT(30)
    <2> QED
        BY <2>1, <2>2, <2>3 DEF StreamIsWhole
<1>9. ClosingIsAlone'
    <2>1. closing => Len(answers) = 2 * Len(requests)
        BY <1>1, AnswersSize
    <2> QED
        BY <1>1, <1>3, <2>1 DEF ClosingIsAlone
<1>10. ParserFollows'
    <2>1. handled < Len(requests) => handled + 1 \in 1..Len(requests)
        OBVIOUS
    <2>2. handled > 0 => handled \in 1..Len(requests)
        BY DEF SessInv
    <2>3. handled < Len(requests) => handled < Len(requests')
        BY <1>3
    <2> QED
        BY <1>1, <1>3, <2>1, <2>2, <2>3 DEF SessInv, ParserFollows
<1>11. CallsAreInOrder'
    <2>1. wire' # <<>>
        BY <1>3
    <2> QED
        BY <1>1, <2>1 DEF SessInv, CallsAreInOrder
<1> QED
    BY <1>6, <1>7, <1>8, <1>9, <1>10, <1>11 DEF SessInv

\* The client ends a request.
LEMMA SendTailKeeps ==
    ASSUME SessInv, Sess!SendTail
    PROVE  SessInv'
<1> USE SessNumbers
<1>0. Taken \in Nat /\ Total \in Int /\ Len(input) \in Nat /\ Len(wire) \in Nat
    OBVIOUS
<1>1. /\ midway /\ "eof" \notin Sess!ToSet(wire)
      /\ midway' = FALSE /\ wire' = Append(wire, "tail")
      /\ UNCHANGED <<requests, answers, sess, events, input, parser, keep, handled, interest, timer, buf>>
    BY DEF Sess!SendTail, Sess!callVars, Sess!parserVars
<1>2. requests \in Seq(BOOLEAN) /\ wire \in Seq({"keep", "close", "tail", "bad", "eof"})
    BY DEF SessInv, Sess!TypeOK
<1>3. /\ Len(wire') = Len(wire) + 1
      /\ wire'[Len(wire) + 1] = "tail"
      /\ \A i \in 1..Len(wire) : wire'[i] = wire[i]
    BY <1>1, <1>2
<1>4. Taken' = Taken /\ Total' = Total + 1 /\ Total + 1 = 2 * Len(requests)
    BY <1>1, <1>3 DEF Taken, Total
<1>5. Taken + Len(input) + Len(wire) = Total
    BY <1>1, EndOfStream
<1>6. Sess!TypeOK'
    <2>1. wire' \in Seq({"keep", "close", "tail", "bad", "eof"})
        BY <1>1, <1>2
    <2> QED
        BY <1>1, <2>1 DEF SessInv, Sess!TypeOK
<1>7. handled' =< Len(requests') /\ (answers \o buf)' = Sess!AnswersOf(handled)'
    BY <1>1 DEF SessInv, Sess!AnswersOf
<1>8. StreamIsWhole'
    <2>1. ASSUME NEW i \in 1..Len(input')
          PROVE  IsPiece(input[i], Taken + i, requests)'
        BY <1>1, <1>4 DEF SessInv, StreamIsWhole
    <2>2. ASSUME NEW i \in 1..Len(wire')
          PROVE  Taken' + Len(input') + i =< Total' /\ IsPiece(wire[i], Taken + Len(input) + i, requests)'
        <3>1. CASE i = Len(wire) + 1
            <4>1. PICK n \in Int : n = Len(requests)
                OBVIOUS
            <4>2. n \in 1..Len(requests)
                BY <1>4, <1>5, <4>1
            <4>3. IsPiece(wire'[i], Total + 1, requests)
                BY <1>3, <1>4, <3>1, <4>1, <4>2 DEF IsPiece
            <4>4. Taken + Len(input) + (Len(wire) + 1) = Total + 1
                BY ONLY <1>5, <1>0
            <4>5. Total + 1 =< Total + 1
                OBVIOUS
            <4> QED
                BY <1>1, <1>4, <3>1, <4>3, <4>4, <4>5
        <3>2. CASE i # Len(wire) + 1
            <4>1. i \in 1..Len(wire)
                BY <1>3, <3>2
            <4>2. Taken + Len(input) + i =< Total /\ IsPiece(wire[i], Taken + Len(input) + i, requests)
                BY <1>5, <4>1 DEF SessInv, StreamIsWhole
            <4> QED
                BY <1>1, <1>3, <1>4, <4>1, <4>2, SMTT(30)
        <3> QED
            BY <3>1, <3>2
    <2>3. Taken' + Len(input') =< Total' /\ Taken' + Len(input') + Len(wire') = Total'
        BY <1>1, <1>3, <1>4, <1>5, SMTT(30)
    <2> QED
        BY <2>1, <2>2, <2>3 DEF StreamIsWhole
<1>9. ClosingIsAlone' /\ ParserFollows'
    BY <1>1 DEF SessInv, ClosingIsAlone, ParserFollows
<1>10. CallsAreInOrder'
    <2>1. wire' # <<>>
        BY <1>3
    <2> QED
        BY <1>1, <2>1 DEF SessInv, CallsAreInOrder
<1> QED
    BY <1>6, <1>7, <1>8, <1>9, <1>10 DEF SessInv

\* The client hangs up.
LEMMA HangupKeeps ==
    ASSUME SessInv, Sess!Hangup
    PROVE  SessInv'
<1> USE SessNumbers
<1>0. Taken \in Nat /\ Total \in Int /\ Len(input) \in Nat /\ Len(wire) \in Nat
    OBVIOUS
<1>1. /\ ~midway /\ "eof" \notin Sess!ToSet(wire) /\ answers = Sess!AnswersOf(Len(requests))
      /\ wire' = Append(wire, "eof")
      /\ UNCHANGED <<requests, midway, answers, sess, events, input, parser, keep, handled, interest,
                     timer, buf>>
    BY DEF Sess!Hangup, Sess!Answered, Sess!clientVars, Sess!callVars, Sess!parserVars
<1>2. requests \in Seq(BOOLEAN) /\ wire \in Seq({"keep", "close", "tail", "bad", "eof"})
    BY DEF SessInv, Sess!TypeOK
<1>3. /\ Len(wire') = Len(wire) + 1
      /\ wire'[Len(wire) + 1] = "eof"
      /\ \A i \in 1..Len(wire) : wire'[i] = wire[i]
    BY <1>1, <1>2
<1>4. Taken' = Taken /\ Total' = Total
    BY <1>1 DEF Taken, Total
<1>5. Taken + Len(input) + Len(wire) = Total
    BY <1>1, EndOfStream
<1>6. Sess!TypeOK'
    <2>1. wire' \in Seq({"keep", "close", "tail", "bad", "eof"})
        BY <1>1, <1>2
    <2> QED
        BY <1>1, <2>1 DEF SessInv, Sess!TypeOK
<1>7. handled' =< Len(requests') /\ (answers \o buf)' = Sess!AnswersOf(handled)'
    BY <1>1 DEF SessInv, Sess!AnswersOf
<1>8. StreamIsWhole'
    <2>1. ASSUME NEW i \in 1..Len(input')
          PROVE  IsPiece(input[i], Taken + i, requests)'
        BY <1>1, <1>4 DEF SessInv, StreamIsWhole
    <2>2. ASSUME NEW i \in 1..Len(wire')
          PROVE  IF Taken' + Len(input') + i =< Total'
                 THEN IsPiece(wire[i], Taken + Len(input) + i, requests)'
                 ELSE wire'[i] = "eof"
        <3>1. CASE i = Len(wire) + 1
            <4>1. Taken + Len(input) + (Len(wire) + 1) = Total + 1
                BY ONLY <1>5, <1>0
            <4>2. ~(Total + 1 =< Total)
                OBVIOUS
            <4> QED
                BY <1>1, <1>3, <1>4, <3>1, <4>1, <4>2
        <3>2. CASE i # Len(wire) + 1
            <4>1. i \in 1..Len(wire)
                BY <1>3, <3>2
            <4>2. Taken + Len(input) + i =< Total /\ IsPiece(wire[i], Taken + Len(input) + i, requests)
                BY <1>5, <4>1 DEF SessInv, StreamIsWhole
            <4> QED
                BY <1>1, <1>3, <1>4, <4>1, <4>2
        <3> QED
            BY <3>1, <3>2
    <2>3. Taken' + Len(input') =< Total' /\ Taken' + Len(input') + Len(wire') = Total' + 1
        BY <1>1, <1>3, <1>4, <1>5, SMTT(30)
    <2>4. Len(answers) = 2 * Len(requests)
        BY <1>1, AnswersSize
    <2> QED
        BY <1>1, <2>1, <2>2, <2>3, <2>4 DEF StreamIsWhole
<1>9. ClosingIsAlone' /\ ParserFollows'
    BY <1>1 DEF SessInv, ClosingIsAlone, ParserFollows
<1>10. CallsAreInOrder'
    <2>1. wire' # <<>>
        BY <1>3
    <2> QED
        BY <1>1, <2>1 DEF SessInv, CallsAreInOrder
<1> QED
    BY <1>6, <1>7, <1>8, <1>9, <1>10 DEF SessInv

\* The reactor calls the session.
LEMMA OnIoEventKeeps ==
    ASSUME SessInv, NEW evs, Sess!OnIoEvent(evs)
    PROVE  SessInv'
<1>1. /\ sess = "open" /\ input = <<>> /\ evs \subseteq interest /\ ("in" \in evs => wire # <<>>)
      /\ events' = evs
      /\ UNCHANGED <<requests, midway, answers, wire, sess, input, parser, keep, handled, interest,
                     timer, buf>>
    BY DEF Sess!OnIoEvent, Sess!clientVars, Sess!callVars, Sess!parserVars
<1>2. Sess!TypeOK'
    BY <1>1 DEF SessInv, Sess!TypeOK
<1>3. handled' =< Len(requests') /\ (answers \o buf)' = Sess!AnswersOf(handled)'
    BY <1>1 DEF SessInv, Sess!AnswersOf
<1>4. StreamIsWhole'
    BY <1>1 DEF SessInv, StreamIsWhole, Taken, Total
<1>5. ClosingIsAlone' /\ ParserFollows' /\ CallsAreInOrder'
    BY <1>1 DEF SessInv, ClosingIsAlone, ParserFollows, CallsAreInOrder
<1> QED
    BY <1>2, <1>3, <1>4, <1>5 DEF SessInv

\* A client that has hung up has all its answers: there is nothing to write to it.
LEMMA WritesToOpen ==
    ASSUME SessInv, "out" \in events
    PROVE  /\ buf # <<>> /\ Len(buf) > 0 /\ sess = "open" /\ input = <<>>
           /\ "eof" \notin Sess!ToSet(wire)
           /\ Taken + Len(input) + Len(wire) = Total
<1> USE SessNumbers
<1>1. buf # <<>> /\ Len(buf) > 0 /\ sess = "open" /\ input = <<>>
    BY DEF SessInv, CallsAreInOrder
<1>2. \A i \in 1..Len(wire) : wire[i] # "eof"
    BY <1>1, EndOfStream
<1>3. "eof" \notin Sess!ToSet(wire)
    BY <1>2 DEF SessInv, Sess!TypeOK, Sess!ToSet
<1>4. Taken + Len(input) + Len(wire) = Total
    BY <1>3, EndOfStream
<1> QED
    BY <1>1, <1>3, <1>4

\* A part of what was buffered is written.
LEMMA WriteSomeKeeps ==
    ASSUME SessInv, Sess!WriteSome
    PROVE  SessInv'
<1> USE SessNumbers
<1>1. PICK n \in 0..Len(buf) - 1 :
        /\ "out" \in events
        /\ answers' = answers \o SubSeq(buf, 1, n)
        /\ buf' = SubSeq(buf, n + 1, Len(buf))
        /\ events' = events \ {"out"}
        /\ UNCHANGED <<requests, midway, wire, sess, input, parser, keep, handled, interest, timer>>
    BY DEF Sess!WriteSome, Sess!Wrote, Sess!parserVars
<1>2. n \in 0..Len(buf)
    OBVIOUS
<1>3. answers \in Seq(1..MaxRequests) /\ buf \in Seq(1..MaxRequests)
    BY DEF SessInv, Sess!TypeOK
<1>12. PICK front, back : front = SubSeq(buf, 1, n) /\ back = SubSeq(buf, n + 1, Len(buf))
    OBVIOUS
<1>13. /\ front \in Seq(1..MaxRequests) /\ Len(front) = n
       /\ back \in Seq(1..MaxRequests) /\ Len(back) = Len(buf) - n
       /\ (answers \o front) \o back = answers \o buf
    <2>1. PICK M : M = 1..MaxRequests
        OBVIOUS
    <2>2. answers \in Seq(M) /\ buf \in Seq(M)
        BY <1>3, <2>1
    <2>3. SubSeq(buf, 1, n) \in Seq(M) /\ Len(SubSeq(buf, 1, n)) = n
        BY <1>2, <2>2, Regroup, SMTT(30)
    <2>4. SubSeq(buf, n + 1, Len(buf)) \in Seq(M) /\ Len(SubSeq(buf, n + 1, Len(buf))) = Len(buf) - n
        BY <1>2, <2>2, Regroup
    <2>5. (answers \o SubSeq(buf, 1, n)) \o SubSeq(buf, n + 1, Len(buf)) = answers \o buf
        BY <1>2, <2>2, AllInAll
    <2> QED
        BY <1>12, <2>1, <2>3, <2>4, <2>5
<1>14. answers' = answers \o front /\ buf' = back
    BY <1>1, <1>12
<1>4. buf' \in Seq(1..MaxRequests) /\ Len(buf') = Len(buf) - n /\ answers' \o buf' = answers \o buf
    BY <1>13, <1>14
<1>5. answers' \in Seq(1..MaxRequests) /\ Len(answers') = Len(answers) + n
    <2>1. /\ answers \o front \in Seq(1..MaxRequests)
          /\ Len(answers \o front) = Len(answers) + Len(front)
        BY <1>3, <1>13, ConcatProperties
    <2> QED
        BY <1>13, <1>14, <2>1
<1>6. buf' # <<>> /\ Len(answers') >= Len(answers)
    BY <1>4, <1>5, SMTT(30)
<1>7. Sess!TypeOK'
    BY <1>1, <1>4, <1>5 DEF SessInv, Sess!TypeOK
<1>8. handled' =< Len(requests') /\ (answers \o buf)' = Sess!AnswersOf(handled)'
    BY <1>1, <1>4 DEF SessInv, Sess!AnswersOf
<1>9. StreamIsWhole'
    BY <1>1, WritesToOpen DEF SessInv, StreamIsWhole, Taken, Total
<1>10. ClosingIsAlone'
    <2>1. ASSUME NEW r \in 1..Len(requests), requests[r]
          PROVE  r = Len(requests) /\ Len(answers') >= 2 * (r - 1)
        BY <1>5, <2>1, SMTT(30) DEF SessInv, ClosingIsAlone
    <2> QED
        BY <1>1, <2>1 DEF ClosingIsAlone
<1>11. ParserFollows' /\ CallsAreInOrder'
    BY <1>1, <1>6 DEF SessInv, ParserFollows, CallsAreInOrder
<1> QED
    BY <1>7, <1>8, <1>9, <1>10, <1>11 DEF SessInv

\* All that was buffered is written.
LEMMA WrittenAll ==
    ASSUME SessInv, "out" \in events,
           answers' = answers \o buf, buf' = <<>>,
           UNCHANGED <<requests, midway, wire, input, parser, keep, handled>>
    PROVE  /\ answers' \in Seq(1..MaxRequests) /\ buf' \in Seq(1..MaxRequests)
           /\ handled' =< Len(requests') /\ (answers \o buf)' = Sess!AnswersOf(handled)'
           /\ StreamIsWhole' /\ ClosingIsAlone' /\ ParserFollows'
<1> USE SessNumbers
<1>1. answers \in Seq(1..MaxRequests) /\ buf \in Seq(1..MaxRequests)
    BY DEF SessInv, Sess!TypeOK
<1>2. answers' \in Seq(1..MaxRequests) /\ Len(answers') = Len(answers) + Len(buf)
    BY <1>1, ConcatProperties
<1>3. buf' \in Seq(1..MaxRequests)
    OBVIOUS
<1>4. answers' \o buf' = answers'
    BY <1>2, ConcatEmptySeq
<1>5. handled' =< Len(requests') /\ (answers \o buf)' = Sess!AnswersOf(handled)'
    BY <1>4 DEF SessInv, Sess!AnswersOf
<1>6. StreamIsWhole'
    BY WritesToOpen DEF SessInv, StreamIsWhole, Taken, Total
<1>7. ClosingIsAlone'
    <2>1. ASSUME NEW r \in 1..Len(requests), requests[r]
          PROVE  r = Len(requests) /\ Len(answers') >= 2 * (r - 1)
        BY <1>2, <2>1 DEF SessInv, ClosingIsAlone
    <2> QED
        BY <2>1 DEF ClosingIsAlone
<1>8. ParserFollows'
    BY DEF SessInv, ParserFollows
<1> QED
    BY <1>2, <1>3, <1>5, <1>6, <1>7, <1>8

\* The rest of what was buffered is written.
LEMMA WriteAllKeeps ==
    ASSUME SessInv, Sess!WriteAll
    PROVE  SessInv'
<1>1. /\ "out" \in events
      /\ answers' = answers \o buf /\ buf' = <<>>
      /\ events' = events \ {"out"} /\ interest' = {"in"}
      /\ UNCHANGED <<requests, midway, wire, sess, input, parser, keep, handled, timer>>
    BY DEF Sess!WriteAll, Sess!Wrote, Sess!parserVars
<1>2. /\ answers' \in Seq(1..MaxRequests) /\ buf' \in Seq(1..MaxRequests)
      /\ handled' =< Len(requests') /\ (answers \o buf)' = Sess!AnswersOf(handled)'
      /\ StreamIsWhole' /\ ClosingIsAlone' /\ ParserFollows'
    BY <1>1, WrittenAll
<1>3. Sess!TypeOK'
    BY <1>1, <1>2 DEF SessInv, Sess!TypeOK
<1>4. CallsAreInOrder'
    BY <1>1 DEF SessInv, CallsAreInOrder
<1> QED
    BY <1>2, <1>3, <1>4 DEF SessInv

\* The session is closed after the answer to a closing request: it does not go on to read,
\* for nothing has come after that request.
LEMMA WriteAndCloseKeeps ==
    ASSUME SessInv, Sess!WriteAndClose
    PROVE  SessInv'
<1>1. /\ "out" \in events /\ ~keep
      /\ answers' = answers \o buf /\ buf' = <<>>
      /\ events' = events \ {"out"} /\ interest' = {} /\ timer' = FALSE
      /\ sess' = IF sess = "open" THEN "closed" ELSE "broken"
      /\ UNCHANGED <<requests, midway, wire, input, parser, keep, handled>>
    BY DEF Sess!WriteAndClose, Sess!Wrote, Sess!Close, Sess!parserVars
<1>2. /\ answers' \in Seq(1..MaxRequests) /\ buf' \in Seq(1..MaxRequests)
      /\ handled' =< Len(requests') /\ (answers \o buf)' = Sess!AnswersOf(handled)'
      /\ StreamIsWhole' /\ ClosingIsAlone' /\ ParserFollows'
    BY <1>1, WrittenAll
<1>3. wire = <<>>
    BY <1>1, NothingAfterClosing
<1>4. events' = {} /\ sess' = "closed" /\ input' = <<>>
    BY <1>1, <1>3 DEF SessInv, CallsAreInOrder, Sess!TypeOK
<1>5. Sess!TypeOK'
    BY <1>1, <1>2, <1>4 DEF SessInv, Sess!TypeOK
<1>6. CallsAreInOrder'
    BY <1>1, <1>4 DEF CallsAreInOrder
<1> QED
    BY <1>2, <1>5, <1>6 DEF SessInv

\* The session reads: the parser goes on where it was.
LEMMA ReadKeeps ==
    ASSUME SessInv, Sess!Read
    PROVE  SessInv'
<1> USE SessNumbers
<1>1. /\ sess = "open" /\ wire # <<>> /\ events' = {} /\ input = <<>> /\ Len(input) = 0
      /\ UNCHANGED <<requests, midway, answers, parser, keep, handled, buf>>
    BY DEF Sess!Read, Sess!clientVars, Sess!parserVars, SessInv, CallsAreInOrder
<1>2. Taken' = Taken /\ Total' = Total
    BY <1>1 DEF Taken, Total
<1>3. handled' =< Len(requests') /\ (answers \o buf)' = Sess!AnswersOf(handled)'
    BY <1>1 DEF SessInv, Sess!AnswersOf
<1>4. ClosingIsAlone' /\ ParserFollows'
    BY <1>1 DEF SessInv, ClosingIsAlone, ParserFollows
<1>5. CASE Head(wire) = "eof"
    <2>1. /\ sess' = "closed" /\ interest' = {} /\ timer' = FALSE /\ UNCHANGED <<wire, input>>
        BY <1>1, <1>5 DEF Sess!Read, Sess!Close
    <2>2. Sess!TypeOK'
        BY <1>1, <2>1 DEF SessInv, Sess!TypeOK
    <2>3. StreamIsWhole'
        BY <1>1, <1>2, <2>1 DEF SessInv, StreamIsWhole
    <2>4. CallsAreInOrder'
        BY <1>1, <2>1 DEF CallsAreInOrder
    <2> QED
        BY <1>3, <1>4, <2>2, <2>3, <2>4 DEF SessInv
<1>6. CASE Head(wire) # "eof"
    <2>1. PICK n \in 1..Len(wire) :
            /\ wire[n] # "eof"
            /\ input' = SubSeq(wire, 1, n)
            /\ wire' = SubSeq(wire, n + 1, Len(wire))
            /\ UNCHANGED <<sess, interest, timer>>
        BY <1>6 DEF Sess!Read
    <2>2. wire \in Seq({"keep", "close", "tail", "bad", "eof"}) /\ n \in 0..Len(wire)
        BY DEF SessInv, Sess!TypeOK
    <2>3. /\ Len(input') = n /\ Len(wire') = Len(wire) - n
          /\ wire' \in Seq({"keep", "close", "tail", "bad", "eof"})
          /\ \A i \in 1..n : input'[i] = wire[i]
          /\ \A i \in 1..Len(wire) - n : wire'[i] = wire[n + i]
        BY <2>1, <2>2, Regroup
    <2>4. Taken + n =< Total
        BY <1>1, <2>1, EndOfStream
    <2>5. ASSUME NEW i \in 1..n
          PROVE  input'[i] = wire[i] /\ IsPiece(wire[i], Taken + i, requests)
        <3>1. Taken + i =< Total /\ i \in 1..Len(wire)
            BY <2>4
        <3>2. Taken + Len(input) + i = Taken + i
            BY <1>1
        <3> QED
            BY <2>3, <3>1, <3>2 DEF SessInv, StreamIsWhole
    <2>6. Sess!TypeOK'
        <3>1. \A i \in 1..n : input'[i] \in {"keep", "close", "tail", "bad"}
            BY <2>5, PieceKinds
        <3>2. SubSeq(wire, 1, n) \in Seq({"keep", "close", "tail", "bad"})
            BY <2>1, <3>1
        <3> QED
            BY <1>1, <2>1, <2>3, <3>2 DEF SessInv, Sess!TypeOK
    <2>7. StreamIsWhole'
        <3>1. \A i \in 1..Len(input') : IsPiece(input[i], Taken + i, requests)'
            BY <1>1, <1>2, <2>3, <2>5
        <3>2. ASSUME NEW i \in 1..Len(wire')
              PROVE  IF Taken' + Len(input') + i =< Total'
                     THEN IsPiece(wire[i], Taken + Len(input) + i, requests)'
                     ELSE wire'[i] = "eof"
            <4>1. PICK k \in 1..Len(wire) : k = n + i
                BY <2>3, SMTT(30)
            <4>2. Taken' + Len(input') + i = Taken + k /\ Taken + Len(input) + k = Taken + k
                BY <1>1, <1>2, <2>3, <4>1
            <4>3. wire'[i] = wire[k]
                BY <2>3, <4>1
            <4> QED
                BY <1>1, <1>2, <4>2, <4>3 DEF SessInv, StreamIsWhole
        <3>3. Taken' + Len(input') =< Total'
            BY <1>2, <2>3, <2>4
        <3>4. Taken' + Len(input') + Len(wire') = Taken + Len(input) + Len(wire)
            BY <1>1, <1>2, <2>3
        <3> QED
            BY <1>1, <1>2, <3>1, <3>2, <3>3, <3>4 DEF SessInv, StreamIsWhole
    <2>8. CallsAreInOrder'
        BY <1>1, <2>1 DEF SessInv, CallsAreInOrder
    <2> QED
        BY <1>3, <1>4, <2>6, <2>7, <2>8 DEF SessInv
<1> QED
    BY <1>5, <1>6

\* The parser takes a piece.
LEMMA PieceTaken ==
    ASSUME SessInv, input # <<>>, input' = Tail(input), Taken' = Taken + 1,
           UNCHANGED <<requests, midway, wire, answers>>
    PROVE  /\ StreamIsWhole' /\ ClosingIsAlone'
           /\ input' \in Seq({"keep", "close", "tail", "bad"})
           /\ IsPiece(Head(input), Taken + 1, requests)
<1> USE SessNumbers
<1>1. input \in Seq({"keep", "close", "tail", "bad"})
    BY DEF SessInv, Sess!TypeOK
<1>2. /\ input' \in Seq({"keep", "close", "tail", "bad"}) /\ Len(input') = Len(input) - 1
      /\ \A i \in 1..Len(input) - 1 : input'[i] = input[i + 1]
      /\ Head(input) = input[1] /\ 1 \in 1..Len(input)
    BY <1>1
<1>3. Total' = Total
    BY DEF Total
<1>4. Taken' + Len(input') = Taken + Len(input)
    BY <1>2
<1>5. ASSUME NEW i \in 1..Len(input')
      PROVE  IsPiece(input[i], Taken + i, requests)'
    <2>1. PICK k \in 1..Len(input) : k = i + 1
        BY <1>2
    <2>2. Taken' + i = Taken + k /\ input'[i] = input[k]
        BY <1>2, <2>1, SMTT(30)
    <2> QED
        BY <2>2 DEF SessInv, StreamIsWhole
<1>6. StreamIsWhole'
    BY <1>3, <1>4, <1>5 DEF SessInv, StreamIsWhole
<1>7. ClosingIsAlone'
    BY DEF SessInv, ClosingIsAlone
<1>8. IsPiece(Head(input), Taken + 1, requests)
    BY <1>2 DEF SessInv, StreamIsWhole
<1> QED
    BY <1>2, <1>6, <1>7, <1>8

\* The parser takes the first part of a request.
LEMMA ParseHeadKeeps ==
    ASSUME SessInv, Sess!ParseHead
    PROVE  SessInv'
<1> USE SessNumbers
<1>1. /\ input # <<>> /\ Head(input) \in {"keep", "close"} /\ parser = "start"
      /\ parser' = "body" /\ keep' = (Head(input) = "keep")
      /\ input' = Tail(input) /\ timer' \in {timer, TRUE}
      /\ UNCHANGED <<requests, midway, answers, wire, sess, events, handled, interest, buf>>
    BY DEF Sess!ParseHead, Sess!Parsed, Sess!clientVars
<1>2. Taken = 2 * handled /\ Taken' = Taken + 1
    BY <1>1 DEF Taken
<1>3. /\ StreamIsWhole' /\ ClosingIsAlone'
      /\ input' \in Seq({"keep", "close", "tail", "bad"})
      /\ IsPiece(Head(input), Taken + 1, requests)
    BY <1>1, <1>2, PieceTaken
<1>4. sess = "open" /\ timer \in BOOLEAN /\ events = {}
    BY <1>1 DEF SessInv, CallsAreInOrder, Sess!TypeOK
<1>5. Sess!TypeOK'
    BY <1>1, <1>3 DEF SessInv, Sess!TypeOK
<1>6. handled' =< Len(requests') /\ (answers \o buf)' = Sess!AnswersOf(handled)'
    BY <1>1 DEF SessInv, Sess!AnswersOf
<1>7. ParserFollows'
    <2>1. PICK r \in 1..Len(requests) :
            Taken + 1 = 2 * r - 1 /\ Head(input) = IF requests[r] THEN "close" ELSE "keep"
        BY <1>1, <1>3 DEF IsPiece
    <2>5. 2 * handled + 1 = 2 * r - 1
        BY <1>2, <2>1
    <2>6. r = handled + 1
        BY <2>5
    <2>2. r = handled + 1 /\ handled < Len(requests)
        BY <2>6
    <2>3. requests[r] \in BOOLEAN
        BY DEF SessInv, Sess!TypeOK
    <2>4. keep' = ~requests[handled + 1]
        BY <1>1, <2>1, <2>2, <2>3
    <2> QED
        BY <1>1, <2>2, <2>4 DEF ParserFollows
<1>8. CallsAreInOrder'
    BY <1>1, <1>4 DEF SessInv, CallsAreInOrder
<1> QED
    BY <1>3, <1>5, <1>6, <1>7, <1>8 DEF SessInv

\* A request is answered.
LEMMA MessageEndKeeps ==
    ASSUME SessInv, Sess!MessageEnd
    PROVE  SessInv'
<1> USE SessNumbers
<1>1. /\ input # <<>> /\ parser = "body"
      /\ parser' = IF keep THEN "start" ELSE "dead"
      /\ handled' = handled + 1
      /\ buf' = buf \o <<handled + 1, handled + 1>>
      /\ interest' = IF buf = <<>> THEN {"in", "out"} ELSE interest
      /\ input' = Tail(input) /\ timer' \in {timer, TRUE}
      /\ UNCHANGED <<requests, midway, answers, wire, sess, events, keep>>
    BY DEF Sess!MessageEnd, Sess!Parsed, Sess!clientVars
<1>2. Taken = 2 * handled + 1 /\ Taken' = Taken + 1
    <2>1. parser' # "body"
        BY ONLY <1>1
    <2>2. PICK n \in Nat : n = handled
        OBVIOUS
    <2>3. 2 * (n + 1) = 2 * n + 1 + 1
        OBVIOUS
    <2>4. Taken = 2 * n + 1
        BY <1>1, <2>2 DEF Taken
    <2>5. Taken' = 2 * (n + 1)
        BY <1>1, <2>1, <2>2 DEF Taken
    <2> QED
        BY <2>2, <2>3, <2>4, <2>5
<1>3. /\ StreamIsWhole' /\ ClosingIsAlone'
      /\ input' \in Seq({"keep", "close", "tail", "bad"})
    BY <1>1, <1>2, PieceTaken
<1>4. sess = "open" /\ timer \in BOOLEAN /\ events = {} /\ keep \in BOOLEAN
    BY <1>1 DEF SessInv, CallsAreInOrder, Sess!TypeOK
<1>5. handled + 1 =< Len(requests) /\ keep = ~requests[handled + 1]
    BY <1>1 DEF SessInv, ParserFollows
<1>6. handled + 1 \in 1..MaxRequests
    BY <1>5 DEF SessInv, Sess!TypeOK
<1>7. <<handled + 1, handled + 1>> \in Seq(1..MaxRequests) /\ buf \in Seq(1..MaxRequests)
    BY <1>6 DEF SessInv, Sess!TypeOK
<1>8. buf' \in Seq(1..MaxRequests) /\ Len(buf') = Len(buf) + 2
    BY <1>1, <1>7, ConcatProperties
<1>9. Sess!TypeOK'
    <2>1. handled' \in 0..MaxRequests
        BY <1>1, <1>6
    <2>2. /\ parser' \in {"start", "body", "dead"} /\ timer' \in BOOLEAN
          /\ interest' \subseteq {"in", "out"}
        BY <1>1, <1>4 DEF SessInv, Sess!TypeOK
    <2> QED
        BY <1>1, <1>3, <1>8, <2>1, <2>2 DEF SessInv, Sess!TypeOK
<1>10. handled' =< Len(requests') /\ (answers \o buf)' = Sess!AnswersOf(handled)'
    <2>1. answers \o (buf \o <<handled + 1, handled + 1>>) = Sess!AnswersOf(handled + 1)
        BY OneMoreAnswer DEF SessInv
    <2>2. Sess!AnswersOf(handled)' = Sess!AnswersOf(handled + 1)
        BY <1>1 DEF Sess!AnswersOf
    <2> QED
        BY <1>1, <1>5, <2>1, <2>2
<1>11. ParserFollows'
    BY <1>1, <1>4, <1>5 DEF ParserFollows
<1>12. CallsAreInOrder'
    <2>1. buf' # <<>>
        BY <1>8
    <2> QED
        BY <1>1, <1>4, <2>1 DEF SessInv, CallsAreInOrder
<1> QED
    BY <1>3, <1>9, <1>10, <1>11, <1>12 DEF SessInv

\* No piece is bad, and there is none after a closing request.
LEMMA ParserTakesAll ==
    ASSUME SessInv
    PROVE  ~Sess!ParseFails
<1> USE SessNumbers
<1> SUFFICES ASSUME input # <<>>, Head(input) = "bad" \/ parser = "dead" PROVE FALSE
    BY DEF Sess!ParseFails
<1>1. Head(input) = input[1] /\ 1 \in 1..Len(input)
    BY DEF SessInv, Sess!TypeOK
<1>2. Head(input) # "bad"
    BY <1>1, PieceKinds DEF SessInv, StreamIsWhole
<1>3. parser = "dead" /\ handled > 0 /\ ~keep /\ handled \in 1..Len(requests)
    BY <1>2 DEF SessInv, ParserFollows
<1>4. requests[handled]
    BY <1>3 DEF SessInv, ParserFollows, Sess!TypeOK
<1>5. handled = Len(requests)
    BY <1>3, <1>4 DEF SessInv, ClosingIsAlone
<1>6. Taken >= Total
    BY <1>3, <1>5 DEF Taken, Total, SessInv, Sess!TypeOK
<1>7. Taken + Len(input) =< Total
    BY DEF SessInv, StreamIsWhole
<1> QED
    BY <1>1, <1>6, <1>7

\* The idle timer ends a session that is at rest.
LEMMA OnTimerKeeps ==
    ASSUME SessInv, Sess!OnTimer
    PROVE  SessInv'
<1>1. /\ sess = "open" /\ events = {} /\ input = <<>>
      /\ sess' = "closed" /\ interest' = {} /\ timer' = FALSE
      /\ UNCHANGED <<requests, midway, answers, wire, events, input, parser, keep, handled, buf>>
    BY DEF Sess!OnTimer, Sess!Close, Sess!clientVars, Sess!callVars, Sess!parserVars, SessInv,
           CallsAreInOrder
<1>2. Sess!TypeOK'
    BY <1>1 DEF SessInv, Sess!TypeOK
<1>3. handled' =< Len(requests') /\ (answers \o buf)' = Sess!AnswersOf(handled)'
    BY <1>1 DEF SessInv, Sess!AnswersOf
<1>4. StreamIsWhole'
    BY <1>1 DEF SessInv, StreamIsWhole, Taken, Total
<1>5. ClosingIsAlone' /\ ParserFollows'
    BY <1>1 DEF SessInv, ClosingIsAlone, ParserFollows
<1>6. CallsAreInOrder'
    BY <1>1 DEF CallsAreInOrder
<1> QED
    BY <1>2, <1>3, <1>4, <1>5, <1>6 DEF SessInv

\* A step that leaves the session alone keeps its invariant.
LEMMA SessRests ==
    ASSUME SessInv, UNCHANGED sessVars
    PROVE  SessInv'
<1>1. UNCHANGED <<requests, midway, wire, answers, sess, events, input, parser, keep, interest, timer,
                  handled, buf>>
    BY DEF sessVars
<1>2. Sess!TypeOK'
    BY <1>1 DEF SessInv, Sess!TypeOK
<1>3. handled' =< Len(requests') /\ (answers \o buf)' = Sess!AnswersOf(handled)'
    BY <1>1 DEF SessInv, Sess!AnswersOf
<1>4. StreamIsWhole'
    BY <1>1 DEF SessInv, StreamIsWhole, Taken, Total
<1>5. ClosingIsAlone' /\ ParserFollows' /\ CallsAreInOrder'
    BY <1>1 DEF SessInv, ClosingIsAlone, ParserFollows, CallsAreInOrder
<1> QED
    BY <1>2, <1>3, <1>4, <1>5 DEF SessInv

\* Every step of the session or of its client.
LEMMA SessKeeps ==
    ASSUME SessInv, Sess!Next
    PROVE  SessInv'
<1>1. CASE \E closing \in BOOLEAN : Sess!SendHead(closing)
    BY <1>1, SendHeadKeeps
<1>2. CASE Sess!SendTail
    BY <1>2, SendTailKeeps
<1>3. CASE Sess!SendBad
    BY <1>3 DEF Sess!SendBad
<1>4. CASE Sess!Hangup
    BY <1>4, HangupKeeps
<1>5. CASE \E evs \in SUBSET {"in", "out"} : Sess!OnIoEvent(evs)
    BY <1>5, OnIoEventKeeps
<1>6. CASE Sess!Handler
    <2>1. CASE Sess!WriteSome
        BY <2>1, WriteSomeKeeps
    <2>2. CASE Sess!WriteAll
        BY <2>2, WriteAllKeeps
    <2>3. CASE Sess!WriteAndClose
        BY <2>3, WriteAndCloseKeeps
    <2>4. CASE Sess!WriteToClosed
        BY <2>4, WritesToOpen DEF Sess!WriteToClosed
    <2>5. CASE Sess!Read
        BY <2>5, ReadKeeps
    <2>6. CASE Sess!ReadClosed
        BY <2>6 DEF Sess!ReadClosed, SessInv, CallsAreInOrder
    <2>7. CASE Sess!ParseHead
        BY <2>7, ParseHeadKeeps
    <2>8. CASE Sess!MessageEnd
        BY <2>8, MessageEndKeeps
    <2>9. CASE Sess!ParseFails
        BY <2>9, ParserTakesAll
    <2> QED
        BY <1>6, <2>1, <2>2, <2>3, <2>4, <2>5, <2>6, <2>7, <2>8, <2>9 DEF Sess!Handler
<1>7. CASE Sess!OnTimer
    BY <1>7, OnTimerKeeps
<1> QED
    BY <1>1, <1>2, <1>3, <1>4, <1>5, <1>6, <1>7 DEF Sess!Next

\* A step of the whole is one of the session's or leaves it alone.
LEMMA WebStepsSess == SessInv /\ [Next]_vars => SessInv'
<1> SUFFICES ASSUME SessInv, [Next]_vars PROVE SessInv'
    OBVIOUS
<1>1. CASE SessNext
    BY <1>1, SessKeeps DEF SessNext
<1>2. CASE UNCHANGED sessVars
    BY <1>2, SessRests
<1>3. CASE UNCHANGED vars
    BY <1>3, SessRests DEF vars
<1>4. SessNext \/ UNCHANGED sessVars \/ UNCHANGED vars
    BY DEF Next, SessNext, RequestNext, AnswerNext, BodyNext, PairsNext, AgainNext, ServNext,
           ClientNext, FixNext, DatesNext, DayNext
<1> QED
    BY <1>1, <1>2, <1>3, <1>4

\* The inductive invariant of the session (HttpSess.cpp).
THEOREM SessInvHolds == Spec => []SessInv
<1>1. Init => SessInv
    BY SessStarts DEF Init
<1> QED
    BY <1>1, WebStepsSess, PTL DEF Spec

\* Answers come in the order of the requests, however both are cut up and overlap; a session
\* with something to write waits until it may; and it is not used after it is closed, where
\* the client waits for its answers (HttpSess::on_io_event, on_message_end, close).
THEOREM AnswersInOrder == Spec => []AnswersAreInOrder
<1>1. SessInv => AnswersAreInOrder
    BY DEF SessInv, CallsAreInOrder, AnswersAreInOrder, Sess!AnswersAreInOrder,
           Sess!WaitsToWriteIfBuffered, Sess!NotUsedAfterClose
<1> QED
    BY <1>1, SessInvHolds, PTL

-----------------------------------------------------------------------------
(* Requests.  A route finds for a method what to call, with the rights and the *)
(* fields that it takes.                                                       *)

Commands == {"post_market", "put_market", "post_order", "put_order", "post_trade", "delete_trade"}
ForAdmins == {"post_market", "put_market", "post_trade"}
ForTraders == {"get_sess", "get_order", "get_order_id", "post_order", "put_order", "get_exec",
               "get_trade", "get_trade_id", "delete_trade", "get_posn"}

\* What a route finds asks for the rights that the call needs, and for the fields that the
\* path does not give.
IsSound(op, method, given) ==
    /\ op.op # "none"
    /\ op.op \in ForAdmins => op.perm = "admin"
    /\ op.op \in ForTraders => op.perm = "trade"
    /\ method = "GET" => op.op \notin Commands
    /\ op.op \in {"post_market", "put_market"} =>
        {"instr", "settl_date"} \subseteq op.required \union given
    /\ op.op = "put_market" => "state" \in op.required \union given
    /\ op.op = "post_order" =>
        {"instr", "settl_date", "side", "lots", "ticks"} \subseteq op.required \union given
    /\ op.op = "post_trade" =>
        {"instr", "settl_date", "accnt", "side", "lots"} \subseteq op.required \union given
    /\ op.op = "put_order" => "lots" \in op.required \union given

\* What only reads is sound, whatever the path gives.
LEMMA ReadIsSound ==
    ASSUME NEW op \in {"get_asset", "get_instr", "get_market", "get_ref_data"}, NEW method, NEW given
    PROVE  IsSound(Serv!Read(op, "none"), method, given)
    BY DEF IsSound, Serv!Read, Serv!Op, Commands, ForAdmins, ForTraders

\* So is every route that only reads for a trader.
LEMMA TraderReadIsSound ==
    ASSUME NEW op \in {"get_sess", "get_exec", "get_order", "get_order_id", "get_trade", "get_trade_id",
                       "get_posn"},
           NEW method, NEW given
    PROVE  IsSound(Serv!Read(op, "trade"), method, given)
    BY DEF IsSound, Serv!Read, Serv!Op, Commands, ForAdmins, ForTraders

\* The routes of the entities.
LEMMA QueryRoutes ==
    ASSUME NEW path, NEW method, NEW given
    PROVE  /\ method \in DOMAIN Serv!AssetRoute(path) =>
                IsSound(Serv!AssetRoute(path)[method], method, given)
           /\ method \in DOMAIN Serv!InstrRoute(path) =>
                IsSound(Serv!InstrRoute(path)[method], method, given)
           /\ method \in DOMAIN Serv!ExecRoute(path) =>
                IsSound(Serv!ExecRoute(path)[method], method, given)
           /\ method \in DOMAIN Serv!PosnRoute(path) =>
                IsSound(Serv!PosnRoute(path)[method], method, given)
<1>1. DOMAIN Serv!NoRoute = {}
    BY DEF Serv!NoRoute
<1>2. \A op, perm : /\ DOMAIN Serv!Query(op, perm) = {"GET"}
                    /\ Serv!Query(op, perm)["GET"] = Serv!Read(op, perm)
    BY DEF Serv!Query
<1> QED
    BY <1>1, <1>2, ReadIsSound, TraderReadIsSound
       DEF Serv!AssetRoute, Serv!InstrRoute, Serv!ExecRoute, Serv!PosnRoute

\* The fields of a record, one by one.
LEMMA TwoFields ==
    ASSUME NEW a, NEW b
    PROVE  /\ DOMAIN [GET |-> a, POST |-> b] = {"GET", "POST"}
           /\ [GET |-> a, POST |-> b]["GET"] = a /\ [GET |-> a, POST |-> b]["POST"] = b
           /\ DOMAIN [GET |-> a, PUT |-> b] = {"GET", "PUT"}
           /\ [GET |-> a, PUT |-> b]["GET"] = a /\ [GET |-> a, PUT |-> b]["PUT"] = b
           /\ DOMAIN [GET |-> a, DELETE |-> b] = {"GET", "DELETE"}
           /\ [GET |-> a, DELETE |-> b]["GET"] = a /\ [GET |-> a, DELETE |-> b]["DELETE"] = b
    OBVIOUS

\* The routes of markets are sound.
LEMMA MarketRouteSound ==
    ASSUME NEW path, Len(path) \in Nat, NEW method, method \in DOMAIN Serv!MarketRoute(path)
    PROVE  IsSound(Serv!MarketRoute(path)[method], method, Serv!Given(path))
<1> DEFINE get == Serv!Read("get_market", "none")
           post == Serv!Op("post_market", "admin", {"instr", "settl_date"} \ Serv!Given(path),
                           {"state"})
           put == Serv!Op("put_market", "admin", {"state"}, {})
<1>1. IsSound(get, method, Serv!Given(path))
    BY ReadIsSound
<1>2. IsSound(post, "POST", Serv!Given(path))
    BY DEF IsSound, Serv!Op, Commands, ForAdmins, ForTraders
<1>3. CASE Len(path) =< 1
    <2>1. Serv!MarketRoute(path) = [GET |-> get, POST |-> post]
        BY <1>3, SMTT(30) DEF Serv!MarketRoute
    <2> HIDE DEF get, post, put
    <2> QED
        BY <1>1, <1>2, <2>1, TwoFields
<1>4. CASE Len(path) = 2
    <2>1. Serv!MarketRoute(path) = [GET |-> get, POST |-> post, PUT |-> put]
        BY <1>4 DEF Serv!MarketRoute
    <2>2. {"instr", "settl_date"} \subseteq Serv!Given(path)
        BY <1>4 DEF Serv!Given
    <2>3. IsSound(put, "PUT", Serv!Given(path))
        BY <2>2 DEF IsSound, Serv!Op, Commands, ForAdmins, ForTraders
    <2> HIDE DEF get, post, put
    <2>4. /\ DOMAIN Serv!MarketRoute(path) = {"GET", "POST", "PUT"}
          /\ Serv!MarketRoute(path)["GET"] = get /\ Serv!MarketRoute(path)["POST"] = post
          /\ Serv!MarketRoute(path)["PUT"] = put
        BY <2>1
    <2> QED
        BY <1>1, <1>2, <2>3, <2>4
<1>5. CASE ~(Len(path) =< 1) /\ Len(path) # 2
    <2>1. Serv!MarketRoute(path) = <<>>
        BY <1>5 DEF Serv!MarketRoute, Serv!NoRoute
    <2> QED
        BY <2>1
<1> QED
    BY <1>3, <1>4, <1>5

\* The routes of orders are sound.
LEMMA OrderRouteSound ==
    ASSUME NEW path, Len(path) \in Nat, NEW method, method \in DOMAIN Serv!OrderRoute(path)
    PROVE  IsSound(Serv!OrderRoute(path)[method], method, Serv!Given(path))
<1> DEFINE all == Serv!Read("get_order", "trade")
           one == Serv!Read("get_order_id", "trade")
           post == Serv!Op("post_order", "trade",
                           {"instr", "settl_date", "side", "lots", "ticks"} \ Serv!Given(path),
                           {"ref", "min_lots"})
           put == Serv!Op("put_order", "trade", {"lots"}, {})
<1>1. IsSound(all, method, Serv!Given(path)) /\ IsSound(one, method, Serv!Given(path))
    BY TraderReadIsSound
<1>2. IsSound(post, "POST", Serv!Given(path)) /\ IsSound(put, "PUT", Serv!Given(path))
    BY DEF IsSound, Serv!Op, Commands, ForAdmins, ForTraders
<1>3. CASE Len(path) =< 2
    <2>1. Serv!OrderRoute(path) = [GET |-> all, POST |-> post]
        BY <1>3 DEF Serv!OrderRoute
    <2> HIDE DEF all, one, post, put
    <2> QED
        BY <1>1, <1>2, <2>1, TwoFields
<1>4. CASE Len(path) = 3
    <2>1. Serv!OrderRoute(path) = [GET |-> one, PUT |-> put]
        BY <1>4 DEF Serv!OrderRoute
    <2> HIDE DEF all, one, post, put
    <2> QED
        BY <1>1, <1>2, <2>1, TwoFields
<1>5. CASE ~(Len(path) =< 2) /\ Len(path) # 3
    <2>1. Serv!OrderRoute(path) = <<>>
        BY <1>5 DEF Serv!OrderRoute, Serv!NoRoute
    <2> QED
        BY <2>1
<1> QED
    BY <1>3, <1>4, <1>5

\* The routes of trades are sound.
LEMMA TradeRouteSound ==
    ASSUME NEW path, Len(path) \in Nat, NEW method, method \in DOMAIN Serv!TradeRoute(path)
    PROVE  IsSound(Serv!TradeRoute(path)[method], method, Serv!Given(path))
<1> DEFINE all == Serv!Read("get_trade", "trade")
           one == Serv!Read("get_trade_id", "trade")
           post == Serv!Op("post_trade", "admin",
                           {"instr", "settl_date", "accnt", "side", "lots"} \ Serv!Given(path),
                           {"ref", "ticks", "liq_ind", "cpty"})
           delete == Serv!Op("delete_trade", "trade", {}, Serv!AnyFields)
<1>1. IsSound(all, method, Serv!Given(path)) /\ IsSound(one, method, Serv!Given(path))
    BY TraderReadIsSound
<1>2. IsSound(post, "POST", Serv!Given(path)) /\ IsSound(delete, "DELETE", Serv!Given(path))
    BY DEF IsSound, Serv!Op, Commands, ForAdmins, ForTraders
<1>3. CASE Len(path) =< 2
    <2>1. Serv!TradeRoute(path) = [GET |-> all, POST |-> post]
        BY <1>3 DEF Serv!TradeRoute
    <2> HIDE DEF all, one, post, delete
    <2> QED
        BY <1>1, <1>2, <2>1, TwoFields
<1>4. CASE Len(path) = 3
    <2>1. Serv!TradeRoute(path) = [GET |-> one, DELETE |-> delete]
        BY <1>4 DEF Serv!TradeRoute
    <2> HIDE DEF all, one, post, delete
    <2> QED
        BY <1>1, <1>2, <2>1, TwoFields
<1>5. CASE ~(Len(path) =< 2) /\ Len(path) # 3
    <2>1. Serv!TradeRoute(path) = <<>>
        BY <1>5 DEF Serv!TradeRoute, Serv!NoRoute
    <2> QED
        BY <2>1
<1> QED
    BY <1>3, <1>4, <1>5

\* What the path gives, by the place of the market in it.
GivenBy(path) == Serv!Given(SubSeq(path, IF path[2] = "market" THEN 3 ELSE 4, Len(path)))

\* Every route of a path is sound.
LEMMA RefDataRouteSound ==
    ASSUME NEW path, NEW given, NEW method, method \in DOMAIN Serv!RefDataRoute(path)
    PROVE  IsSound(Serv!RefDataRoute(path)[method], method, given)
<1>1. CASE path = <<>> \/ path = <<"list">>
    <2>1. Serv!RefDataRoute(path) = [GET |-> Serv!Read("get_ref_data", "none")]
        BY <1>1 DEF Serv!RefDataRoute, Serv!Query
    <2> QED
        BY <2>1, ReadIsSound
<1>2. CASE path # <<>> /\ path # <<"list">> /\ Head(path) = "asset"
    <2>1. Serv!RefDataRoute(path) = Serv!AssetRoute(Tail(path))
        BY <1>2 DEF Serv!RefDataRoute
    <2> QED
        BY <2>1, QueryRoutes
<1>3. CASE path # <<>> /\ path # <<"list">> /\ Head(path) = "instr"
    <2>1. Serv!RefDataRoute(path) = Serv!InstrRoute(Tail(path))
        BY <1>3 DEF Serv!RefDataRoute
    <2> QED
        BY <2>1, QueryRoutes
<1>4. CASE path # <<>> /\ path # <<"list">> /\ Head(path) \notin {"asset", "instr"}
    <2>1. Serv!RefDataRoute(path) = <<>>
        BY <1>4 DEF Serv!RefDataRoute, Serv!NoRoute
    <2> QED
        BY <2>1
<1> QED
    BY <1>1, <1>2, <1>3, <1>4

\* The routes of the session are sound.
LEMMA SessRouteSound ==
    ASSUME NEW path \in Seq(STRING), NEW method, method \in DOMAIN Serv!SessRoute(path)
    PROVE  IsSound(Serv!SessRoute(path)[method], method, Serv!Given(Tail(path)))
<1>1. CASE path = <<>> \/ path = <<"list">>
    <2>1. Serv!SessRoute(path) = [GET |-> Serv!Read("get_sess", "trade")]
        BY <1>1 DEF Serv!SessRoute, Serv!Query
    <2> QED
        BY <2>1, TraderReadIsSound
<1>2. CASE path # <<>> /\ path # <<"list">>
    <2>1. Len(Tail(path)) \in Nat
        BY <1>2
    <2>2. CASE Head(path) = "market"
        <3>1. Serv!SessRoute(path) = Serv!MarketRoute(Tail(path))
            BY <1>2, <2>2 DEF Serv!SessRoute
        <3> QED
            BY <2>1, <3>1, MarketRouteSound
    <2>3. CASE Head(path) = "order"
        <3>1. Serv!SessRoute(path) = Serv!OrderRoute(Tail(path))
            BY <1>2, <2>3 DEF Serv!SessRoute
        <3> QED
            BY <2>1, <3>1, OrderRouteSound
    <2>4. CASE Head(path) = "exec"
        <3>1. Serv!SessRoute(path) = Serv!ExecRoute(Tail(path))
            BY <1>2, <2>4 DEF Serv!SessRoute
        <3> QED
            BY <3>1, QueryRoutes
    <2>5. CASE Head(path) = "trade"
        <3>1. Serv!SessRoute(path) = Serv!TradeRoute(Tail(path))
            BY <1>2, <2>5 DEF Serv!SessRoute
        <3> QED
            BY <2>1, <3>1, TradeRouteSound
    <2>6. CASE Head(path) = "posn"
        <3>1. Serv!SessRoute(path) = Serv!PosnRoute(Tail(path))
            BY <1>2, <2>6 DEF Serv!SessRoute
        <3> QED
            BY <3>1, QueryRoutes
    <2>7. CASE Head(path) \notin {"market", "order", "exec", "trade", "posn"}
        <3>1. Serv!SessRoute(path) = <<>>
            BY <1>2, <2>7 DEF Serv!SessRoute, Serv!NoRoute
        <3> QED
            BY <3>1
    <2> QED
        BY <2>2, <2>3, <2>4, <2>5, <2>6, <2>7
<1> QED
    BY <1>1, <1>2

\* Every route of every path is sound.
LEMMA RouteSound ==
    ASSUME NEW path \in Seq(STRING), NEW method, method \in DOMAIN Serv!Route(path)
    PROVE  IsSound(Serv!Route(path)[method], method, GivenBy(path))
<1>1. DOMAIN Serv!NoRoute = {}
    BY DEF Serv!NoRoute
<1>7. ~(Len(path) < 2 \/ Head(path) # "api")
    <2> SUFFICES ASSUME Len(path) < 2 \/ Head(path) # "api" PROVE FALSE
        OBVIOUS
    <2>2. Serv!Route(path) = Serv!NoRoute
        BY DEF Serv!Route
    <2> QED
        BY <1>1, <2>2
<1>8. path[2] \in {"refdata", "sess", "market"}
    <2> SUFFICES ASSUME path[2] \notin {"refdata", "sess", "market"} PROVE FALSE
        OBVIOUS
    <2>1. Serv!Route(path) = Serv!NoRoute
        BY <1>7 DEF Serv!Route
    <2> QED
        BY <1>1, <2>1
<1>2. Len(path) >= 2 /\ path[2] \in {"refdata", "sess", "market"}
    BY <1>7, <1>8
<1>9. SubSeq(path, 3, Len(path)) \in Seq(STRING)
    <2>1. \A i \in 3..Len(path) : path[i] \in STRING
        BY <1>2
    <2> QED
        BY <2>1, SubSeqProperties
<1>3. PICK rest3 \in Seq(STRING) : rest3 = SubSeq(path, 3, Len(path))
    BY <1>9
<1>4. CASE path[2] = "refdata"
    <2>1. Serv!Route(path) = Serv!RefDataRoute(rest3)
        BY <1>1, <1>3, <1>4 DEF Serv!Route
    <2> QED
        BY <2>1, RefDataRouteSound
<1>5. CASE path[2] = "sess"
    <2>1. Serv!Route(path) = Serv!SessRoute(rest3)
        BY <1>1, <1>3, <1>5 DEF Serv!Route
    <2>2. IsSound(Serv!Route(path)[method], method, Serv!Given(Tail(rest3)))
        BY <2>1, SessRouteSound
    <2>3. CASE rest3 = <<>>
        <3>1. Serv!SessRoute(rest3) = [GET |-> Serv!Read("get_sess", "trade")]
            BY <2>3 DEF Serv!SessRoute, Serv!Query
        <3> QED
            BY <2>1, <3>1, TraderReadIsSound
    <2>4. CASE rest3 # <<>>
        <3>1. Tail(rest3) = SubSeq(path, 4, Len(path))
            BY <1>2, <1>3, <2>4
        <3> QED
            BY <1>5, <2>2, <3>1 DEF GivenBy
    <2> QED
        BY <2>3, <2>4
<1>6. CASE path[2] = "market"
    <2>1. Serv!Route(path) = Serv!MarketRoute(rest3)
        BY <1>1, <1>3, <1>6 DEF Serv!Route
    <2>2. Len(rest3) \in Nat
        OBVIOUS
    <2> QED
        BY <1>3, <1>6, <2>1, <2>2, MarketRouteSound DEF GivenBy
<1> QED
    BY <1>2, <1>4, <1>5, <1>6


-----------------------------------------------------------------------------

\* What is collected of a request.
Collected == [method : Serv!Methods, path : Seq(STRING), accnt : BOOLEAN, perm : SUBSET Serv!Perms,
              fields : SUBSET Serv!AnyFields, partial : BOOLEAN]

\* What the last request came to is right.
OutcomeIsRight ==
    /\ outcome.status \in {0, 200, 204, 400, 401, 403, 404, 405, 500}
    /\ Serv!SuccessIsACall /\ Serv!CallsArePermitted /\ Serv!CommandsAreComplete

\* What is collected is what was sent, and a request that has not begun has nothing but
\* its method.
ServInv ==
    /\ asked = sent /\ sent \in Collected
    /\ sent.path = <<>> =>
        sent.accnt = FALSE /\ sent.perm = {} /\ sent.fields = {} /\ sent.partial = FALSE /\ parts = 0
    /\ parts \in 0..MaxParts /\ matchPath \in BOOLEAN /\ matchMethod \in BOOLEAN
    /\ ids = <<>>
    /\ OutcomeIsRight

\* A request that calls nothing does not succeed.
LEMMA NoCallIsRight ==
    ASSUME outcome'.call = Serv!NoOp, outcome'.status \in {0, 400, 401, 403, 404, 405}
    PROVE  OutcomeIsRight'
<1>1. outcome'.call.op = "none"
    BY DEF Serv!NoOp
<1>2. outcome'.status \notin {200, 204}
    OBVIOUS
<1> QED
    BY <1>1, <1>2 DEF OutcomeIsRight, Serv!SuccessIsACall, Serv!Succeeded, Serv!CallsArePermitted, Serv!CommandsAreComplete

\* One that is not refused has the rights and the fields of its route.
LEMMA CallIsRight ==
    ASSUME NEW r, NEW op, NEW status \in {200, 204, 404, 400, 500}, NEW cache0,
           r.path \in Seq(STRING), IsSound(op, r.method, GivenBy(r.path)), Serv!Refusal(r, op) = 0,
           outcome' = [status |-> status, cache |-> cache0, req |-> r,
                       call |-> [op |-> op.op, ids |-> Serv!ScopedIds(r.path)]]
    PROVE  OutcomeIsRight'
<1>1. /\ op.perm # "none" => r.accnt /\ op.perm \in r.perm
      /\ op.required \subseteq r.fields
    BY DEF Serv!Refusal
<1>2. /\ outcome'.call # Serv!NoOp /\ outcome'.call.op = op.op
      /\ outcome'.call.ids = Serv!ScopedIds(r.path)
      /\ outcome'.req = r /\ outcome'.status = status
    BY DEF IsSound, Serv!NoOp
<1>3. Serv!SuccessIsACall'
    BY <1>2 DEF Serv!SuccessIsACall
<1>4. Serv!CallsArePermitted'
    <2>1. op.op \in ForAdmins => r.accnt /\ "admin" \in r.perm
        BY <1>1 DEF IsSound
    <2>2. op.op \in ForTraders => r.accnt /\ "trade" \in r.perm
        BY <1>1 DEF IsSound
    <2>3. r.method = "GET" => op.op \notin Commands
        BY DEF IsSound
    <2> QED
        BY <1>2, <2>1, <2>2, <2>3 DEF Serv!CallsArePermitted, ForAdmins, ForTraders, Commands
<1>5. Serv!CommandsAreComplete'
    <2>1. op.required \union GivenBy(r.path) \subseteq r.fields \union GivenBy(r.path)
        BY <1>1
    <2>2. /\ op.op \in {"post_market", "put_market"} =>
                {"instr", "settl_date"} \subseteq r.fields \union GivenBy(r.path)
          /\ op.op = "put_market" => "state" \in r.fields \union GivenBy(r.path)
          /\ op.op = "post_order" =>
                {"instr", "settl_date", "side", "lots", "ticks"} \subseteq r.fields \union GivenBy(r.path)
          /\ op.op = "post_trade" =>
                {"instr", "settl_date", "accnt", "side", "lots"} \subseteq r.fields \union GivenBy(r.path)
          /\ op.op = "put_order" => "lots" \in r.fields \union GivenBy(r.path)
        BY <2>1 DEF IsSound
    <2>3. GivenBy(r.path) =
            Serv!Given(SubSeq(r.path, IF outcome'.call # Serv!NoOp /\ r.path[2] = "market" THEN 3 ELSE 4,
                              Len(r.path)))
        BY <1>2 DEF GivenBy
    <2> QED
        BY <1>2, <2>2, <2>3 DEF Serv!CommandsAreComplete
<1> QED
    BY <1>2, <1>3, <1>4, <1>5 DEF OutcomeIsRight

\* The invariant holds before the first request.
LEMMA ServStarts == Serv!Init => ServInv
<1> SUFFICES ASSUME Serv!Init PROVE ServInv
    OBVIOUS
<1>1. 0 \in 0..MaxParts
    BY WebAssumption DEF WebAssumption, Serv!RestServAssumption
<1>2. outcome.status = 0 /\ outcome.call = Serv!NoOp /\ outcome.call.op = "none"
    BY DEF Serv!Init, Serv!Unanswered, Serv!NoOp
<1>3. OutcomeIsRight
    BY <1>2 DEF OutcomeIsRight, Serv!SuccessIsACall, Serv!Succeeded, Serv!CallsArePermitted,
                Serv!CommandsAreComplete
<1>4. /\ asked = sent /\ sent \in Collected
      /\ sent.accnt = FALSE /\ sent.perm = {} /\ sent.fields = {} /\ sent.partial = FALSE
    BY DEF Serv!Init, Serv!Blank, Serv!Methods, Collected
<1>5. parts = 0 /\ matchPath = FALSE /\ matchMethod = FALSE /\ ids = <<>>
    BY DEF Serv!Init
<1> QED
    BY <1>1, <1>3, <1>4, <1>5 DEF ServInv

\* The next request begins with nothing of the last one.
LEMMA BeginKeeps ==
    ASSUME ServInv, NEW method \in Serv!Methods, NEW path \in Paths, Serv!Begin(method, path)
    PROVE  ServInv'
<1>1. path \in Seq(STRING) /\ <<>> \o path = path
    BY WebAssumption, ConcatEmptySeq DEF WebAssumption, Serv!RestServAssumption
<1>2. /\ sent.path = <<>>
      /\ asked' = [asked EXCEPT !.path = @ \o path, !.method = method]
      /\ sent' = [Serv!Blank EXCEPT !.path = path, !.method = method]
      /\ outcome' = Serv!Unanswered
      /\ UNCHANGED <<parts, ids, matchPath, matchMethod>>
    BY DEF Serv!Begin
<1>3. sent' = [method |-> method, path |-> path, accnt |-> FALSE, perm |-> {}, fields |-> {},
               partial |-> FALSE]
    BY <1>2 DEF Serv!Blank
<1>4. asked' = sent'
    <2>1. asked \in Collected
        BY DEF ServInv
    <2>2. asked' = [method |-> method, path |-> asked.path \o path, accnt |-> asked.accnt,
                    perm |-> asked.perm, fields |-> asked.fields, partial |-> asked.partial]
        BY <1>2, <2>1 DEF Collected
    <2>3. /\ asked.path = <<>> /\ asked.accnt = FALSE /\ asked.perm = {} /\ asked.fields = {}
          /\ asked.partial = FALSE
        BY <1>2 DEF ServInv
    <2> QED
        BY <1>1, <1>3, <2>2, <2>3
<1>5. outcome'.call = Serv!NoOp /\ outcome'.status = 0
    BY <1>2 DEF Serv!Unanswered
<1>6. OutcomeIsRight'
    BY <1>5, NoCallIsRight
<1>7. sent' \in Collected
    BY <1>1, <1>3 DEF Collected
<1>8. /\ sent'.accnt = FALSE /\ sent'.perm = {} /\ sent'.fields = {} /\ sent'.partial = FALSE
      /\ parts' = 0
    <2>1. parts = 0
        BY <1>2 DEF ServInv
    <2>2. parts' = parts
        BY <1>2
    <2> QED
        BY <1>3, <2>1, <2>2
<1> QED
    BY <1>2, <1>4, <1>6, <1>7, <1>8 DEF ServInv

\* What is collected later leaves the last outcome alone.
LEMMA SameOutcome ==
    ASSUME ServInv, UNCHANGED outcome
    PROVE  OutcomeIsRight'
    BY DEF ServInv, OutcomeIsRight, Serv!SuccessIsACall, Serv!Succeeded, Serv!CallsArePermitted, Serv!CommandsAreComplete

\* The headers of a request have been read.
LEMMA HeadersKeep ==
    ASSUME ServInv, NEW accnt \in BOOLEAN, NEW perm \in SUBSET Serv!Perms,
           Serv!Headers(accnt, perm)
    PROVE  ServInv'
<1>1. /\ sent.path # <<>> /\ ~sent.accnt /\ sent.perm = {}
      /\ asked' = [asked EXCEPT !.accnt = @ \/ accnt, !.perm = @ \union perm]
      /\ sent' = [sent EXCEPT !.accnt = accnt, !.perm = perm]
      /\ UNCHANGED <<parts, ids, matchPath, matchMethod, outcome>>
    BY DEF Serv!Headers
<1>2. asked = sent /\ sent \in Collected
    BY DEF ServInv
<1>3. sent' = [method |-> sent.method, path |-> sent.path, accnt |-> accnt, perm |-> perm,
               fields |-> sent.fields, partial |-> sent.partial]
    BY <1>1, <1>2 DEF Collected
<1>4. asked' = [method |-> sent.method, path |-> sent.path, accnt |-> sent.accnt \/ accnt,
                perm |-> sent.perm \union perm, fields |-> sent.fields, partial |-> sent.partial]
    BY <1>1, <1>2 DEF Collected
<1>5. sent.perm \union perm = perm
    BY <1>1
<1>6. (sent.accnt \/ accnt) = accnt
    BY <1>1
<1>7. asked' = sent'
    BY <1>3, <1>4, <1>5, <1>6
<1>8. sent' \in Collected
    BY <1>2, <1>3 DEF Collected
<1>9. sent'.path # <<>>
    BY <1>1, <1>3
<1>10. OutcomeIsRight'
    BY <1>1, SameOutcome
<1> QED
    BY <1>1, <1>7, <1>8, <1>9, <1>10 DEF ServInv

\* The body of a request has been read.
LEMMA BodyKeeps ==
    ASSUME ServInv, NEW fields0 \in Bodies, NEW complete \in BOOLEAN, Serv!Body(fields0, complete)
    PROVE  ServInv'
<1>1. /\ sent.path # <<>> /\ parts < MaxParts
      /\ asked' = [asked EXCEPT !.fields = @ \union fields0, !.partial = ~complete]
      /\ sent' = [sent EXCEPT !.fields = @ \union fields0, !.partial = ~complete]
      /\ parts' = parts + 1
      /\ UNCHANGED <<ids, matchPath, matchMethod, outcome>>
    BY DEF Serv!Body
<1>2. asked' = sent'
    BY <1>1 DEF ServInv
<1>3. sent' = [method |-> sent.method, path |-> sent.path, accnt |-> sent.accnt, perm |-> sent.perm,
               fields |-> sent.fields \union fields0, partial |-> ~complete]
    BY <1>1 DEF ServInv, Collected
<1>4. fields0 \subseteq Serv!AnyFields
    BY DEF Serv!AnyFields
<1>5. MaxParts \in Nat
    BY WebAssumption DEF WebAssumption, Serv!RestServAssumption
<1>6. parts' \in 0..MaxParts
    BY <1>1, <1>5 DEF ServInv
<1>7. sent' \in Collected
    BY <1>3, <1>4 DEF ServInv, Collected
<1>8. sent'.path # <<>>
    BY <1>1, <1>3 DEF ServInv
<1>9. OutcomeIsRight'
    BY <1>1, SameOutcome
<1> QED
    BY <1>1, <1>2, <1>6, <1>7, <1>8, <1>9 DEF ServInv

\* The request is handled.
LEMMA HandleKeeps ==
    ASSUME ServInv, Serv!Handle
    PROVE  ServInv'
<1>1. asked = sent /\ ids = <<>> /\ sent.path \in Seq(STRING) /\ sent.partial \in BOOLEAN
    BY DEF ServInv, Collected
<1>2. PICK r, p, op : r = Serv!Route(sent.path) /\ p = sent.path /\ op = r[sent.method]
    OBVIOUS
<1>3. ids \o Serv!ScopedIds(sent.path) = Serv!ScopedIds(sent.path)
    <2>1. Serv!ScopedIds(sent.path) \in Seq(Nat)
        BY DEF Serv!ScopedIds
    <2> QED
        BY <1>1, <2>1, ConcatEmptySeq
<1>4. asked' = Serv!Blank /\ sent' = Serv!Blank /\ parts' = 0
    BY DEF Serv!Handle, Serv!Cleared
<1>5. matchPath' \in BOOLEAN /\ matchMethod' \in BOOLEAN
    BY <1>1 DEF Serv!Handle, Serv!Reset
<1>6. ids' = <<>>
    BY <1>1 DEF Serv!Handle, Serv!IdsAfter
<1>7. OutcomeIsRight'
    <2>1. CASE asked.partial
        <3>1. outcome'.call = Serv!NoOp /\ outcome'.status = 400
            BY <2>1 DEF Serv!Handle, Serv!Answer
        <3> QED
            BY <3>1, NoCallIsRight
    <2>2. CASE ~asked.partial /\ asked.method \notin DOMAIN Serv!Route(asked.path)
        <3>1. outcome'.call = Serv!NoOp /\ outcome'.status \in {404, 405}
            BY <2>2 DEF Serv!Handle, Serv!Answer, Serv!Reset
        <3> QED
            BY <3>1, NoCallIsRight
    <2>3. CASE /\ ~asked.partial /\ asked.method \in DOMAIN Serv!Route(asked.path)
               /\ Serv!Refusal(asked, op) # 0
        <3>1. outcome'.call = Serv!NoOp /\ outcome'.status = Serv!Refusal(asked, op)
            BY <1>1, <1>2, <2>3 DEF Serv!Handle, Serv!Answer
        <3>2. Serv!Refusal(asked, op) \in {400, 401, 403}
            BY <2>3 DEF Serv!Refusal
        <3> QED
            BY <3>1, <3>2, NoCallIsRight
    <2>4. CASE /\ ~asked.partial /\ asked.method \in DOMAIN Serv!Route(asked.path)
               /\ Serv!Refusal(asked, op) = 0
        <3>1. PICK status \in Serv!AppStatus(asked) :
                Serv!Answer(status, [op |-> op.op, ids |-> ids \o Serv!ScopedIds(asked.path)])
            BY <1>1, <1>2, <2>4 DEF Serv!Handle
        <3>2. outcome' = [status |-> status, cache |-> Serv!Cache(asked), req |-> sent,
                          call |-> [op |-> op.op, ids |-> Serv!ScopedIds(sent.path)]]
            BY <1>1, <1>3, <3>1 DEF Serv!Answer
        <3>3. status \in {200, 204, 404, 400, 500}
            BY <3>1 DEF Serv!AppStatus, Serv!Done
        <3>4. IsSound(op, sent.method, GivenBy(sent.path))
            BY <1>1, <1>2, <2>4, RouteSound
        <3>5. PICK s0, c0 : s0 = sent /\ c0 = Serv!Cache(asked)
            OBVIOUS
        <3> QED
            BY <1>1, <2>4, <3>2, <3>3, <3>4, <3>5, CallIsRight
    <2> QED
        BY <2>1, <2>2, <2>3, <2>4
<1>8. MaxParts \in Nat
    BY WebAssumption DEF WebAssumption, Serv!RestServAssumption
<1>9. Serv!Blank \in Collected
    BY DEF Serv!Blank, Serv!Methods, Collected
<1>10. /\ Serv!Blank.accnt = FALSE /\ Serv!Blank.perm = {} /\ Serv!Blank.fields = {}
       /\ Serv!Blank.partial = FALSE
    BY DEF Serv!Blank
<1> QED
    BY <1>4, <1>5, <1>6, <1>7, <1>8, <1>9, <1>10 DEF ServInv

\* A step that leaves the requests alone keeps their invariant.
LEMMA ServRests ==
    ASSUME ServInv, UNCHANGED servVars
    PROVE  ServInv'
<1>1. UNCHANGED <<asked, sent, parts, ids, matchPath, matchMethod, outcome>>
    BY DEF servVars
<1>2. OutcomeIsRight'
    BY <1>1, SameOutcome
<1>3. Collected' = Collected
    BY DEF Collected, Serv!AnyFields
<1> QED
    BY <1>1, <1>2, <1>3 DEF ServInv

\* A step of the whole is one of the requests' or leaves them alone.
LEMMA WebStepsServ == ServInv /\ [Next]_vars => ServInv'
<1> SUFFICES ASSUME ServInv, [Next]_vars PROVE ServInv'
    OBVIOUS
<1>1. CASE ServNext
    BY <1>1, BeginKeeps, HeadersKeep, BodyKeeps, HandleKeeps DEF ServNext, Serv!Next
<1>2. CASE UNCHANGED servVars
    BY <1>2, ServRests
<1>3. CASE UNCHANGED vars
    BY <1>3, ServRests DEF vars
<1>4. ServNext \/ UNCHANGED servVars \/ UNCHANGED vars
    BY DEF Next, SessNext, RequestNext, AnswerNext, BodyNext, PairsNext, AgainNext, ServNext,
           ClientNext, FixNext, DatesNext, DayNext
<1> QED
    BY <1>1, <1>2, <1>3, <1>4

\* The inductive invariant of the requests (HttpRequest, RestServ).
THEOREM ServInvHolds == Spec => []ServInv
<1>1. Init => ServInv
    BY ServStarts DEF Init
<1> QED
    BY <1>1, WebStepsServ, PTL DEF Spec

\* A request calls what its own path, method, fields and rights ask for, and nothing of the
\* requests before it, whatever the paths and bodies that clients send (RestServ.cpp).
THEOREM RequestsCallWhatTheyAsk == Spec => []RequestsCallTheirOwn
<1>1. ServInv => RequestsCallTheirOwn
    BY DEF ServInv, OutcomeIsRight, Collected, RequestsCallTheirOwn, Serv!TypeOK, Serv!NothingOfEarlierRequests
<1> QED
    BY <1>1, ServInvHolds, PTL

-----------------------------------------------------------------------------
(* The client of the user interface.                                         *)

\* The slots with a request or a reply, and those whose request failed.
BusyOf(nt) == {s \in Client!Slots : nt[s] # Client!Free}
FailedOf(nt) == {s \in Client!Slots : nt[s].kind = "Failure"}

\* Orders of which no exec but the first n has been heard, and rows that know their
\* instruments.
OrdersOf(os, n) == \A id \in DOMAIN os : id \in 1..n /\ os[id] \in id..n
RowsOf(rs, n) ==
    \A id \in DOMAIN rs :
        /\ id \in 1..n /\ rs[id].exec \in id..n /\ rs[id].known = TRUE
        /\ rs[id] \in [exec : Nat, marked : BOOLEAN, known : BOOLEAN]

\* What may be under way when there are n execs.
IsMessage(m, n) ==
    /\ m.kind = "free" => m = Client!Free
    /\ m.kind = "PutOrder" => m.id \in 1..n
    /\ m.kind = "SessReply" => OrdersOf(m.orders, n) /\ m.execs \in Seq(1..n)
    /\ m.kind = "OrderReply" => m.id \in 1..n /\ m.exec \in m.id..n

\* Kinds that are under way only when the instruments are known: the rows that come
\* of them have theirs.
AfterRefData == {"GetSess", "SessReply", "PostOrder", "PutOrder", "OrderReply"}

NetOf(nt, n) ==
    /\ nt = [s \in Client!Slots |-> nt[s]]
    /\ \A s \in Client!Slots : IsMessage(nt[s], n)

\* Without the instruments there is nothing to show, and nothing that could bring it.
InstrsComeFirst(known, rs, nt) ==
    known \/ (DOMAIN rs = {} /\ \A s \in Client!Slots : nt[s].kind \notin AfterRefData)

\* The errors that are counted and those that will be are faults.
FaultsOf(n, nt, max) == n \in Nat /\ max \in 0..MaxFaults /\ n + Cardinality(FailedOf(nt)) =< max

ExecsOf(es, n) == es \in Seq(1..n) /\ Len(es) =< MaxExecs

ClientInv ==
    /\ nexecs \in Nat /\ instrs \in BOOLEAN
    /\ OrdersOf(orders, nexecs) /\ NetOf(net, nexecs)
    /\ RowsOf(rows, nexecs) /\ ExecsOf(execs, nexecs)
    /\ calls = Cardinality(BusyOf(net)) /\ FaultsOf(errors, net, faults)
    /\ InstrsComeFirst(instrs, rows, net)

-----------------------------------------------------------------------------

\* What holds at zero and is handed on by every number holds of all of them.
LEMMA NumberInduction ==
    ASSUME NEW G \in SUBSET Nat, 0 \in G, \A i \in G : i + 1 \in G
    PROVE  G = Nat
<1> DEFINE R == {p \in Nat \X Nat : p[1] < p[2]}
           T == Nat \ G
<1>1. OpToRel(<, Nat) = R
    BY DEF OpToRel
<1>2. IsWellFoundedOn(R, Nat)
    BY <1>1, NatLessThanWellFounded
<1>3. ASSUME T # {} PROVE FALSE
    <2>1. PICK x \in T : \A y \in T : <<y, x>> \notin R
        BY <1>2, <1>3, WFMin
    <2>2. x - 1 \in Nat /\ <<x - 1, x>> \in R
        BY <2>1
    <2> QED
        BY <2>1, <2>2
<1> QED
    BY <1>3

\* A set of numbers has a least one.
LEMMA LeastNumber ==
    ASSUME NEW T, T \subseteq Nat, T # {}
    PROVE  \E m \in T : \A k \in T : m =< k
<1> DEFINE R == {ss \in Nat \X Nat : ss[1] < ss[2]}
<1>1. IsWellFoundedOn(R, Nat)
    BY NatLessThanWellFounded DEF OpToRel
<1>2. PICK x \in T : \A y \in T : <<y, x>> \notin R
    BY <1>1, WFMin
<1>3. ASSUME NEW y \in T
      PROVE  x =< y
    <2>1. <<y, x>> \notin R /\ y \in Nat /\ x \in Nat
        BY <1>2
    <2>2. y < x => <<y, x>> \in R
        BY <2>1
    <2> QED
        BY <2>1, <2>2
<1> QED
    BY <1>3

\* The bounds of the client.
LEMMA ClientBounds ==
    /\ MaxExecs \in Nat \ {0} /\ MaxConns \in Nat \ {0}
    /\ MaxAsks \in Nat /\ MaxFills \in Nat /\ MaxFaults \in Nat
    BY WebAssumption DEF WebAssumption, Client!UiClientAssumption

\* Its slots are so many that they can be counted.
LEMMA SlotsAreFinite == IsFiniteSet(Client!Slots) /\ Client!Slots \subseteq Nat
    BY ClientBounds, FS_Interval DEF Client!Slots

\* An element that is put into a finite set, or taken out.
LEMMA PutOrTake ==
    ASSUME NEW A, IsFiniteSet(A), NEW x, NEW p \in BOOLEAN, NEW B,
           B = IF p THEN A \union {x} ELSE A \ {x}
    PROVE  /\ Cardinality(A) \in Nat /\ Cardinality(B) \in Nat
           /\ Cardinality(B) = Cardinality(A) + (IF p THEN 1 ELSE 0) - (IF x \in A THEN 1 ELSE 0)
<1>1. IsFiniteSet(B)
    BY FS_AddElement, FS_RemoveElement
<1>2. Cardinality(A) \in Nat /\ Cardinality(B) \in Nat
    BY <1>1, FS_CardinalityType
<1>3. /\ Cardinality(A \union {x}) = IF x \in A THEN Cardinality(A) ELSE Cardinality(A) + 1
      /\ Cardinality(A \ {x}) = IF x \in A THEN Cardinality(A) - 1 ELSE Cardinality(A)
    BY FS_AddElement, FS_RemoveElement
<1> QED
    BY <1>2, <1>3

\* A slot that gets another message: how many are busy and how many failed.
Changed(nt, s, m, n, nt2) ==
    /\ NetOf(nt2, n)
    /\ nt2[s] = m /\ \A t \in Client!Slots : t # s => nt2[t] = nt[t]
    /\ Cardinality(BusyOf(nt)) \in Nat /\ Cardinality(BusyOf(nt2)) \in Nat
    /\ Cardinality(FailedOf(nt)) \in Nat /\ Cardinality(FailedOf(nt2)) \in Nat
    /\ Cardinality(BusyOf(nt2)) = Cardinality(BusyOf(nt))
         + (IF m # Client!Free THEN 1 ELSE 0) - (IF nt[s] # Client!Free THEN 1 ELSE 0)
    /\ Cardinality(FailedOf(nt2)) = Cardinality(FailedOf(nt))
         + (IF m.kind = "Failure" THEN 1 ELSE 0) - (IF nt[s].kind = "Failure" THEN 1 ELSE 0)

\* A slot may get any message.
LEMMA SlotChanges ==
    ASSUME NEW nt, NEW n, NetOf(nt, n), NEW s \in Client!Slots, NEW m, IsMessage(m, n), NEW nt2,
           nt2 = [nt EXCEPT ![s] = m]
    PROVE  Changed(nt, s, m, n, nt2)
<1>1. nt2 = [t \in Client!Slots |-> IF t = s THEN m ELSE nt[t]]
    BY DEF NetOf
<1>2. nt2[s] = m /\ \A t \in Client!Slots : t # s => nt2[t] = nt[t]
    BY <1>1
<1>3. NetOf(nt2, n)
    BY <1>1, <1>2 DEF NetOf
<1>4. IsFiniteSet(BusyOf(nt)) /\ IsFiniteSet(FailedOf(nt))
    BY SlotsAreFinite, FS_Subset DEF BusyOf, FailedOf
<1>5. BusyOf(nt2) = IF m # Client!Free THEN BusyOf(nt) \union {s} ELSE BusyOf(nt) \ {s}
    BY <1>2 DEF BusyOf
<1>6. FailedOf(nt2) = IF m.kind = "Failure" THEN FailedOf(nt) \union {s} ELSE FailedOf(nt) \ {s}
    BY <1>2 DEF FailedOf
<1>7. /\ s \in BusyOf(nt) <=> nt[s] # Client!Free
      /\ s \in FailedOf(nt) <=> nt[s].kind = "Failure"
    BY DEF BusyOf, FailedOf
<1>8. PICK p \in BOOLEAN, q \in BOOLEAN : p = (m # Client!Free) /\ q = (m.kind = "Failure")
    OBVIOUS
<1>9. /\ Cardinality(BusyOf(nt)) \in Nat /\ Cardinality(BusyOf(nt2)) \in Nat
      /\ Cardinality(BusyOf(nt2)) = Cardinality(BusyOf(nt)) + (IF p THEN 1 ELSE 0)
            - (IF s \in BusyOf(nt) THEN 1 ELSE 0)
    <2>1. BusyOf(nt2) = IF p THEN BusyOf(nt) \union {s} ELSE BusyOf(nt) \ {s}
        BY <1>5, <1>8
    <2> QED
        BY ONLY <1>4, <2>1, p \in BOOLEAN, PutOrTake
<1>10. /\ Cardinality(FailedOf(nt)) \in Nat /\ Cardinality(FailedOf(nt2)) \in Nat
       /\ Cardinality(FailedOf(nt2)) = Cardinality(FailedOf(nt)) + (IF q THEN 1 ELSE 0)
            - (IF s \in FailedOf(nt) THEN 1 ELSE 0)
    <2>1. FailedOf(nt2) = IF q THEN FailedOf(nt) \union {s} ELSE FailedOf(nt) \ {s}
        BY <1>6, <1>8
    <2> QED
        BY ONLY <1>4, <2>1, q \in BOOLEAN, PutOrTake
<1> QED
    BY <1>2, <1>3, <1>7, <1>8, <1>9, <1>10 DEF Changed

\* With one more exec, all is as it should be as before.
LEMMA OneMoreExec ==
    ASSUME NEW n \in Nat
    PROVE  /\ \A os : OrdersOf(os, n) => OrdersOf(os, n + 1)
           /\ \A rs : RowsOf(rs, n) => RowsOf(rs, n + 1)
           /\ \A es : ExecsOf(es, n) => ExecsOf(es, n + 1)
           /\ \A nt : NetOf(nt, n) => NetOf(nt, n + 1)
<1>1. 1..n \subseteq 1..(n + 1) /\ \A id \in 1..n : id..n \subseteq id..(n + 1)
    OBVIOUS
<1>2. \A os : OrdersOf(os, n) => OrdersOf(os, n + 1)
    BY <1>1 DEF OrdersOf
<1>3. \A rs : RowsOf(rs, n) => RowsOf(rs, n + 1)
    BY <1>1 DEF RowsOf
<1>4. \A es \in Seq(1..n) : es \in Seq(1..(n + 1))
    <2>1. SUFFICES ASSUME NEW es \in Seq(1..n)
                   PROVE  es \in Seq(1..(n + 1))
        OBVIOUS
    <2>2. Len(es) \in Nat /\ \A i \in 1..Len(es) : es[i] \in 1..(n + 1)
        BY <1>1
    <2>3. es = [i \in 1..Len(es) |-> es[i]]
        OBVIOUS
    <2>4. [i \in 1..Len(es) |-> es[i]] \in Seq(1..(n + 1))
        BY <2>2
    <2> QED
        BY <2>3, <2>4
<1>5. \A es : ExecsOf(es, n) => ExecsOf(es, n + 1)
    BY <1>4 DEF ExecsOf
<1>6. \A m : IsMessage(m, n) => IsMessage(m, n + 1)
    BY <1>1, <1>2, <1>4 DEF IsMessage
<1>7. \A nt : NetOf(nt, n) => NetOf(nt, n + 1)
    BY <1>6 DEF NetOf
<1> QED
    BY <1>2, <1>3, <1>5, <1>7

-----------------------------------------------------------------------------
(* Its tables. *)

\* The beginning of a sequence.
LEMMA Beginning ==
    ASSUME NEW S, NEW t \in Seq(S), NEW n \in Nat, n =< Len(t)
    PROVE  SubSeq(t, 1, n) \in Seq(S) /\ Len(SubSeq(t, 1, n)) = n
    OBVIOUS

\* The row of an exec is put in front, and the oldest of too many leaves.
LEMMA ExecIsAdded ==
    ASSUME NEW n \in Nat, NEW es, ExecsOf(es, n), NEW e \in 1..n
    PROVE  ExecsOf(Client!UpdateExec(es, e), n)
<1>1. es \in Seq(1..n) /\ Len(es) \in Nat /\ Len(es) =< MaxExecs
    BY DEF ExecsOf
<1>2. CASE e \in Client!ToSet(es)
    BY <1>2 DEF Client!UpdateExec
<1>3. CASE e \notin Client!ToSet(es)
    <2>1. PICK back : back = IF Len(es) = MaxExecs THEN Client!Front(es) ELSE es
        OBVIOUS
    <2>2. Client!UpdateExec(es, e) = <<e>> \o back
        BY <1>3, <2>1 DEF Client!UpdateExec
    <2>3. back \in Seq(1..n) /\ Len(back) \in Nat /\ Len(back) + 1 =< MaxExecs
        <3>1. CASE Len(es) = MaxExecs
            <4>1. back = SubSeq(es, 1, Len(es) - 1)
                BY <2>1, <3>1 DEF Client!Front
            <4>2. Len(es) - 1 \in Nat /\ Len(es) - 1 =< Len(es)
                BY <1>1, <3>1, ClientBounds
            <4>3. back \in Seq(1..n) /\ Len(back) = Len(es) - 1
                BY <1>1, <4>1, <4>2, Beginning
            <4> QED
                BY <3>1, <4>2, <4>3
        <3>2. CASE Len(es) # MaxExecs
            BY <1>1, <2>1, <3>2, ClientBounds
        <3> QED
            BY <3>1, <3>2
    <2>4. <<e>> \in Seq(1..n) /\ Len(<<e>>) = 1
        OBVIOUS
    <2>5. <<e>> \o back \in Seq(1..n) /\ Len(<<e>> \o back) = 1 + Len(back)
        BY <2>3, <2>4, ConcatProperties
    <2> QED
        BY <2>2, <2>3, <2>5 DEF ExecsOf
<1> QED
    BY <1>2, <1>3

\* The recursive function behind UpdateExecs.
IsUpdated(f, k, table, es) ==
    f = [i \in 0..k |->
            IF i = 0 THEN table ELSE Client!UpdateExec(f[i - 1], es[Len(es) + 1 - i])]

\* The loop over the execs of a reply gets to its end.
LEMMA UpdatedExists ==
    ASSUME NEW table, NEW es, NEW n \in Nat
    PROVE  \E f : IsUpdated(f, n, table, es)
<1> DEFINE Good == {k \in Nat : \E f : IsUpdated(f, k, table, es)}
           g(i, t) == Client!UpdateExec(t, es[Len(es) + 1 - i])
<1> HIDE DEF g
<1>1. 0 \in Good
    <2>1. IsUpdated([i \in 0..0 |-> table], 0, table, es)
        BY DEF IsUpdated
    <2> QED
        BY <2>1
<1>2. ASSUME NEW k \in Nat, k \in Good
      PROVE  k + 1 \in Good
    <2>1. PICK f : f = [i \in 0..k |-> IF i = 0 THEN table ELSE g(i, f[i - 1])]
        BY <1>2 DEF IsUpdated, g
    <2> DEFINE h == [i \in 0..(k + 1) |-> IF i = k + 1 THEN g(k + 1, f[k]) ELSE f[i]]
    <2>2. \A i \in 0..k : h[i] = f[i]
        OBVIOUS
    <2>3. h[k + 1] = g(k + 1, h[k])
        OBVIOUS
    <2>4. \A i \in 1..k : h[i] = g(i, h[i - 1])
        BY <2>1, <2>2
    <2>5. h[0] = table
        BY <2>1
    <2>6. \A i \in 0..(k + 1) : h[i] = IF i = 0 THEN table ELSE g(i, h[i - 1])
        <3>1. \A i \in 0..(k + 1) : i = 0 \/ i \in 1..k \/ (i = k + 1 /\ i - 1 = k /\ i # 0)
            OBVIOUS
        <3> HIDE DEF h
        <3> QED
            BY <2>3, <2>4, <2>5, <3>1
    <2>7. IsUpdated(h, k + 1, table, es)
        <3>1. h = [i \in 0..(k + 1) |-> h[i]]
            OBVIOUS
        <3> HIDE DEF h
        <3> QED
            BY <2>6, <3>1 DEF IsUpdated, g
    <2> QED
        BY <2>7
<1> HIDE DEF Good
<1>3. Good \in SUBSET Nat
    BY DEF Good
<1>4. n \in Good
    BY <1>1, <1>2, <1>3, NumberInduction
<1> QED
    BY <1>4 DEF Good

\* The execs of a reply are added one after the other.
LEMMA ExecsAreAdded ==
    ASSUME NEW n \in Nat, NEW table, ExecsOf(table, n), NEW es \in Seq(1..n)
    PROVE  ExecsOf(Client!UpdateExecs(table, es), n)
<1>1. PICK f : f = CHOOSE g : IsUpdated(g, Len(es), table, es)
    OBVIOUS
<1>2. IsUpdated(f, Len(es), table, es)
    <2>1. \E g : IsUpdated(g, Len(es), table, es)
        BY Len(es) \in Nat, UpdatedExists
    <2> QED
        BY <1>1, <2>1
<1>3. Client!UpdateExecs(table, es) = f[Len(es)]
    BY <1>1 DEF Client!UpdateExecs, IsUpdated
<1>4. \A i \in 0..Len(es) :
        f[i] = IF i = 0 THEN table ELSE Client!UpdateExec(f[i - 1], es[Len(es) + 1 - i])
    BY <1>2 DEF IsUpdated
<1> DEFINE Good == {i \in Nat : i =< Len(es) => ExecsOf(f[i], n)}
<1>5. 0 \in Good
    BY <1>4
<1>6. ASSUME NEW i \in Good
      PROVE  i + 1 \in Good
    <2>1. SUFFICES ASSUME i + 1 =< Len(es)
                   PROVE  ExecsOf(f[i + 1], n)
        OBVIOUS
    <2>2. i + 1 \in 0..Len(es) /\ i + 1 # 0 /\ (i + 1) - 1 = i /\ ExecsOf(f[i], n)
        BY <2>1
    <2>3. Len(es) + 1 - (i + 1) \in 1..Len(es)
        BY <2>1
    <2>4. PICK k : k = Len(es) + 1 - (i + 1)
        OBVIOUS
    <2>5. es[k] \in 1..n
        BY <2>3, <2>4
    <2>6. f[i + 1] = Client!UpdateExec(f[i], es[k])
        BY <1>4, <2>2, <2>4
    <2> QED
        BY <2>2, <2>5, <2>6, ExecIsAdded
<1> HIDE DEF Good
<1>7. Good \in SUBSET Nat
    BY DEF Good
<1>8. Len(es) \in Good
    BY <1>5, <1>6, <1>7, Len(es) \in Nat, NumberInduction
<1> QED
    BY <1>3, <1>8, Len(es) \in Nat DEF Good

\* A row but for its mark.
LEMMA RowMarked ==
    ASSUME NEW r \in [exec : Nat, marked : BOOLEAN, known : BOOLEAN], NEW b \in BOOLEAN
    PROVE  [r EXCEPT !.marked = b] = [exec |-> r.exec, marked |-> b, known |-> r.known]
    OBVIOUS

\* A new tag marks no row.
LEMMA TagKeepsRows ==
    ASSUME NEW n \in Nat, NEW rs, RowsOf(rs, n)
    PROVE  RowsOf(Client!NewTag(rs), n) /\ DOMAIN Client!NewTag(rs) = DOMAIN rs
<1>1. DOMAIN Client!NewTag(rs) = DOMAIN rs
    BY DEF Client!NewTag
<1>2. ASSUME NEW id \in DOMAIN rs
      PROVE  /\ id \in 1..n /\ rs[id].exec \in id..n
             /\ Client!NewTag(rs)[id] = [exec |-> rs[id].exec, marked |-> FALSE, known |-> TRUE]
    <2>1. PICK r : r = rs[id]
        OBVIOUS
    <2>2. /\ id \in 1..n /\ r.exec \in id..n /\ r.known = TRUE
          /\ r \in [exec : Nat, marked : BOOLEAN, known : BOOLEAN]
        BY <2>1 DEF RowsOf
    <2>3. Client!NewTag(rs)[id] = [r EXCEPT !.marked = FALSE]
        BY <2>1 DEF Client!NewTag
    <2> QED
        BY <2>1, <2>2, <2>3, RowMarked
<1>3. ASSUME NEW id \in DOMAIN rs, NEW r, r = Client!NewTag(rs)[id]
      PROVE  /\ id \in 1..n /\ r.exec \in id..n /\ r.known = TRUE
             /\ r \in [exec : Nat, marked : BOOLEAN, known : BOOLEAN]
    <2>1. PICK e : e = rs[id].exec
        OBVIOUS
    <2>2. id \in 1..n /\ e \in id..n /\ r = [exec |-> e, marked |-> FALSE, known |-> TRUE]
        BY <1>2, <1>3, <2>1
    <2>3. e \in Nat
        BY <2>2
    <2> QED
        BY <2>2, <2>3
<1> QED
    BY <1>1, <1>3 DEF RowsOf

\* A row that is made or updated when the instruments are known has its own.
LEMMA UpdateKeepsRows ==
    ASSUME NEW n \in Nat, NEW rs, RowsOf(rs, n), NEW id \in 1..n, NEW exec \in id..n, instrs = TRUE
    PROVE  /\ RowsOf(Client!UpdateRow(rs, id, exec), n)
           /\ id \in DOMAIN Client!UpdateRow(rs, id, exec)
<1>1. CASE id \in DOMAIN rs /\ rs[id].exec = exec
    <2>1. PICK r : r = [exec |-> exec, marked |-> TRUE, known |-> TRUE]
        OBVIOUS
    <2>2. [rs[id] EXCEPT !.marked = TRUE] = r
        <3>1. rs[id] \in [exec : Nat, marked : BOOLEAN, known : BOOLEAN] /\ rs[id].known = TRUE
            BY <1>1 DEF RowsOf
        <3> QED
            BY <1>1, <2>1, <3>1, RowMarked
    <2>3. Client!UpdateRow(rs, id, exec) = [rs EXCEPT ![id] = r]
        BY <1>1, <2>2 DEF Client!UpdateRow
    <2> QED
        BY <1>1, <2>1, <2>3 DEF RowsOf
<1>2. CASE ~(id \in DOMAIN rs /\ rs[id].exec = exec)
    <2>1. Client!UpdateRow(rs, id, exec) =
            Client!With(rs, id, [exec |-> exec, marked |-> TRUE, known |-> instrs])
        BY <1>2 DEF Client!UpdateRow
    <2> QED
        BY <2>1 DEF RowsOf, Client!With
<1> QED
    BY <1>1, <1>2

-----------------------------------------------------------------------------
(* What the client and the server do. *)

\* A row of a slot's kind does not come before the instruments, if it did not before.
LEMMA StillFirst ==
    ASSUME NEW known, NEW rs, NEW nt, InstrsComeFirst(known, rs, nt),
           NEW s \in Client!Slots, NEW nt2, \A t \in Client!Slots : t # s => nt2[t] = nt[t],
           nt2[s].kind \in AfterRefData => nt[s].kind \in AfterRefData \/ known
    PROVE  InstrsComeFirst(known, rs, nt2)
    BY DEF InstrsComeFirst

\* What is under way after the instruments says that they are known.
LEMMA Known ==
    ASSUME ClientInv, NEW s \in Client!Slots, net[s].kind \in AfterRefData
    PROVE  instrs = TRUE
    BY DEF ClientInv, InstrsComeFirst

\* A request goes out over a connection that is free.
LEMMA SendBusies ==
    ASSUME ClientInv, NEW m, IsMessage(m, nexecs), m.kind \notin {"free", "Failure"},
           m.kind \in AfterRefData => instrs,
           Client!FreeSlots # {}, Client!Send(m), calls' = calls + 1
    PROVE  /\ NetOf(net', nexecs) /\ calls' = Cardinality(BusyOf(net'))
           /\ Cardinality(FailedOf(net')) = Cardinality(FailedOf(net))
           /\ InstrsComeFirst(instrs, rows, net')
<1>1. PICK s : s = CHOOSE x \in Client!FreeSlots : \A t \in Client!FreeSlots : x =< t
    OBVIOUS
<1>2. s \in Client!FreeSlots
    <2>1. Client!FreeSlots \subseteq Nat
        BY SlotsAreFinite DEF Client!FreeSlots
    <2>2. \E x \in Client!FreeSlots : \A t \in Client!FreeSlots : x =< t
        BY <2>1, LeastNumber
    <2> QED
        BY <1>1, <2>2
<1>3. net' = [net EXCEPT ![s] = m]
    BY <1>1 DEF Client!Send
<1>4. s \in Client!Slots /\ net[s] = Client!Free
    BY <1>2 DEF Client!FreeSlots
<1>5. Client!Free.kind = "free" /\ m # Client!Free
    BY DEF Client!Free
<1>6. PICK nt2 : nt2 = net'
    OBVIOUS
<1>7. NetOf(net, nexecs) /\ nt2 = [net EXCEPT ![s] = m]
    BY <1>3, <1>6 DEF ClientInv
<1>8. /\ NetOf(nt2, nexecs)
      /\ nt2[s] = m /\ \A t \in Client!Slots : t # s => nt2[t] = net[t]
      /\ Cardinality(BusyOf(net)) \in Nat /\ Cardinality(BusyOf(nt2)) \in Nat
      /\ Cardinality(FailedOf(net)) \in Nat /\ Cardinality(FailedOf(nt2)) \in Nat
      /\ Cardinality(BusyOf(nt2)) = Cardinality(BusyOf(net))
           + (IF m # Client!Free THEN 1 ELSE 0) - (IF net[s] # Client!Free THEN 1 ELSE 0)
      /\ Cardinality(FailedOf(nt2)) = Cardinality(FailedOf(net))
           + (IF m.kind = "Failure" THEN 1 ELSE 0) - (IF net[s].kind = "Failure" THEN 1 ELSE 0)
    <2>1. Changed(net, s, m, nexecs, nt2)
        BY <1>4, <1>7, SlotChanges
    <2> QED
        BY <2>1 DEF Changed
<1>9. Cardinality(BusyOf(nt2)) = Cardinality(BusyOf(net)) + 1
    BY <1>4, <1>5, <1>8
<1>10. Cardinality(FailedOf(nt2)) = Cardinality(FailedOf(net))
    BY <1>4, <1>5, <1>8
<1>11. InstrsComeFirst(instrs, rows, nt2)
    BY <1>4, <1>8, StillFirst DEF ClientInv
<1>12. calls' = Cardinality(BusyOf(nt2))
    BY <1>9 DEF ClientInv
<1> QED
    BY <1>6, <1>8, <1>10, <1>11, <1>12

\* A slot goes on to another message, without an end and without a failure.
LEMMA SlotGoesOn ==
    ASSUME ClientInv, NEW n, NetOf(net, n), NEW s \in Client!Slots, net[s].kind \notin {"free", "Failure"},
           NEW m, IsMessage(m, n), m.kind # "free",
           net' = [net EXCEPT ![s] = m], calls' = calls
    PROVE  /\ NetOf(net', n) /\ calls' = Cardinality(BusyOf(net'))
           /\ Cardinality(FailedOf(net)) \in Nat
           /\ Cardinality(FailedOf(net')) =
                Cardinality(FailedOf(net)) + (IF m.kind = "Failure" THEN 1 ELSE 0)
           /\ (m.kind \in AfterRefData => net[s].kind \in AfterRefData \/ instrs) =>
                InstrsComeFirst(instrs, rows, net')
<1>1. PICK nt2 : nt2 = net'
    OBVIOUS
<1>2. Client!Free.kind = "free"
    BY DEF Client!Free
<1>3. nt2 = [net EXCEPT ![s] = m]
    BY <1>1
<1>4. /\ NetOf(nt2, n)
      /\ nt2[s] = m /\ \A t \in Client!Slots : t # s => nt2[t] = net[t]
      /\ Cardinality(BusyOf(net)) \in Nat /\ Cardinality(BusyOf(nt2)) \in Nat
      /\ Cardinality(FailedOf(net)) \in Nat /\ Cardinality(FailedOf(nt2)) \in Nat
      /\ Cardinality(BusyOf(nt2)) = Cardinality(BusyOf(net))
           + (IF m # Client!Free THEN 1 ELSE 0) - (IF net[s] # Client!Free THEN 1 ELSE 0)
      /\ Cardinality(FailedOf(nt2)) = Cardinality(FailedOf(net))
           + (IF m.kind = "Failure" THEN 1 ELSE 0) - (IF net[s].kind = "Failure" THEN 1 ELSE 0)
    <2>1. Changed(net, s, m, n, nt2)
        BY <1>3, SlotChanges
    <2> QED
        BY <2>1 DEF Changed
<1>5. m # Client!Free /\ net[s] # Client!Free /\ net[s].kind # "Failure"
    BY <1>2
<1>6. Cardinality(BusyOf(nt2)) = Cardinality(BusyOf(net))
    BY <1>4, <1>5
<1>7. Cardinality(FailedOf(nt2)) = Cardinality(FailedOf(net)) + (IF m.kind = "Failure" THEN 1 ELSE 0)
    BY <1>4, <1>5
<1>8. (m.kind \in AfterRefData => net[s].kind \in AfterRefData \/ instrs) =>
        InstrsComeFirst(instrs, rows, nt2)
    BY <1>4, StillFirst DEF ClientInv
<1>9. calls' = Cardinality(BusyOf(nt2))
    BY <1>6 DEF ClientInv
<1> QED
    BY <1>1, <1>4, <1>7, <1>8, <1>9

\* A slot becomes free.
LEMMA SlotIsFreed ==
    ASSUME ClientInv, NEW s \in Client!Slots, net[s].kind # "free",
           net' = [net EXCEPT ![s] = Client!Free], calls' = calls - 1
    PROVE  /\ NetOf(net', nexecs) /\ calls' = Cardinality(BusyOf(net'))
           /\ Cardinality(FailedOf(net')) \in Nat /\ Cardinality(FailedOf(net)) \in Nat
           /\ Cardinality(FailedOf(net')) =
                Cardinality(FailedOf(net)) - (IF net[s].kind = "Failure" THEN 1 ELSE 0)
           /\ InstrsComeFirst(instrs, rows, net')
<1>1. PICK nt2 : nt2 = net'
    OBVIOUS
<1>2. PICK m : m = Client!Free
    OBVIOUS
<1>3. m.kind = "free" /\ m.kind # "Failure" /\ IsMessage(m, nexecs) /\ m.kind \notin AfterRefData
    BY <1>2 DEF Client!Free, IsMessage, AfterRefData
<1>4. nt2 = [net EXCEPT ![s] = m] /\ NetOf(net, nexecs)
    BY <1>1, <1>2 DEF ClientInv
<1>5. /\ NetOf(nt2, nexecs)
      /\ nt2[s] = m /\ \A t \in Client!Slots : t # s => nt2[t] = net[t]
      /\ Cardinality(BusyOf(net)) \in Nat /\ Cardinality(BusyOf(nt2)) \in Nat
      /\ Cardinality(FailedOf(net)) \in Nat /\ Cardinality(FailedOf(nt2)) \in Nat
      /\ Cardinality(BusyOf(nt2)) = Cardinality(BusyOf(net))
           + (IF m # Client!Free THEN 1 ELSE 0) - (IF net[s] # Client!Free THEN 1 ELSE 0)
      /\ Cardinality(FailedOf(nt2)) = Cardinality(FailedOf(net))
           + (IF m.kind = "Failure" THEN 1 ELSE 0) - (IF net[s].kind = "Failure" THEN 1 ELSE 0)
    <2>1. Changed(net, s, m, nexecs, nt2)
        BY <1>3, <1>4, SlotChanges
    <2> QED
        BY <2>1 DEF Changed
<1>6. net[s] # Client!Free
    BY <1>2, <1>3
<1>7. Cardinality(BusyOf(nt2)) = Cardinality(BusyOf(net)) - 1
    BY <1>2, <1>5, <1>6
<1>8. Cardinality(FailedOf(nt2)) = Cardinality(FailedOf(net)) - (IF net[s].kind = "Failure" THEN 1 ELSE 0)
    BY <1>3, <1>5
<1>9. InstrsComeFirst(instrs, rows, nt2)
    BY <1>3, <1>5, StillFirst DEF ClientInv
<1>10. calls' = Cardinality(BusyOf(nt2))
    BY <1>7 DEF ClientInv
<1> QED
    BY <1>1, <1>5, <1>8, <1>9, <1>10

\* The invariant holds of a client that has just started.
LEMMA ClientStarts == Client!Init => ClientInv
<1> SUFFICES ASSUME Client!Init PROVE ClientInv
    OBVIOUS
<1>1. /\ orders = Client!Empty /\ nexecs = 0 /\ calls = 1 /\ errors = 0 /\ instrs = FALSE
      /\ rows = Client!Empty /\ execs = <<>> /\ faults = 0
      /\ net = [s \in Client!Slots |-> IF s = 1 THEN [kind |-> "GetRefData"] ELSE Client!Free]
    BY DEF Client!Init
<1>2. DOMAIN Client!Empty = {}
    BY DEF Client!Empty
<1>3. 1 \in Client!Slots
    BY ClientBounds DEF Client!Slots
<1>4. /\ net[1].kind = "GetRefData" /\ net[1] # Client!Free
      /\ \A s \in Client!Slots : s # 1 => net[s] = Client!Free /\ net[s].kind = "free"
    BY <1>1, <1>3 DEF Client!Free
<1>5. OrdersOf(orders, nexecs) /\ RowsOf(rows, nexecs)
    BY <1>1, <1>2 DEF OrdersOf, RowsOf
<1>6. NetOf(net, nexecs)
    <2>1. net = [s \in Client!Slots |-> net[s]]
        BY <1>1
    <2>2. \A s \in Client!Slots : IsMessage(net[s], nexecs)
        BY <1>4 DEF IsMessage
    <2> QED
        BY <2>1, <2>2 DEF NetOf
<1>7. ExecsOf(execs, nexecs)
    BY <1>1, ClientBounds DEF ExecsOf
<1>8. calls = Cardinality(BusyOf(net))
    <2>1. BusyOf(net) = {1}
        BY <1>3, <1>4 DEF BusyOf
    <2>2. Cardinality({1}) = 1
        BY FS_Singleton
    <2> QED
        BY <1>1, <2>1, <2>2
<1>9. FaultsOf(errors, net, faults)
    <2>1. FailedOf(net) = {}
        BY <1>4 DEF FailedOf
    <2> QED
        BY <1>1, <2>1, FS_EmptySet, ClientBounds DEF FaultsOf
<1>10. InstrsComeFirst(instrs, rows, net)
    BY <1>1, <1>2, <1>4 DEF InstrsComeFirst, AfterRefData
<1> QED
    BY <1>1, <1>5, <1>6, <1>7, <1>8, <1>9, <1>10 DEF ClientInv

\* Another account trades with an order.
LEMMA FillKeeps ==
    ASSUME ClientInv, NEW id \in 1..nexecs, NEW done \in BOOLEAN, Client!Fill(id, done)
    PROVE  ClientInv'
<1>1. /\ id \in DOMAIN orders /\ nexecs' = nexecs + 1
      /\ orders' = IF done THEN Client!Without(orders, id) ELSE [orders EXCEPT ![id] = nexecs + 1]
      /\ net' = net /\ calls' = calls /\ errors' = errors /\ instrs' = instrs /\ rows' = rows
      /\ execs' = execs /\ faults' = faults
    BY DEF Client!Fill, Client!client
<1>2. nexecs \in Nat
    BY DEF ClientInv
<1>3. /\ OrdersOf(orders, nexecs') /\ RowsOf(rows', nexecs') /\ ExecsOf(execs', nexecs')
      /\ NetOf(net', nexecs')
    BY <1>1, <1>2, OneMoreExec DEF ClientInv
<1>4. OrdersOf(orders', nexecs')
    <2>1. CASE done
        <3>1. orders' = [i \in DOMAIN orders \ {id} |-> orders[i]]
            BY <1>1, <2>1 DEF Client!Without, Client!Restrict
        <3> QED
            BY <1>3, <3>1 DEF OrdersOf
    <2>2. CASE ~done
        <3>1. orders' = [orders EXCEPT ![id] = nexecs + 1]
            BY <1>1, <2>2
        <3>2. nexecs + 1 \in id..nexecs'
            BY <1>1, <1>2
        <3> QED
            BY <1>3, <3>1, <3>2 DEF OrdersOf
    <2> QED
        BY <2>1, <2>2
<1>5. /\ nexecs' \in Nat /\ instrs' \in BOOLEAN
      /\ calls' = Cardinality(BusyOf(net')) /\ FaultsOf(errors', net', faults')
      /\ InstrsComeFirst(instrs', rows', net')
    BY <1>1, <1>2 DEF ClientInv
<1> QED
    BY <1>3, <1>4, <1>5 DEF ClientInv

\* What is as it was when a slot goes on.
LEMMA GoesOnKeeps ==
    ASSUME ClientInv, NEW s \in Client!Slots, net[s].kind \notin {"free", "Failure"},
           NEW m, m.kind \notin {"free", "Failure"}, IsMessage(m, nexecs'),
           m.kind \in AfterRefData => net[s].kind \in AfterRefData,
           net' = [net EXCEPT ![s] = m], nexecs' \in {nexecs, nexecs + 1}, OrdersOf(orders', nexecs'),
           UNCHANGED <<calls, errors, instrs, rows, execs, faults>>
    PROVE  ClientInv'
<1>1. nexecs \in Nat /\ nexecs' \in Nat /\ FaultsOf(errors, net, faults)
    BY DEF ClientInv
<1>2. /\ RowsOf(rows, nexecs') /\ ExecsOf(execs, nexecs') /\ NetOf(net, nexecs')
    <2>1. RowsOf(rows, nexecs) /\ ExecsOf(execs, nexecs) /\ NetOf(net, nexecs)
        BY DEF ClientInv
    <2> QED
        BY <1>1, <2>1, OneMoreExec
<1>3. /\ NetOf(net', nexecs') /\ calls' = Cardinality(BusyOf(net'))
      /\ Cardinality(FailedOf(net)) \in Nat
      /\ Cardinality(FailedOf(net')) = Cardinality(FailedOf(net)) + 0
      /\ InstrsComeFirst(instrs, rows, net')
    BY <1>2, SlotGoesOn
<1>4. FaultsOf(errors', net', faults')
    BY <1>1, <1>3 DEF FaultsOf
<1>5. instrs' \in BOOLEAN /\ InstrsComeFirst(instrs', rows', net')
    BY <1>3 DEF ClientInv
<1>6. RowsOf(rows', nexecs') /\ ExecsOf(execs', nexecs')
    BY <1>2
<1> QED
    BY <1>1, <1>3, <1>4, <1>5, <1>6 DEF ClientInv

\* The newest execs are among those there are.
LEMMA NewestAreExecs ==
    ASSUME nexecs \in Nat
    PROVE  Client!Newest \in Seq(1..nexecs)
<1>1. PICK k : k = IF nexecs < MaxExecs THEN nexecs ELSE MaxExecs
    OBVIOUS
<1>2. k \in Nat /\ k =< nexecs
    BY <1>1, ClientBounds
<1>3. \A i \in 1..k : nexecs + 1 - i \in 1..nexecs
    BY <1>2
<1>4. Client!Newest = [i \in 1..k |-> nexecs + 1 - i]
    BY <1>1 DEF Client!Newest
<1>5. [i \in 1..k |-> nexecs + 1 - i] \in Seq(1..nexecs)
    BY <1>2, <1>3
<1> QED
    BY <1>4, <1>5

\* The server handles a request.
LEMMA HandleRequestKeeps ==
    ASSUME ClientInv, NEW s \in Client!Slots, Client!Handle(s)
    PROVE  ClientInv'
<1>1. UNCHANGED <<calls, errors, instrs, rows, execs, faults>>
    BY DEF Client!Handle, Client!client, Client!counts
<1>2. nexecs \in Nat /\ OrdersOf(orders, nexecs) /\ OrdersOf(orders, nexecs + 1)
    BY OneMoreExec DEF ClientInv
<1>3. CASE /\ net[s].kind = "GetRefData"
           /\ net' = [net EXCEPT ![s] = [kind |-> "RefDataReply"]]
           /\ UNCHANGED Client!server
    <2>1. PICK m : m = [kind |-> "RefDataReply"]
        OBVIOUS
    <2>2. IsMessage(m, nexecs') /\ m.kind \notin {"free", "Failure"} /\ m.kind \notin AfterRefData
        BY <2>1 DEF IsMessage, AfterRefData
    <2>3. nexecs' = nexecs /\ orders' = orders
        BY <1>3 DEF Client!server
    <2> QED
        BY <1>1, <1>2, <1>3, <2>1, <2>2, <2>3, GoesOnKeeps
<1>4. CASE /\ net[s].kind = "GetSess"
           /\ net' = [net EXCEPT ![s] =
                [kind |-> "SessReply", orders |-> orders, execs |-> Client!Newest]]
           /\ UNCHANGED Client!server
    <2>1. PICK m : m = [kind |-> "SessReply", orders |-> orders, execs |-> Client!Newest]
        OBVIOUS
    <2>3. nexecs' = nexecs /\ orders' = orders
        BY <1>4 DEF Client!server
    <2>2. IsMessage(m, nexecs') /\ m.kind \notin {"free", "Failure"}
        BY <1>2, <2>1, <2>3, NewestAreExecs DEF IsMessage
    <2>4. net[s].kind \in AfterRefData
        BY <1>4 DEF AfterRefData
    <2> QED
        BY <1>1, <1>2, <1>4, <2>1, <2>2, <2>3, <2>4, GoesOnKeeps
<1>5. CASE /\ net[s].kind = "PostOrder"
           /\ net' = [net EXCEPT ![s] = Client!OrderReply(nexecs + 1, FALSE)]
           /\ orders' = Client!With(orders, nexecs + 1, nexecs + 1)
           /\ nexecs' = nexecs + 1
    <2>1. PICK m : m = Client!OrderReply(nexecs + 1, FALSE)
        OBVIOUS
    <2>2. IsMessage(m, nexecs') /\ m.kind \notin {"free", "Failure"}
        BY <1>2, <1>5, <2>1 DEF IsMessage, Client!OrderReply
    <2>3. OrdersOf(orders', nexecs')
        BY <1>2, <1>5 DEF OrdersOf, Client!With
    <2>4. net[s].kind \in AfterRefData
        BY <1>5 DEF AfterRefData
    <2> QED
        BY <1>1, <1>2, <1>5, <2>1, <2>2, <2>3, <2>4, GoesOnKeeps
<1>6. CASE /\ net[s].kind = "PutOrder" /\ net[s].id \in DOMAIN orders
           /\ net' = [net EXCEPT ![s] = Client!OrderReply(net[s].id, TRUE)]
           /\ orders' = Client!Without(orders, net[s].id)
           /\ nexecs' = nexecs + 1
    <2>1. PICK m, id : id = net[s].id /\ m = Client!OrderReply(id, TRUE)
        OBVIOUS
    <2>5. id \in 1..nexecs
        BY <1>6, <2>1 DEF ClientInv, NetOf, IsMessage
    <2>2. IsMessage(m, nexecs') /\ m.kind \notin {"free", "Failure"}
        BY <1>2, <1>6, <2>1, <2>5 DEF IsMessage, Client!OrderReply
    <2>3. OrdersOf(orders', nexecs')
        BY <1>2, <1>6 DEF OrdersOf, Client!Without, Client!Restrict
    <2>4. net[s].kind \in AfterRefData
        BY <1>6 DEF AfterRefData
    <2> QED
        BY <1>1, <1>2, <1>6, <2>1, <2>2, <2>3, <2>4, GoesOnKeeps
<1>7. CASE /\ net[s].kind = "PutOrder" /\ net[s].id \notin DOMAIN orders
           /\ net' = [net EXCEPT ![s] = [kind |-> "Refusal"]]
           /\ UNCHANGED Client!server
    <2>1. PICK m : m = [kind |-> "Refusal"]
        OBVIOUS
    <2>2. IsMessage(m, nexecs') /\ m.kind \notin {"free", "Failure"} /\ m.kind \notin AfterRefData
        BY <2>1 DEF IsMessage, AfterRefData
    <2>3. nexecs' = nexecs /\ orders' = orders
        BY <1>7 DEF Client!server
    <2> QED
        BY <1>1, <1>2, <1>7, <2>1, <2>2, <2>3, GoesOnKeeps
<1> QED
    BY <1>3, <1>4, <1>5, <1>6, <1>7 DEF Client!Handle

\* A connection breaks.
LEMMA FailKeeps ==
    ASSUME ClientInv, NEW s \in Client!Slots, Client!Fail(s)
    PROVE  ClientInv'
<1>1. /\ net[s].kind \notin {"free", "Failure"} /\ faults < MaxFaults /\ faults' = faults + 1
      /\ net' = [net EXCEPT ![s] = [kind |-> "Failure"]]
      /\ UNCHANGED <<orders, nexecs, calls, errors, instrs, rows, execs>>
    BY DEF Client!Fail, Client!server, Client!client
<1>2. PICK m : m = [kind |-> "Failure"]
    OBVIOUS
<1>3. IsMessage(m, nexecs) /\ m.kind = "Failure" /\ m.kind \notin AfterRefData
    BY <1>2 DEF IsMessage, AfterRefData
<1>4. NetOf(net, nexecs) /\ FaultsOf(errors, net, faults)
    BY DEF ClientInv
<1>5. /\ NetOf(net', nexecs) /\ calls' = Cardinality(BusyOf(net'))
      /\ Cardinality(FailedOf(net)) \in Nat
      /\ Cardinality(FailedOf(net')) = Cardinality(FailedOf(net)) + 1
      /\ InstrsComeFirst(instrs, rows, net')
    BY <1>1, <1>2, <1>3, <1>4, SlotGoesOn
<1>6. FaultsOf(errors', net', faults')
    BY <1>1, <1>4, <1>5, ClientBounds DEF FaultsOf
<1>7. /\ nexecs' \in Nat /\ instrs' \in BOOLEAN
      /\ OrdersOf(orders', nexecs') /\ RowsOf(rows', nexecs') /\ ExecsOf(execs', nexecs')
    BY <1>1 DEF ClientInv
<1> QED
    BY <1>1, <1>5, <1>6, <1>7 DEF ClientInv

\* The user, or the timer, asks for something when the instruments are known.
LEMMA AskKeeps ==
    ASSUME ClientInv, NEW m, IsMessage(m, nexecs), m.kind \notin {"free", "Failure"}, instrs,
           Client!FreeSlots # {}, Client!Send(m), calls' = calls + 1,
           UNCHANGED <<orders, nexecs, errors, instrs, rows, execs, faults>>
    PROVE  ClientInv'
<1>1. /\ NetOf(net', nexecs) /\ calls' = Cardinality(BusyOf(net'))
      /\ Cardinality(FailedOf(net')) = Cardinality(FailedOf(net))
      /\ InstrsComeFirst(instrs, rows, net')
    BY SendBusies
<1>2. FaultsOf(errors', net', faults')
    BY <1>1 DEF ClientInv, FaultsOf
<1>3. /\ nexecs' \in Nat /\ instrs' \in BOOLEAN
      /\ OrdersOf(orders', nexecs') /\ RowsOf(rows', nexecs') /\ ExecsOf(execs', nexecs')
    BY DEF ClientInv
<1> QED
    BY <1>1, <1>2, <1>3 DEF ClientInv

\* The next poll.
LEMMA PollKeeps ==
    ASSUME ClientInv, Client!Poll
    PROVE  ClientInv'
<1>1. PICK m : m = [kind |-> "GetSess"]
    OBVIOUS
<1>2. IsMessage(m, nexecs) /\ m.kind \notin {"free", "Failure"}
    BY <1>1 DEF IsMessage
<1>3. /\ instrs /\ Client!FreeSlots # {} /\ Client!Send(m) /\ calls' = calls + 1
      /\ UNCHANGED <<orders, nexecs, errors, instrs, rows, execs, faults>>
    BY <1>1 DEF Client!Poll, Client!server, Client!counts
<1> QED
    BY <1>2, <1>3, AskKeeps

\* The user creates an order.
LEMMA CreateKeeps ==
    ASSUME ClientInv, Client!CreateOrder
    PROVE  ClientInv'
<1>1. PICK m : m = [kind |-> "PostOrder"]
    OBVIOUS
<1>2. IsMessage(m, nexecs) /\ m.kind \notin {"free", "Failure"}
    BY <1>1 DEF IsMessage
<1>3. /\ instrs /\ Client!FreeSlots # {} /\ Client!Send(m) /\ calls' = calls + 1
      /\ UNCHANGED <<orders, nexecs, errors, instrs, rows, execs, faults>>
    BY <1>1 DEF Client!CreateOrder, Client!server
<1> QED
    BY <1>2, <1>3, AskKeeps

\* The user cancels an order that is shown.
LEMMA CancelKeeps ==
    ASSUME ClientInv, NEW id \in 1..nexecs, Client!CancelOrder(id)
    PROVE  ClientInv'
<1>1. PICK m : m = [kind |-> "PutOrder", id |-> id]
    OBVIOUS
<1>2. IsMessage(m, nexecs) /\ m.kind \notin {"free", "Failure"}
    BY <1>1 DEF IsMessage
<1>3. /\ id \in DOMAIN rows /\ Client!FreeSlots # {} /\ Client!Send(m) /\ calls' = calls + 1
      /\ UNCHANGED <<orders, nexecs, errors, instrs, rows, execs, faults>>
    BY <1>1 DEF Client!CancelOrder, Client!server
<1>4. instrs
    BY <1>3 DEF ClientInv, InstrsComeFirst
<1> QED
    BY <1>2, <1>3, <1>4, AskKeeps

\* A new start, when the requests are over.
LEMMA RecoverKeeps ==
    ASSUME ClientInv, Client!Recover
    PROVE  ClientInv'
<1>1. /\ calls = 0 /\ errors' = 0 /\ instrs' = FALSE /\ rows' = Client!Empty /\ execs' = <<>>
      /\ Client!Send([kind |-> "GetRefData"]) /\ calls' = calls + 1
      /\ UNCHANGED <<orders, nexecs, faults>>
    BY DEF Client!Recover, Client!server, Client!counts
<1>2. PICK m : m = [kind |-> "GetRefData"]
    OBVIOUS
<1>3. IsMessage(m, nexecs) /\ m.kind \notin {"free", "Failure"} /\ m.kind \notin AfterRefData
    BY <1>2 DEF IsMessage, AfterRefData
<1>4. IsFiniteSet(BusyOf(net))
    BY SlotsAreFinite, FS_Subset DEF BusyOf
<1>5. BusyOf(net) = {}
    BY <1>1, <1>4, FS_EmptySet DEF ClientInv
<1>6. \A s \in Client!Slots : net[s] = Client!Free /\ net[s].kind = "free"
    BY <1>5 DEF BusyOf, Client!Free
<1>7. Client!FreeSlots # {}
    BY <1>6, ClientBounds DEF Client!FreeSlots, Client!Slots
<1>8. /\ NetOf(net', nexecs) /\ calls' = Cardinality(BusyOf(net'))
      /\ Cardinality(FailedOf(net')) = Cardinality(FailedOf(net))
    BY <1>1, <1>2, <1>3, <1>7, SendBusies
<1>9. FailedOf(net) = {}
    BY <1>6 DEF FailedOf
<1>10. FaultsOf(errors', net', faults')
    <2>1. faults \in 0..MaxFaults
        BY DEF ClientInv, FaultsOf
    <2>2. Cardinality(FailedOf(net)) = 0
        BY <1>9, FS_EmptySet
    <2> QED
        BY <1>1, <1>8, <2>1, <2>2, ClientBounds DEF FaultsOf
<1>11. DOMAIN rows' = {} /\ RowsOf(rows', nexecs')
    BY <1>1 DEF RowsOf, Client!Empty
<1>12. ExecsOf(execs', nexecs')
    BY <1>1, ClientBounds DEF ExecsOf
<1>13. InstrsComeFirst(instrs', rows', net')
    <2>1. PICK s : s = CHOOSE x \in Client!FreeSlots : \A t \in Client!FreeSlots : x =< t
        OBVIOUS
    <2>2. net' = [net EXCEPT ![s] = m]
        BY <1>1, <1>2, <2>1 DEF Client!Send
    <2>3. \A t \in Client!Slots : net'[t].kind \in {"free", "GetRefData"}
        BY <1>2, <1>6, <2>2 DEF ClientInv, NetOf
    <2> QED
        BY <1>11, <2>3 DEF InstrsComeFirst, AfterRefData
<1>14. nexecs' \in Nat /\ instrs' \in BOOLEAN /\ OrdersOf(orders', nexecs')
    BY <1>1 DEF ClientInv
<1> QED
    BY <1>1, <1>8, <1>10, <1>11, <1>12, <1>13, <1>14 DEF ClientInv

\* The reference data has come.
LEMMA RefDataKeeps ==
    ASSUME ClientInv, NEW s \in Client!Slots, Client!FinishRefData(s)
    PROVE  ClientInv'
<1>1. /\ net[s].kind = "RefDataReply" /\ instrs' = TRUE /\ rows' = Client!NewTag(rows)
      /\ net' = [net EXCEPT ![s] = [kind |-> "GetSess"]]
      /\ UNCHANGED <<orders, nexecs, calls, errors, execs, faults>>
    BY DEF Client!FinishRefData, Client!server, Client!counts
<1>2. PICK m : m = [kind |-> "GetSess"]
    OBVIOUS
<1>3. IsMessage(m, nexecs) /\ m.kind \notin {"free", "Failure"}
    BY <1>2 DEF IsMessage
<1>4. NetOf(net, nexecs) /\ nexecs \in Nat /\ RowsOf(rows, nexecs)
    BY DEF ClientInv
<1>5. /\ NetOf(net', nexecs) /\ calls' = Cardinality(BusyOf(net'))
      /\ Cardinality(FailedOf(net)) \in Nat
      /\ Cardinality(FailedOf(net')) = Cardinality(FailedOf(net)) + 0
    BY <1>1, <1>2, <1>3, <1>4, SlotGoesOn
<1>6. FaultsOf(errors', net', faults')
    BY <1>1, <1>5 DEF ClientInv, FaultsOf
<1>7. RowsOf(rows', nexecs')
    BY <1>1, <1>4, TagKeepsRows
<1>8. InstrsComeFirst(instrs', rows', net')
    BY <1>1 DEF InstrsComeFirst
<1>9. nexecs' \in Nat /\ instrs' \in BOOLEAN /\ OrdersOf(orders', nexecs') /\ ExecsOf(execs', nexecs')
    BY <1>1 DEF ClientInv
<1> QED
    BY <1>1, <1>5, <1>6, <1>7, <1>8, <1>9 DEF ClientInv

\* A reply has been taken, and its slot is free.
LEMMA TakenKeeps ==
    ASSUME ClientInv, NEW s \in Client!Slots, net[s].kind \in AfterRefData,
           net' = [net EXCEPT ![s] = Client!Free], calls' = calls - 1,
           RowsOf(rows', nexecs), ExecsOf(execs', nexecs),
           UNCHANGED <<orders, nexecs, errors, instrs, faults>>
    PROVE  ClientInv'
<1>1. net[s].kind \notin {"free", "Failure"} /\ instrs = TRUE
    BY Known DEF AfterRefData
<1>2. /\ NetOf(net', nexecs) /\ calls' = Cardinality(BusyOf(net'))
      /\ Cardinality(FailedOf(net)) \in Nat
      /\ Cardinality(FailedOf(net')) = Cardinality(FailedOf(net)) - 0
    BY <1>1, SlotIsFreed
<1>3. FaultsOf(errors', net', faults')
    BY <1>2 DEF ClientInv, FaultsOf
<1>4. InstrsComeFirst(instrs', rows', net')
    BY <1>1 DEF InstrsComeFirst
<1>5. nexecs' \in Nat /\ instrs' \in BOOLEAN /\ OrdersOf(orders', nexecs')
    BY DEF ClientInv
<1> QED
    BY <1>2, <1>3, <1>4, <1>5 DEF ClientInv

\* The open orders and the newest execs have come.
LEMMA SessReplyKeeps ==
    ASSUME ClientInv, NEW s \in Client!Slots, Client!FinishSess(s)
    PROVE  ClientInv'
<1>1. PICK r, os, es : r = net[s] /\ os = r.orders /\ es = r.execs
    OBVIOUS
<1>2. PICK table : table = Client!NewTag(rows)
    OBVIOUS
<1>3. PICK all : all = [i \in DOMAIN rows \union DOMAIN os |->
                 IF i \in DOMAIN os THEN Client!UpdateRow(table, i, os[i])[i] ELSE table[i]]
    OBVIOUS
<1>4. /\ net[s].kind = "SessReply"
      /\ rows' = Client!Sweep(all) /\ execs' = Client!UpdateExecs(execs, es)
      /\ net' = [net EXCEPT ![s] = Client!Free] /\ calls' = calls - 1
      /\ UNCHANGED <<orders, nexecs, errors, instrs, faults>>
    BY <1>1, <1>2, <1>3 DEF Client!FinishSess, Client!server, Client!counts
<1>5. net[s].kind \in AfterRefData
    BY <1>4 DEF AfterRefData
<1>6. instrs = TRUE
    BY <1>5, Known
<1>7. OrdersOf(os, nexecs) /\ es \in Seq(1..nexecs) /\ nexecs \in Nat
    BY <1>1, <1>4 DEF ClientInv, NetOf, IsMessage
<1>8. RowsOf(table, nexecs) /\ DOMAIN table = DOMAIN rows
    BY <1>2, <1>7, TagKeepsRows DEF ClientInv
<1>9. RowsOf(all, nexecs)
    <2>1. SUFFICES ASSUME NEW i \in DOMAIN all, NEW row, row = all[i]
                   PROVE  /\ i \in 1..nexecs /\ row.exec \in i..nexecs /\ row.known = TRUE
                          /\ row \in [exec : Nat, marked : BOOLEAN, known : BOOLEAN]
        BY DEF RowsOf
    <2>2. CASE i \in DOMAIN os
        <3>1. i \in 1..nexecs /\ os[i] \in i..nexecs
            BY <1>7, <2>2 DEF OrdersOf
        <3>2. PICK new : new = Client!UpdateRow(table, i, os[i])
            OBVIOUS
        <3>3. RowsOf(new, nexecs) /\ i \in DOMAIN new
            BY <1>6, <1>7, <1>8, <3>1, <3>2, UpdateKeepsRows
        <3>4. row = new[i]
            BY <1>3, <2>1, <2>2, <3>2
        <3> QED
            BY <3>1, <3>3, <3>4 DEF RowsOf
    <2>3. CASE i \notin DOMAIN os
        <3>1. i \in DOMAIN table /\ row = table[i]
            BY <1>3, <1>8, <2>1, <2>3
        <3> QED
            BY <1>8, <3>1 DEF RowsOf
    <2> QED
        BY <2>2, <2>3
<1>10. RowsOf(rows', nexecs)
    <2>1. PICK kept : kept = {i \in DOMAIN all : all[i].marked}
        OBVIOUS
    <2>2. rows' = [i \in kept |-> all[i]] /\ kept \subseteq DOMAIN all
        BY <1>4, <2>1 DEF Client!Sweep, Client!Restrict
    <2> QED
        BY <1>9, <2>2 DEF RowsOf
<1>11. ExecsOf(execs', nexecs)
    BY <1>4, <1>7, ExecsAreAdded DEF ClientInv
<1> QED
    BY <1>4, <1>5, <1>10, <1>11, TakenKeeps

\* An order has been created or cancelled.
LEMMA OrderKeeps ==
    ASSUME ClientInv, NEW s \in Client!Slots, Client!FinishOrder(s)
    PROVE  ClientInv'
<1>1. PICK r, id, e : r = net[s] /\ id = r.id /\ e = r.exec
    OBVIOUS
<1>2. /\ net[s].kind = "OrderReply"
      /\ rows' = IF r.done THEN Client!Without(rows, id) ELSE Client!UpdateRow(rows, id, e)
      /\ execs' = Client!UpdateExec(execs, e)
      /\ net' = [net EXCEPT ![s] = Client!Free] /\ calls' = calls - 1
      /\ UNCHANGED <<orders, nexecs, errors, instrs, faults>>
    BY <1>1 DEF Client!FinishOrder, Client!server, Client!counts
<1>3. net[s].kind \in AfterRefData
    BY <1>2 DEF AfterRefData
<1>4. instrs = TRUE
    BY <1>3, Known
<1>5. id \in 1..nexecs /\ e \in id..nexecs /\ nexecs \in Nat
    BY <1>1, <1>2 DEF ClientInv, NetOf, IsMessage
<1>6. RowsOf(rows, nexecs) /\ ExecsOf(execs, nexecs)
    BY DEF ClientInv
<1>7. RowsOf(rows', nexecs)
    <2>1. CASE r.done
        <3>1. PICK kept : kept = DOMAIN rows \ {id}
            OBVIOUS
        <3>2. rows' = [i \in kept |-> rows[i]] /\ kept \subseteq DOMAIN rows
            BY <1>2, <2>1, <3>1 DEF Client!Without, Client!Restrict
        <3> QED
            BY <1>6, <3>2 DEF RowsOf
    <2>2. CASE ~r.done
        BY <1>2, <1>4, <1>5, <1>6, <2>2, UpdateKeepsRows
    <2> QED
        BY <2>1, <2>2
<1>8. ExecsOf(execs', nexecs)
    <2>1. e \in 1..nexecs
        BY <1>5
    <2> QED
        BY <1>2, <1>5, <1>6, <2>1, ExecIsAdded
<1> QED
    BY <1>2, <1>3, <1>7, <1>8, TakenKeeps

\* A request has failed or been refused.
LEMMA ErrorKeeps ==
    ASSUME ClientInv, NEW s \in Client!Slots, Client!FinishError(s)
    PROVE  ClientInv'
<1>1. /\ net[s].kind \in {"Refusal", "Failure"}
      /\ errors' = IF net[s].kind = "Failure" THEN errors + 1 ELSE errors
      /\ net' = [net EXCEPT ![s] = Client!Free] /\ calls' = calls - 1
      /\ UNCHANGED <<orders, nexecs, instrs, rows, execs, faults>>
    BY DEF Client!FinishError, Client!server, Client!counts
<1>2. /\ NetOf(net', nexecs) /\ calls' = Cardinality(BusyOf(net'))
      /\ Cardinality(FailedOf(net')) \in Nat /\ Cardinality(FailedOf(net)) \in Nat
      /\ Cardinality(FailedOf(net')) =
            Cardinality(FailedOf(net)) - (IF net[s].kind = "Failure" THEN 1 ELSE 0)
      /\ InstrsComeFirst(instrs, rows, net')
    BY <1>1, SlotIsFreed
<1>3. FaultsOf(errors, net, faults)
    BY DEF ClientInv
<1>4. FaultsOf(errors', net', faults')
    BY <1>1, <1>2, <1>3, ClientBounds DEF FaultsOf
<1>5. /\ nexecs' \in Nat /\ instrs' \in BOOLEAN /\ InstrsComeFirst(instrs', rows', net')
      /\ OrdersOf(orders', nexecs') /\ RowsOf(rows', nexecs') /\ ExecsOf(execs', nexecs')
    BY <1>1, <1>2 DEF ClientInv
<1> QED
    BY <1>1, <1>2, <1>4, <1>5 DEF ClientInv

\* A step that leaves the client alone keeps its invariant.
LEMMA ClientRests ==
    ASSUME ClientInv, UNCHANGED clientVars
    PROVE  ClientInv'
    BY DEF ClientInv, clientVars

\* A step of the whole is one of the client's or leaves it alone.
LEMMA WebStepsClient == ClientInv /\ [Next]_vars => ClientInv'
<1> SUFFICES ASSUME ClientInv, [Next]_vars PROVE ClientInv'
    OBVIOUS
<1>1. CASE ClientNext
    <2>1. ASSUME NEW s \in Client!Slots, Client!Finish(s)
          PROVE  ClientInv'
        BY <2>1, RefDataKeeps, SessReplyKeeps, OrderKeeps, ErrorKeeps DEF Client!Finish
    <2> QED
        BY <1>1, <2>1, CreateKeeps, CancelKeeps, FillKeeps, HandleRequestKeeps, FailKeeps, RecoverKeeps,
           PollKeeps DEF ClientNext, Client!Next
<1>2. CASE UNCHANGED clientVars
    BY <1>2, ClientRests
<1>3. CASE UNCHANGED vars
    BY <1>3, ClientRests DEF vars
<1>4. ClientNext \/ UNCHANGED clientVars \/ UNCHANGED vars
    BY DEF Next, SessNext, RequestNext, AnswerNext, BodyNext, PairsNext, AgainNext, ServNext,
           ClientNext, FixNext, DatesNext, DayNext
<1> QED
    BY <1>1, <1>2, <1>3, <1>4

\* The inductive invariant of the client (HttpClient, TableModel, ExecModel).
THEOREM ClientInvHolds == Spec => []ClientInv
<1>1. Init => ClientInv
    BY ClientStarts DEF Init
<1> QED
    BY <1>1, WebStepsClient, PTL DEF Spec

\* The client counts its requests as those that have no reply yet, and no more errors than
\* there were.
LEMMA ClientCounts ==
    ASSUME ClientInv
    PROVE  Client!TypeOK
<1>1. calls = Client!Cardinality(Client!Slots \ Client!FreeSlots)
    <2>1. Client!Slots \ Client!FreeSlots = BusyOf(net)
        BY DEF Client!FreeSlots, BusyOf
    <2>2. Client!Cardinality(BusyOf(net)) = Cardinality(BusyOf(net))
        BY DEF Client!Cardinality, Cardinality
    <2> QED
        BY <2>1, <2>2 DEF ClientInv
<1>2. errors \in 0..MaxFaults
    <2>1. IsFiniteSet(FailedOf(net))
        BY SlotsAreFinite, FS_Subset DEF FailedOf
    <2>2. Cardinality(FailedOf(net)) \in Nat
        BY <2>1, FS_CardinalityType
    <2> QED
        BY <2>2, ClientBounds DEF ClientInv, FaultsOf
<1>3. \A id \in DOMAIN rows : id \in 1..nexecs /\ rows[id].exec \in id..nexecs
    BY DEF ClientInv, RowsOf
<1>4. Len(execs) =< MaxExecs /\ Client!ToSet(execs) \subseteq 1..nexecs
    BY DEF ClientInv, ExecsOf, Client!ToSet
<1> QED
    BY <1>1, <1>2, <1>3, <1>4 DEF ClientInv, Client!TypeOK

\* Every order that is shown has its instrument, however replies overtake each other and
\* requests fail, when the reference data comes before the timer fires: a new start waits
\* for the requests from before (HttpClient::timerEvent, TableModel::update_row).
THEOREM RowsKnowTheirInstrs == Spec => []RowsHaveInstr
<1>1. ClientInv => RowsHaveInstr
    BY ClientCounts DEF ClientInv, RowsOf, RowsHaveInstr, Client!RowsHaveInstr
<1> QED
    BY <1>1, ClientInvHolds, PTL

-----------------------------------------------------------------------------
(* How answers get to the socket.                                            *)

\* The most that is waiting and written at a time, and the most memory for it.
MostUsed == MaxWaiting + 3 + MaxBody
MostMemory == ShrinkThreshold + 2 * MostUsed

\* The memory m has the units s at the position p.
HasAt(m, p, s) == \A i \in 1..Len(s) : m[p + i] = s[i]

\* The memory m has an answer that is begun, with the length of its body left out.
HasBegun(m, p, status, n, hc) ==
    /\ m[p + 1] = status /\ m[p + hc] = Answer!EndOfHeader
    /\ \A i \in hc + 1..n : m[p + i] = Answer!Byte

\* What has been written of an answer to the request.
StreamOf(status, n, hc, cl) ==
    /\ hc = (IF Answer!WithBody(status) THEN 3 ELSE 2)
    /\ cl = (IF Answer!WithBody(status) THEN 2 ELSE 0)
    /\ status = Answer!NoContent => n = 2
    /\ status = Answer!Failed => n = 4
    /\ status = Answer!Ok => n \in 3..3 + MaxBody

\* The memory is bounded as long as what has been consumed is near its front.
Bounded(len, r) ==
    len =< MostMemory /\ (r = 0 \/ r < ShrinkThreshold \/ r < len \div 2)

\* Memory with all that is waiting and what is being written.
Holds(m, r, w, n) ==
    /\ m \in Seq(Nat) /\ r \in Nat /\ w \in Nat /\ r =< w /\ w + n =< Len(m)
    /\ Bounded(Len(m), r)

AnswerInv ==
    /\ Holds(mem, rpos, wpos, IF request = Answer!None THEN 0 ELSE pcount)
    /\ request \in {Answer!None, Answer!Ok, Answer!NoContent, Answer!Failed}
    /\ meant \in Seq(Nat) /\ Len(meant) = wpos - rpos /\ HasAt(mem, rpos, meant)
    /\ pcount \in Nat /\ hcount \in 0..pcount /\ cloff \in 0..hcount
    /\ request # Answer!None =>
        /\ Len(meant) =< MaxWaiting /\ StreamOf(request, pcount, hcount, cloff)
        /\ HasBegun(mem, wpos, request, pcount, hcount)

-----------------------------------------------------------------------------

\* The bounds of the answers.
LEMMA AnswerBounds ==
    /\ ShrinkThreshold \in Nat /\ MaxBody \in Nat /\ MaxWaiting \in Nat
    /\ Chunks \subseteq Nat \ {0}
    BY WebAssumption DEF WebAssumption, Answer!HttpAnswerAssumption

\* The kinds of units are different.
LEMMA Units ==
    /\ Answer!None = 0 /\ Answer!Ok = 11 /\ Answer!NoContent = 12 /\ Answer!Failed = 13
    /\ Answer!EndOfHeader = 14 /\ Answer!Byte = 15 /\ Answer!Unset = 0
    BY DEF Answer!None, Answer!Ok, Answer!NoContent, Answer!Failed, Answer!EndOfHeader, Answer!Byte,
           Answer!Unset

\* The sequence u is s and then t.
IsJoin(u, s, t) ==
    /\ u \in Seq(Nat) /\ Len(s) \in Nat /\ Len(t) \in Nat /\ Len(u) = Len(s) + Len(t)
    /\ \A i \in 1..Len(s) : u[i] = s[i]
    /\ \A i \in Len(s) + 1..Len(s) + Len(t) : u[i] = t[i - Len(s)]

\* It is what concatenation makes of them.
LEMMA JoinOf ==
    ASSUME NEW s \in Seq(Nat), NEW t \in Seq(Nat)
    PROVE  IsJoin(s \o t, s, t)
<1>1. /\ s \o t \in Seq(Nat)
      /\ Len(s \o t) = Len(s) + Len(t)
      /\ \A i \in 1 .. Len(s) + Len(t) : (s \o t)[i] =
                     IF i <= Len(s) THEN s[i] ELSE t[i - Len(s)]
    BY ConcatProperties
<1> QED
    BY <1>1 DEF IsJoin

\* The memory m2 is m, with the units s at the position p.
IsPut(m2, m, p, s) ==
    /\ m2 \in Seq(Nat) /\ Len(m2) = Len(m)
    /\ \A i \in 1..Len(m) : m2[i] = IF i \in p + 1..p + Len(s) THEN s[i - p] ELSE m[i]

\* Units that are written to the memory are there, and the others as they were.
LEMMA PutAt ==
    ASSUME NEW m \in Seq(Nat), NEW p \in Nat, NEW s \in Seq(Nat)
    PROVE  IsPut(Answer!At(m, p, s), m, p, s)
<1> DEFINE f == [i \in 1..Len(m) |-> IF i \in p + 1..p + Len(s) THEN s[i - p] ELSE m[i]]
<1>1. \A i \in 1..Len(m) : f[i] \in Nat
    <2>1. \A i \in 1..Len(m) : i \in p + 1..p + Len(s) => i - p \in 1..Len(s)
        OBVIOUS
    <2> QED
        BY <2>1
<1>2. Answer!At(m, p, s) = f
    BY DEF Answer!At
<1>3. f \in [1..Len(m) -> Nat]
    BY <1>1
<1>4. f \in Seq(Nat) /\ Len(f) = Len(m)
    BY <1>3, Len(m) \in Nat
<1> QED
    BY <1>2, <1>4 DEF IsPut

\* The memory after prepare: as it was, and longer if need be.
LEMMA PreparedHolds ==
    ASSUME mem \in Seq(Nat), wpos \in Nat, wpos =< Len(mem), NEW size \in Nat
    PROVE  /\ Answer!Prepared(size) \in Seq(Nat)
           /\ Len(Answer!Prepared(size)) =
                IF wpos + size > Len(mem) THEN wpos + size ELSE Len(mem)
           /\ \A i \in 1..Len(mem) : Answer!Prepared(size)[i] = mem[i]
<1>1. PICK n : n = size - (Len(mem) - wpos)
    OBVIOUS
<1>2. Len(mem) \in Nat
    OBVIOUS
<1>3. CASE n > 0
    <2>1. n \in Nat /\ size > Len(mem) - wpos
        BY <1>1, <1>2, <1>3
    <2>2. PICK more : more = [i \in 1..n |-> 0]
        OBVIOUS
    <2>3. more \in Seq(Nat) /\ Len(more) = n
        BY <2>1, <2>2
    <2>4. Answer!Prepared(size) = mem \o more
        BY <1>1, <2>1, <2>2, Units DEF Answer!Prepared
    <2>5. /\ mem \o more \in Seq(Nat) /\ Len(mem \o more) = Len(mem) + n
          /\ \A i \in 1..Len(mem) : (mem \o more)[i] = mem[i]
        BY <2>3
    <2> QED
        BY <1>1, <1>2, <1>3, <2>4, <2>5
<1>4. CASE ~(n > 0)
    <2>1. Answer!Prepared(size) = mem
        BY <1>1, <1>2, <1>4 DEF Answer!Prepared
    <2> QED
        BY <1>1, <1>2, <1>4, <2>1
<1> QED
    BY <1>3, <1>4

\* There is room for an answer without the memory getting out of proportion.
LEMMA RoomIsBounded ==
    ASSUME NEW len \in Nat, NEW r \in Nat, NEW w \in Nat, NEW size \in Nat, NEW len2,
           Bounded(len, r), r =< w, w - r =< MaxWaiting, size =< 3 + MaxBody \/ size =< 4,
           len2 = IF w + size > len THEN w + size ELSE len
    PROVE  Bounded(len2, r)
<1>1. /\ ShrinkThreshold \in Nat /\ MaxBody \in Nat /\ MaxWaiting \in Nat
      /\ MostMemory = ShrinkThreshold + 2 * MaxWaiting + 6 + 2 * MaxBody
    BY AnswerBounds DEF MostMemory, MostUsed
<1>2. CASE w + size =< len
    BY <1>2
<1>3. CASE w + size > len
    <2>1. len2 = w + size /\ len2 > len /\ len2 =< r + MaxWaiting + size
        BY <1>1, <1>3
    <2>2. len2 =< r + MaxWaiting + 4 + MaxBody
        BY <1>1, <2>1
    <2>3. len2 =< MostMemory
        <3>1. CASE r = 0 \/ r < ShrinkThreshold
            BY <1>1, <2>1, <2>2, <3>1
        <3>2. CASE r < len \div 2
            <4>1. 2 * r + 2 =< len /\ len =< MostMemory
                BY <3>2 DEF Bounded
            <4>2. 2 * r + 2 =< ShrinkThreshold + 2 * MaxWaiting + 6 + 2 * MaxBody
                BY <1>1, <4>1
            <4> QED
                BY <1>1, <2>1, <2>2, <4>2
        <3> QED
            BY <3>1, <3>2 DEF Bounded
    <2>4. r = 0 \/ r < ShrinkThreshold \/ r < len2 \div 2
        <3>1. len \div 2 =< len2 \div 2
            BY <1>1, <2>1
        <3> QED
            BY <1>1, <2>1, <3>1 DEF Bounded
    <2> QED
        BY <2>3, <2>4 DEF Bounded
<1> QED
    BY <1>2, <1>3

\* Writing behind what is waiting: it stays, the memory is bounded, and what is written
\* is there, after what was written before.
LEMMA WriteBehind ==
    ASSUME AnswerInv, Len(meant) =< MaxWaiting, NEW q \in Nat, NEW s \in Seq(Nat),
           q + Len(s) =< 3 + MaxBody \/ q + Len(s) =< 4,
           NEW m2, m2 = Answer!At(Answer!Prepared(q + Len(s)), wpos + q, s)
    PROVE  /\ Holds(m2, rpos, wpos, q + Len(s))
           /\ HasAt(m2, rpos, meant) /\ HasAt(m2, wpos + q, s)
           /\ \A i \in 1..q : wpos + i =< Len(mem) => m2[wpos + i] = mem[wpos + i]
<1>1. /\ mem \in Seq(Nat) /\ rpos \in Nat /\ wpos \in Nat /\ rpos =< wpos /\ wpos =< Len(mem)
      /\ Bounded(Len(mem), rpos) /\ Len(mem) \in Nat /\ Len(s) \in Nat
      /\ Len(meant) = wpos - rpos /\ HasAt(mem, rpos, meant)
    BY DEF AnswerInv, Holds
<1>2. PICK size : size = q + Len(s)
    OBVIOUS
<1>3. size \in Nat
    BY <1>1, <1>2
<1>4. PICK m1 : m1 = Answer!Prepared(size)
    OBVIOUS
<1>5. /\ m1 \in Seq(Nat) /\ Len(m1) = IF wpos + size > Len(mem) THEN wpos + size ELSE Len(mem)
      /\ \A i \in 1..Len(mem) : m1[i] = mem[i]
    BY <1>1, <1>3, <1>4, PreparedHolds
<1>6. Bounded(Len(m1), rpos)
    <2>1. PICK a, r, w, len2 : a = Len(mem) /\ r = rpos /\ w = wpos /\ len2 = Len(m1)
        OBVIOUS
    <2>2. w - r =< MaxWaiting /\ (size =< 3 + MaxBody \/ size =< 4)
        BY <1>1, <1>2, <2>1
    <2>3. /\ a \in Nat /\ r \in Nat /\ w \in Nat /\ Bounded(a, r) /\ r =< w
          /\ len2 = IF w + size > a THEN w + size ELSE a
        BY <1>1, <1>5, <2>1
    <2> QED
        BY <1>3, <2>1, <2>2, <2>3, RoomIsBounded
<1>7. wpos + q \in Nat /\ m2 = Answer!At(m1, wpos + q, s)
    BY <1>1, <1>2, <1>4
<1>8. /\ m2 \in Seq(Nat) /\ Len(m2) = Len(m1)
      /\ \A i \in 1..Len(m1) :
            m2[i] = IF i \in wpos + q + 1..wpos + q + Len(s) THEN s[i - (wpos + q)] ELSE m1[i]
    <2>1. PICK p : p = wpos + q
        OBVIOUS
    <2>2. p \in Nat /\ m2 = Answer!At(m1, p, s) /\ m1 \in Seq(Nat)
        BY <1>5, <1>7, <2>1
    <2>3. /\ m2 \in Seq(Nat) /\ Len(m2) = Len(m1)
          /\ \A i \in 1..Len(m1) : m2[i] = IF i \in p + 1..p + Len(s) THEN s[i - p] ELSE m1[i]
        BY <2>2, PutAt DEF IsPut
    <2> QED
        BY <2>1, <2>3
<1>9. wpos + size =< Len(m1) /\ Len(m1) >= Len(mem)
    BY <1>1, <1>3, <1>5
<1>10. Holds(m2, rpos, wpos, q + Len(s))
    BY <1>1, <1>2, <1>6, <1>8, <1>9 DEF Holds
<1>11. HasAt(m2, rpos, meant)
    <2>1. ASSUME NEW i \in 1..Len(meant)
          PROVE  m2[rpos + i] = meant[i]
        <3>1. PICK k : k = rpos + i
            OBVIOUS
        <3>2. k \in 1..Len(mem) /\ k \in 1..Len(m1) /\ k =< wpos
            BY <1>1, <1>9, <3>1
        <3>3. m2[k] = m1[k]
            BY <1>1, <1>8, <3>2, SMTT(30)
        <3>4. mem[k] = meant[i]
            BY <1>1, <3>1 DEF HasAt
        <3> QED
            BY <1>5, <3>1, <3>2, <3>3, <3>4
    <2> QED
        BY <2>1 DEF HasAt
<1>12. HasAt(m2, wpos + q, s)
    <2>1. ASSUME NEW i \in 1..Len(s)
          PROVE  m2[wpos + q + i] = s[i]
        <3>1. PICK k : k = wpos + q + i
            OBVIOUS
        <3>2. /\ k \in 1..Len(m1) /\ k \in wpos + q + 1..wpos + q + Len(s)
              /\ k - (wpos + q) = i
            BY <1>1, <1>2, <1>9, <3>1
        <3> QED
            BY <1>8, <3>1, <3>2
    <2> QED
        BY <2>1 DEF HasAt
<1>13. ASSUME NEW i \in 1..q, wpos + i =< Len(mem)
       PROVE  m2[wpos + i] = mem[wpos + i]
    <2>1. PICK k : k = wpos + i
        OBVIOUS
    <2>2. k \in 1..Len(mem) /\ k \in 1..Len(m1) /\ k =< wpos + q
        BY <1>1, <1>9, <1>13, <2>1
    <2>3. m2[k] = m1[k]
        BY <1>1, <1>8, <2>2
    <2> QED
        BY <1>5, <2>1, <2>2, <2>3
<1> QED
    BY <1>10, <1>11, <1>12, <1>13


\* Nothing waits before the first request.
LEMMA AnswerStarts == Answer!Init => AnswerInv
<1> SUFFICES ASSUME Answer!Init PROVE AnswerInv
    OBVIOUS
<1>1. /\ mem = <<>> /\ rpos = 0 /\ wpos = 0 /\ pcount = 0 /\ cloff = 0 /\ hcount = 0
      /\ request = Answer!None /\ meant = <<>>
    BY DEF Answer!Init
<1>2. mem \in Seq(Nat) /\ Len(mem) = 0 /\ meant \in Seq(Nat) /\ Len(meant) = 0
    BY <1>1
<1>3. MostMemory \in Nat
    BY AnswerBounds DEF MostMemory, MostUsed
<1>4. Bounded(Len(mem), rpos)
    BY <1>1, <1>2, <1>3 DEF Bounded
<1>5. Holds(mem, rpos, wpos, 0)
    BY <1>1, <1>2, <1>4 DEF Holds
<1>6. HasAt(mem, rpos, meant)
    BY <1>2 DEF HasAt
<1> QED
    BY <1>1, <1>2, <1>5, <1>6 DEF AnswerInv

\* A header, and the body of an error.
IsHeader(s, status, hc, body) ==
    /\ s \in Seq(Nat) /\ Len(s) = hc + Len(body) /\ Len(body) \in {0, 1}
    /\ s[1] = status /\ s[hc] = Answer!EndOfHeader
    /\ \A i \in hc + 1..Len(s) : s[i] = Answer!Byte

\* It is what reset writes.
LEMMA HeaderIs ==
    ASSUME NEW status \in {Answer!Ok, Answer!NoContent, Answer!Failed},
           NEW body \in {<<>>, <<Answer!Byte>>}, NEW s,
           s = (IF Answer!WithBody(status) THEN <<status, Answer!Unset, Answer!EndOfHeader>>
                ELSE <<status, Answer!EndOfHeader>>) \o body,
           NEW hc, hc = (IF Answer!WithBody(status) THEN 3 ELSE 2)
    PROVE  IsHeader(s, status, hc, body)
<1> USE Units
<1>1. PICK head : head = IF Answer!WithBody(status)
                         THEN <<status, Answer!Unset, Answer!EndOfHeader>>
                         ELSE <<status, Answer!EndOfHeader>>
    OBVIOUS
<1>2. /\ head \in Seq(Nat) /\ Len(head) = hc /\ head[1] = status /\ head[hc] = Answer!EndOfHeader
    <2>1. CASE Answer!WithBody(status)
        BY <1>1, <2>1
    <2>2. CASE ~Answer!WithBody(status)
        BY <1>1, <2>2
    <2> QED
        BY <2>1, <2>2
<1>3. body \in Seq(Nat) /\ Len(body) \in {0, 1} /\ \A i \in 1..Len(body) : body[i] = Answer!Byte
    <2>1. CASE body = <<>>
        BY <2>1
    <2>2. CASE body = <<Answer!Byte>>
        BY <2>2
    <2> QED
        BY <2>1, <2>2
<1>4. hc \in {2, 3} /\ s = head \o body
    BY <1>1
<1>5. /\ s \in Seq(Nat) /\ Len(s) = hc + Len(body)
      /\ \A i \in 1..hc : s[i] = head[i]
      /\ \A i \in hc + 1..hc + Len(body) : s[i] = body[i - hc]
    <2>1. IsJoin(s, head, body)
        BY <1>2, <1>3, <1>4, JoinOf
    <2> QED
        BY <1>2, <1>3, <1>4, <2>1 DEF IsJoin
<1>6. s[1] = status /\ s[hc] = Answer!EndOfHeader
    <2>1. 1 \in 1..hc /\ hc \in 1..hc
        BY <1>4
    <2> QED
        BY <1>2, <1>5, <2>1
<1>7. ASSUME NEW i \in hc + 1..Len(s)
      PROVE  s[i] = Answer!Byte
    <2>1. i - hc \in 1..Len(body) /\ i \in hc + 1..hc + Len(body)
        BY <1>3, <1>4, <1>5
    <2> QED
        BY <1>3, <1>5, <2>1
<1> QED
    BY <1>3, <1>5, <1>6, <1>7 DEF IsHeader

\* What is written of an answer starts anew.
LEMMA ResetKeeps ==
    ASSUME AnswerInv, Len(meant) =< MaxWaiting,
           NEW status \in {Answer!Ok, Answer!NoContent, Answer!Failed},
           NEW body, body = (IF status = Answer!Failed THEN <<Answer!Byte>> ELSE <<>>),
           Answer!Reset(status, body), request' = status, UNCHANGED <<rpos, wpos, meant>>
    PROVE  AnswerInv'
<1>1. PICK s : s = (IF Answer!WithBody(status) THEN <<status, Answer!Unset, Answer!EndOfHeader>>
                    ELSE <<status, Answer!EndOfHeader>>) \o body
    OBVIOUS
<1>2. PICK hc : hc = IF Answer!WithBody(status) THEN 3 ELSE 2
    OBVIOUS
<1>3. body \in {<<>>, <<Answer!Byte>>}
    OBVIOUS
<1>4. /\ s \in Seq(Nat) /\ Len(s) = hc + Len(body) /\ Len(body) \in {0, 1}
      /\ s[1] = status /\ s[hc] = Answer!EndOfHeader
      /\ \A i \in hc + 1..Len(s) : s[i] = Answer!Byte
    <2>1. IsHeader(s, status, hc, body)
        BY <1>1, <1>2, <1>3, HeaderIs
    <2> QED
        BY <2>1 DEF IsHeader
<1>5. /\ mem' = Answer!At(Answer!Prepared(Len(s)), wpos, s)
      /\ pcount' = Len(s) /\ cloff' = (IF Answer!WithBody(status) THEN 2 ELSE 0)
      /\ hcount' = Len(s) - Len(body)
    BY <1>1 DEF Answer!Reset
<1>6. hc \in {2, 3} /\ hcount' = hc /\ pcount' \in Nat /\ hc =< pcount'
    BY <1>2, <1>4, <1>5
<1>7. wpos \in Nat /\ Len(s) \in Nat /\ (0 + Len(s) =< 3 + MaxBody \/ 0 + Len(s) =< 4)
    BY <1>4, <1>6 DEF AnswerInv, Holds
<1>8. PICK m2 : m2 = mem'
    OBVIOUS
<1>9. m2 = Answer!At(Answer!Prepared(0 + Len(s)), wpos + 0, s)
    BY <1>5, <1>7, <1>8
<1>10. Holds(m2, rpos, wpos, 0 + Len(s)) /\ HasAt(m2, rpos, meant) /\ HasAt(m2, wpos + 0, s)
    BY <1>4, <1>7, <1>9, WriteBehind
<1>11. HasAt(m2, wpos, s) /\ Holds(m2, rpos, wpos, pcount')
    BY <1>5, <1>7, <1>10
<1>12. HasBegun(m2, wpos, status, pcount', hc)
    <2>1. Len(s) = pcount' /\ 1 \in 1..Len(s) /\ hc \in 1..Len(s)
        BY <1>5, <1>6
    <2>2. \A i \in hc + 1..Len(s) : i \in 1..Len(s)
        BY <1>6, <2>1
    <2> QED
        BY <1>4, <1>11, <2>1, <2>2 DEF HasAt, HasBegun
<1>13. StreamOf(status, pcount', hcount', cloff')
    <2>1. pcount' = hc + Len(body)
        BY <1>4, <1>5
    <2>2. Len(body) = IF status = Answer!Failed THEN 1 ELSE 0
        OBVIOUS
    <2>3. hc = IF status = Answer!NoContent THEN 2 ELSE 3
        BY <1>2 DEF Answer!WithBody
    <2> QED
        BY <1>2, <1>5, <1>6, <2>1, <2>2, <2>3, Units, AnswerBounds DEF StreamOf
<1>14. cloff' \in 0..hcount' /\ hcount' \in 0..pcount' /\ request' # Answer!None
    BY <1>2, <1>5, <1>6, Units
<1>15. meant' \in Seq(Nat) /\ Len(meant') = wpos' - rpos' /\ HasAt(mem', rpos', meant')
    BY <1>8, <1>10 DEF AnswerInv
<1>16. Holds(mem', rpos', wpos', pcount') /\ HasBegun(mem', wpos', request', pcount', hcount')
    BY <1>6, <1>8, <1>11, <1>12
<1> QED
    BY <1>6, <1>13, <1>14, <1>15, <1>16 DEF AnswerInv

\* A request is handled.
LEMMA HandleAnswerKeeps ==
    ASSUME AnswerInv, NEW status \in {Answer!Ok, Answer!NoContent}, Answer!Handle(status)
    PROVE  AnswerInv'
<1>1. PICK body : body = <<>>
    OBVIOUS
<1>2. body = (IF status = Answer!Failed THEN <<Answer!Byte>> ELSE <<>>)
    BY <1>1, Units
<1>3. /\ Len(meant) =< MaxWaiting /\ Answer!Reset(status, body) /\ request' = status
      /\ UNCHANGED <<rpos, wpos, meant>>
    BY <1>1 DEF Answer!Handle
<1> QED
    BY <1>2, <1>3, ResetKeeps

\* An error is answered instead.
LEMMA FailAnswerKeeps ==
    ASSUME AnswerInv, Answer!Fail
    PROVE  AnswerInv'
<1>1. PICK body, status : body = <<Answer!Byte>> /\ status = Answer!Failed
    OBVIOUS
<1>2. request # Answer!None
    BY Units DEF Answer!Fail
<1>3. Len(meant) =< MaxWaiting
    BY <1>2 DEF AnswerInv
<1>4. Answer!Reset(status, body) /\ request' = status /\ UNCHANGED <<rpos, wpos, meant>>
    BY <1>1 DEF Answer!Fail
<1> QED
    BY <1>1, <1>3, <1>4, ResetKeeps

\* More of a body is written.
LEMMA WriteKeeps ==
    ASSUME AnswerInv, NEW n \in Chunks, Answer!Write(n)
    PROVE  AnswerInv'
<1>1. n \in Nat /\ n > 0
    BY AnswerBounds
<1>2. PICK s : s = [i \in 1..n |-> Answer!Byte]
    OBVIOUS
<1>3. s \in Seq(Nat) /\ Len(s) = n /\ \A i \in 1..n : s[i] = Answer!Byte
    BY <1>1, <1>2, Units
<1>4. /\ request = Answer!Ok /\ pcount - hcount + n =< MaxBody
      /\ mem' = Answer!At(Answer!Prepared(pcount + n), wpos + pcount, s)
      /\ pcount' = pcount + n
      /\ UNCHANGED <<rpos, wpos, cloff, hcount, request, meant>>
    BY <1>2 DEF Answer!Write
<1>5. request # Answer!None /\ Answer!WithBody(request)
    BY <1>4, Units DEF Answer!WithBody
<1>6. /\ StreamOf(request, pcount, hcount, cloff) /\ HasBegun(mem, wpos, request, pcount, hcount)
      /\ Len(meant) =< MaxWaiting /\ pcount \in Nat /\ Holds(mem, rpos, wpos, pcount)
    BY <1>5 DEF AnswerInv
<1>7. hcount = 3 /\ cloff = 2 /\ pcount \in 3..3 + MaxBody
    BY <1>4, <1>5, <1>6 DEF StreamOf
<1>8. PICK q : q = pcount
    OBVIOUS
<1>9. q \in Nat /\ q + Len(s) =< 3 + MaxBody /\ q + Len(s) = pcount + n
    BY <1>1, <1>3, <1>4, <1>6, <1>7, <1>8, AnswerBounds
<1>10. PICK m2 : m2 = mem'
    OBVIOUS
<1>11. m2 = Answer!At(Answer!Prepared(q + Len(s)), wpos + q, s)
    BY <1>4, <1>8, <1>9, <1>10
<1>12. /\ Holds(m2, rpos, wpos, q + Len(s))
       /\ HasAt(m2, rpos, meant) /\ HasAt(m2, wpos + q, s)
       /\ \A i \in 1..q : wpos + i =< Len(mem) => m2[wpos + i] = mem[wpos + i]
    BY <1>3, <1>6, <1>9, <1>11, WriteBehind
<1>13. wpos \in Nat /\ wpos + q =< Len(mem) /\ Len(mem) \in Nat
    BY <1>6, <1>8 DEF Holds
<1>14. ASSUME NEW i \in 1..q
       PROVE  m2[wpos + i] = mem[wpos + i]
    <2>1. wpos + i =< Len(mem)
        BY <1>9, <1>13
    <2> QED
        BY <1>12, <2>1
<1>15. HasBegun(m2, wpos, request, pcount', hcount)
    <2>1. m2[wpos + 1] = request /\ m2[wpos + hcount] = Answer!EndOfHeader
        BY <1>6, <1>7, <1>8, <1>14 DEF HasBegun
    <2>2. ASSUME NEW i \in hcount + 1..pcount'
          PROVE  m2[wpos + i] = Answer!Byte
        <3>1. CASE i =< q
            BY <1>6, <1>7, <1>8, <1>14, <2>2, <3>1 DEF HasBegun
        <3>2. CASE i > q
            <4>1. PICK j : j = i - q
                OBVIOUS
            <4>2. j \in 1..Len(s) /\ j \in 1..n /\ wpos + q + j = wpos + i
                BY <1>3, <1>4, <1>7, <1>8, <1>9, <1>13, <2>2, <3>2, <4>1
            <4> QED
                BY <1>3, <1>12, <4>2 DEF HasAt
        <3> QED
            BY <1>7, <1>8, <2>2, <3>1, <3>2
    <2> QED
        BY <2>1, <2>2 DEF HasBegun
<1>16. StreamOf(request', pcount', hcount', cloff')
    BY <1>1, <1>4, <1>5, <1>7, Units, AnswerBounds DEF StreamOf
<1>17. pcount' \in Nat /\ hcount' \in 0..pcount' /\ cloff' \in 0..hcount'
    BY <1>1, <1>4, <1>7
<1>18. Holds(mem', rpos', wpos', pcount') /\ HasBegun(mem', wpos', request', pcount', hcount')
    BY <1>4, <1>9, <1>10, <1>12, <1>15
<1>19. meant' \in Seq(Nat) /\ Len(meant') = wpos' - rpos' /\ HasAt(mem', rpos', meant')
    BY <1>4, <1>10, <1>12 DEF AnswerInv
<1> QED
    BY <1>4, <1>5, <1>6, <1>16, <1>17, <1>18, <1>19 DEF AnswerInv


\* A whole answer, unit for unit.
IsAnswer(a, status, n, hc) ==
    /\ a \in Seq(Nat) /\ Len(a) = hc + n
    /\ \A i \in 1..hc + n :
        a[i] = IF i = 1 THEN status ELSE IF i = hc THEN Answer!EndOfHeader
               ELSE IF i = 2 THEN n ELSE Answer!Byte

\* The client is to get one.
LEMMA AnswerIs ==
    ASSUME NEW status \in {Answer!Ok, Answer!NoContent, Answer!Failed}, NEW n \in Nat,
           NEW hc, hc = (IF Answer!WithBody(status) THEN 3 ELSE 2),
           ~Answer!WithBody(status) => n = 0
    PROVE  IsAnswer(Answer!Answer(status, n), status, n, hc)
<1> USE Units
<1>1. CASE Answer!WithBody(status)
    <2>1. PICK head, body : head = <<status, n, Answer!EndOfHeader>> /\ body = [i \in 1..n |-> Answer!Byte]
        OBVIOUS
    <2>2. /\ head \in Seq(Nat) /\ Len(head) = 3
          /\ head[1] = status /\ head[2] = n /\ head[3] = Answer!EndOfHeader
        BY <2>1
    <2>3. body \in Seq(Nat) /\ Len(body) = n /\ \A i \in 1..n : body[i] = Answer!Byte
        BY <2>1
    <2>4. PICK s : s = head \o body
        OBVIOUS
    <2>5. /\ s \in Seq(Nat) /\ Len(s) = 3 + n
          /\ \A i \in 1..3 : s[i] = head[i]
          /\ \A i \in 4..3 + n : s[i] = body[i - 3]
        <3>1. IsJoin(s, head, body)
            BY <2>2, <2>3, <2>4, JoinOf
        <3> QED
            BY <2>2, <2>3, <3>1 DEF IsJoin
    <2>6. Answer!Answer(status, n) = s /\ hc = 3
        BY <1>1, <2>1, <2>4 DEF Answer!Answer
    <2>7. ASSUME NEW i \in 1..3 + n
          PROVE  s[i] = IF i = 1 THEN status ELSE IF i = 3 THEN Answer!EndOfHeader
                        ELSE IF i = 2 THEN n ELSE Answer!Byte
        <3>1. CASE i =< 3
            BY <2>2, <2>3, <2>5, <3>1
        <3>2. CASE i > 3
            <4>1. i - 3 \in 1..n
                BY <3>2
            <4>2. s[i] = body[i - 3]
                BY <2>2, <2>3, <2>5, <3>2
            <4> QED
                BY <2>3, <3>2, <4>1, <4>2
        <3> QED
            BY <3>1, <3>2
    <2> QED
        BY <2>5, <2>6, <2>7 DEF IsAnswer
<1>2. CASE ~Answer!WithBody(status)
    <2>1. Answer!Answer(status, n) = <<status, Answer!EndOfHeader>> /\ hc = 2 /\ n = 0
        BY <1>2 DEF Answer!Answer
    <2>2. PICK s : s = <<status, Answer!EndOfHeader>>
        OBVIOUS
    <2>3. s \in Seq(Nat) /\ Len(s) = 2 /\ s[1] = status /\ s[2] = Answer!EndOfHeader
        BY <2>2
    <2> QED
        BY <2>1, <2>2, <2>3 DEF IsAnswer
<1> QED
    BY <1>1, <1>2

\* The length is put in its place, and the answer is whole.
LEMMA CommitKeeps ==
    ASSUME AnswerInv, Answer!Commit
    PROVE  AnswerInv'
<1>1. /\ request # Answer!None /\ request' = Answer!None
      /\ mem' = (IF cloff > 0 THEN Answer!At(mem, wpos + cloff - 1, <<pcount - hcount>>) ELSE mem)
      /\ wpos' = wpos + pcount
      /\ meant' = meant \o Answer!Answer(request, IF request = Answer!Failed THEN 1 ELSE pcount - hcount)
      /\ UNCHANGED <<rpos, pcount, cloff, hcount>>
    BY DEF Answer!Commit, Answer!stream
<1>2. /\ StreamOf(request, pcount, hcount, cloff) /\ HasBegun(mem, wpos, request, pcount, hcount)
      /\ pcount \in Nat /\ Holds(mem, rpos, wpos, pcount)
      /\ meant \in Seq(Nat) /\ Len(meant) = wpos - rpos /\ HasAt(mem, rpos, meant)
      /\ request \in {Answer!Ok, Answer!NoContent, Answer!Failed}
    BY <1>1 DEF AnswerInv
<1>3. /\ mem \in Seq(Nat) /\ Len(mem) \in Nat /\ wpos \in Nat /\ rpos \in Nat /\ rpos =< wpos
      /\ wpos + pcount =< Len(mem) /\ Bounded(Len(mem), rpos)
    BY <1>2 DEF Holds
<1>4. PICK n : n = pcount - hcount
    OBVIOUS
<1>5. PICK hc : hc = IF Answer!WithBody(request) THEN 3 ELSE 2
    OBVIOUS
<1>6. /\ n \in Nat /\ hcount = hc /\ hc \in {2, 3} /\ pcount = hc + n
      /\ ~Answer!WithBody(request) => n = 0
      /\ request = Answer!Failed => n = 1
      /\ cloff = (IF Answer!WithBody(request) THEN 2 ELSE 0)
    <2>1. hcount = hc /\ hc \in {2, 3} /\ cloff = (IF Answer!WithBody(request) THEN 2 ELSE 0)
        BY <1>2, <1>5 DEF StreamOf
    <2>2. CASE request = Answer!NoContent
        <3>1. ~Answer!WithBody(request) /\ pcount = 2
            BY <1>2, <2>2 DEF StreamOf, Answer!WithBody
        <3> QED
            BY <1>4, <1>5, <2>1, <2>2, <3>1, Units
    <2>3. CASE request = Answer!Failed
        <3>1. Answer!WithBody(request) /\ pcount = 4
            BY <1>2, <2>3, Units DEF StreamOf, Answer!WithBody
        <3> QED
            BY <1>4, <1>5, <2>1, <2>3, <3>1, Units
    <2>4. CASE request = Answer!Ok
        <3>1. Answer!WithBody(request) /\ pcount \in 3..3 + MaxBody
            BY <1>2, <2>4, Units DEF StreamOf, Answer!WithBody
        <3> QED
            BY <1>4, <1>5, <2>1, <2>4, <3>1, Units, AnswerBounds
    <2> QED
        BY <1>2, <2>2, <2>3, <2>4
<1>7. PICK a : a = Answer!Answer(request, n)
    OBVIOUS
<1>8. /\ a \in Seq(Nat) /\ Len(a) = hc + n
      /\ \A i \in 1..hc + n : a[i] = IF i = 1 THEN request ELSE IF i = hc THEN Answer!EndOfHeader
                                     ELSE IF i = 2 THEN n ELSE Answer!Byte
    <2>1. IsAnswer(a, request, n, hc)
        BY <1>2, <1>5, <1>6, <1>7, AnswerIs
    <2> QED
        BY <2>1 DEF IsAnswer
<1>9. meant' = meant \o a
    BY <1>1, <1>4, <1>6, <1>7
<1>10. PICK m2 : m2 = mem'
    OBVIOUS
<1>11. /\ m2 \in Seq(Nat) /\ Len(m2) = Len(mem)
       /\ \A i \in 1..Len(mem) : m2[i] = IF hc = 3 /\ i = wpos + 2 THEN n ELSE mem[i]
    <2>1. CASE hc = 3
        <3>1. PICK p : p = wpos + 1
            OBVIOUS
        <3>2. cloff = 2
            BY <1>5, <1>6, <2>1
        <3>3. p \in Nat /\ wpos + cloff - 1 = p /\ cloff > 0
            BY <1>3, <3>1, <3>2
        <3>4. PICK s : s = <<n>>
            OBVIOUS
        <3>5. s \in Seq(Nat) /\ Len(s) = 1 /\ s[1] = n
            BY <1>6, <3>4
        <3>6. m2 = Answer!At(mem, p, s)
            BY <1>1, <1>4, <1>10, <3>3, <3>4
        <3>7. /\ m2 \in Seq(Nat) /\ Len(m2) = Len(mem)
              /\ \A i \in 1..Len(mem) : m2[i] = IF i \in p + 1..p + Len(s) THEN s[i - p] ELSE mem[i]
            <4>1. IsPut(m2, mem, p, s)
                BY <1>3, <3>3, <3>5, <3>6, PutAt
            <4> QED
                BY <4>1 DEF IsPut
        <3>8. \A i \in 1..Len(mem) : (i \in p + 1..p + Len(s) <=> i = wpos + 2) /\ (i = wpos + 2 => i - p = 1)
            BY <1>3, <3>1, <3>5
        <3> QED
            BY <2>1, <3>5, <3>7, <3>8
    <2>2. CASE hc = 2
        <3>1. cloff = 0
            BY <1>5, <1>6, <2>2
        <3> QED
            BY <1>1, <1>3, <1>10, <2>2, <3>1
    <2> QED
        BY <1>6, <2>1, <2>2
<1>12. \A i \in 1..hc + n : m2[wpos + i] = a[i]
    <2>1. ASSUME NEW i \in 1..hc + n
          PROVE  m2[wpos + i] = a[i]
        <3>1. PICK k : k = wpos + i
            OBVIOUS
        <3>2. k \in 1..Len(mem) /\ (k = wpos + 2 <=> i = 2)
            BY <1>3, <1>6, <3>1
        <3>3. m2[k] = IF hc = 3 /\ i = 2 THEN n ELSE mem[k]
            BY <1>11, <3>2
        <3>4. /\ i = 1 => mem[k] = request
              /\ i = hc => mem[k] = Answer!EndOfHeader
              /\ i > hc => mem[k] = Answer!Byte
            BY <1>2, <1>6, <3>1 DEF HasBegun
        <3>5. i = 1 \/ i = hc \/ i > hc \/ (hc = 3 /\ i = 2)
            BY <1>6
        <3> QED
            BY <1>6, <1>8, <3>1, <3>3, <3>4, <3>5
    <2> QED
        BY <2>1
<1>20. IsJoin(meant', meant, a)
    BY <1>2, <1>8, <1>9, JoinOf
<1>13. meant' \in Seq(Nat) /\ Len(meant') = Len(meant) + (hc + n)
    BY <1>8, <1>20 DEF IsJoin
<1>14. HasAt(m2, rpos, meant')
    <2>1. /\ \A i \in 1..Len(meant) : meant'[i] = meant[i]
          /\ \A i \in Len(meant) + 1..Len(meant) + Len(a) : meant'[i] = a[i - Len(meant)]
        BY <1>20 DEF IsJoin
    <2>2. PICK b : b = meant'
        OBVIOUS
    <2>3. ASSUME NEW i \in 1..Len(b)
          PROVE  m2[rpos + i] = b[i]
        <3>1. i \in 1..Len(meant) + Len(a) /\ Len(meant) \in Nat /\ Len(a) \in Nat
            BY <1>2, <1>8, <1>13, <2>2
        <3>2. CASE i =< Len(meant)
            <4>1. PICK k : k = rpos + i
                OBVIOUS
            <4>2. k \in 1..Len(mem) /\ k # wpos + 2
                <5>1. PICK w : w = Len(meant)
                    OBVIOUS
                <5>2. i =< w /\ i \in Nat /\ 1 =< i /\ w = wpos - rpos
                    BY <1>2, <3>1, <3>2, <5>1
                <5>3. k =< wpos /\ 1 =< k /\ k \in Nat
                    BY <1>3, <4>1, <5>2
                <5>4. wpos =< Len(mem)
                    BY <1>2, <1>3
                <5> QED
                    BY <1>3, <5>3, <5>4
            <4>3. m2[k] = mem[k]
                BY <1>3, <1>11, <4>2
            <4>4. mem[k] = meant[i]
                BY <1>2, <3>1, <3>2, <4>1 DEF HasAt
            <4> QED
                BY <2>1, <2>2, <3>1, <3>2, <4>1, <4>3, <4>4
        <3>3. CASE i > Len(meant)
            <4>1. PICK j : j = i - Len(meant)
                OBVIOUS
            <4>2. j \in 1..hc + n /\ rpos + i = wpos + j
                BY <1>2, <1>3, <1>8, <3>1, <3>3, <4>1
            <4> QED
                BY <1>12, <2>1, <2>2, <3>1, <3>3, <4>1, <4>2
        <3> QED
            BY <3>1, <3>2, <3>3
    <2> QED
        BY <2>2, <2>3 DEF HasAt
<1>15. Holds(m2, rpos, wpos', 0)
    BY <1>1, <1>2, <1>3, <1>11 DEF Holds
<1>16. Len(meant') = wpos' - rpos'
    BY <1>1, <1>2, <1>3, <1>6, <1>13
<1>17. pcount' \in Nat /\ hcount' \in 0..pcount' /\ cloff' \in 0..hcount'
    BY <1>1, <1>2 DEF AnswerInv
<1>18. Holds(mem', rpos', wpos', 0) /\ HasAt(mem', rpos', meant')
    BY <1>1, <1>10, <1>14, <1>15
<1> QED
    BY <1>1, <1>13, <1>16, <1>17, <1>18 DEF AnswerInv

\* A middle piece.
LEMMA PieceOf ==
    ASSUME NEW t \in Seq(Nat), NEW r \in Nat, NEW w \in Nat, r =< w, w =< Len(t)
    PROVE  /\ SubSeq(t, r + 1, w) \in Seq(Nat) /\ Len(SubSeq(t, r + 1, w)) = w - r
           /\ \A i \in 1..w - r : SubSeq(t, r + 1, w)[i] = t[r + i]
<1>1. PICK m : m = r + 1
    OBVIOUS
<1>2. m \in Int /\ w \in Int /\ \A i \in m..w : t[i] \in Nat
    BY <1>1
<1>3. /\ SubSeq(t, m, w) \in Seq(Nat)
      /\ Len(SubSeq(t, m, w)) = IF m <= w THEN w - m + 1 ELSE 0
      /\ \A i \in 1..w - m + 1 : SubSeq(t, m, w)[i] = t[m + i - 1]
    BY <1>2, SubSeqProperties
<1>4. w - m + 1 = w - r /\ (m <= w <=> w - r > 0) /\ w - r \in Nat
    BY <1>1
<1>5. Len(SubSeq(t, m, w)) = w - r
    BY <1>3, <1>4
<1>6. ASSUME NEW i \in 1..w - r
      PROVE  SubSeq(t, m, w)[i] = t[r + i]
    <2>1. i \in 1..w - m + 1 /\ m + i - 1 = r + i
        BY <1>1, <1>4
    <2> QED
        BY <1>3, <2>1
<1> QED
    BY <1>1, <1>3, <1>5, <1>6

\* What follows the units that were taken.
LEMMA RestOf ==
    ASSUME NEW t \in Seq(Nat), NEW n \in 0..Len(t)
    PROVE  /\ SubSeq(t, n + 1, Len(t)) \in Seq(Nat) /\ Len(SubSeq(t, n + 1, Len(t))) = Len(t) - n
           /\ \A i \in 1..Len(t) - n : SubSeq(t, n + 1, Len(t))[i] = t[n + i]
<1>1. PICK m : m = Len(t)
    OBVIOUS
<1>2. m \in Nat /\ n \in Nat /\ n =< m
    BY <1>1
<1>3. /\ SubSeq(t, n + 1, m) \in Seq(Nat) /\ Len(SubSeq(t, n + 1, m)) = m - n
      /\ \A i \in 1..m - n : SubSeq(t, n + 1, m)[i] = t[n + i]
    BY <1>1, <1>2, PieceOf
<1> QED
    BY <1>1, <1>3

\* The socket takes some of what waits.
LEMMA ConsumeKeeps ==
    ASSUME AnswerInv, NEW n \in 1..wpos - rpos, Answer!Consume(n)
    PROVE  AnswerInv'
<1>1. /\ request = Answer!None
      /\ meant' = SubSeq(meant, n + 1, Len(meant))
      /\ UNCHANGED <<pcount, cloff, hcount, request>>
    BY DEF Answer!Consume, Answer!stream
<1>2. /\ Holds(mem, rpos, wpos, 0)
      /\ meant \in Seq(Nat) /\ Len(meant) = wpos - rpos /\ HasAt(mem, rpos, meant)
    BY <1>1 DEF AnswerInv
<1>3. /\ mem \in Seq(Nat) /\ Len(mem) \in Nat /\ wpos \in Nat /\ rpos \in Nat /\ rpos =< wpos
      /\ wpos =< Len(mem) /\ Bounded(Len(mem), rpos) /\ n \in Nat
    BY <1>2 DEF Holds
<1>4. PICK r : r = rpos + n
    OBVIOUS
<1>5. r \in Nat /\ r =< wpos /\ n \in 0..Len(meant)
    BY <1>2, <1>3, <1>4
<1>6. PICK b : b = meant'
    OBVIOUS
<1>7. /\ b \in Seq(Nat) /\ Len(b) = Len(meant) - n
      /\ \A i \in 1..Len(meant) - n : b[i] = meant[n + i]
    BY <1>1, <1>2, <1>5, <1>6, RestOf
<1>8. HasAt(mem, r, b)
    <2>1. ASSUME NEW i \in 1..Len(b)
          PROVE  mem[r + i] = b[i]
        <3>1. PICK j : j = n + i
            OBVIOUS
        <3>2. i \in 1..Len(meant) - n /\ j \in 1..Len(meant) /\ rpos + j = r + i
            BY <1>2, <1>3, <1>4, <1>5, <1>7, <3>1
        <3> QED
            BY <1>2, <1>7, <3>1, <3>2 DEF HasAt
    <2> QED
        BY <2>1 DEF HasAt
<1>9. Len(b) = wpos - r
    BY <1>2, <1>3, <1>4, <1>7
<1>10. /\ Holds(mem', rpos', wpos', 0) /\ HasAt(mem', rpos', b) /\ Len(b) = wpos' - rpos'
    <2>1. CASE Answer!Shrinks(r)
        <3>1. PICK s : s = SubSeq(mem, r + 1, wpos)
            OBVIOUS
        <3>2. mem' = Answer!At(mem, 0, s) /\ rpos' = 0 /\ wpos' = wpos - r
            BY <1>4, <2>1, <3>1 DEF Answer!Consume
        <3>3. s \in Seq(Nat) /\ Len(s) = wpos - r /\ \A i \in 1..wpos - r : s[i] = mem[r + i]
            BY <1>3, <1>5, <3>1, PieceOf
        <3>4. PICK m2 : m2 = mem'
            OBVIOUS
        <3>5. /\ m2 \in Seq(Nat) /\ Len(m2) = Len(mem)
              /\ \A i \in 1..Len(mem) : m2[i] = IF i \in 0 + 1..0 + Len(s) THEN s[i - 0] ELSE mem[i]
            <4>1. IsPut(m2, mem, 0, s)
                BY <1>3, <3>2, <3>3, <3>4, PutAt
            <4> QED
                BY <4>1 DEF IsPut
        <3>6. ASSUME NEW i \in 1..Len(b)
              PROVE  m2[0 + i] = b[i]
            <4>1. i \in 1..wpos - r /\ i \in 1..Len(mem) /\ i \in 0 + 1..0 + Len(s) /\ i - 0 = i /\ 0 + i = i
                BY <1>3, <1>5, <1>9, <3>3, SMTT(30)
            <4>2. m2[i] = mem[r + i]
                BY <3>3, <3>5, <4>1
            <4> QED
                BY <1>8, <4>1, <4>2 DEF HasAt
        <3>7. HasAt(m2, 0, b)
            BY <3>6 DEF HasAt
        <3>8. Bounded(Len(m2), 0)
            BY <1>3, <3>5 DEF Bounded
        <3>9. wpos - r \in Nat /\ wpos - r =< Len(mem)
            BY <1>3, <1>5
        <3>10. Holds(m2, 0, wpos - r, 0)
            BY <3>5, <3>8, <3>9 DEF Holds
        <3> QED
            BY <1>9, <3>2, <3>4, <3>7, <3>9, <3>10
    <2>2. CASE ~Answer!Shrinks(r)
        <3>1. mem' = mem /\ rpos' = r /\ wpos' = wpos
            BY <1>4, <2>2 DEF Answer!Consume
        <3>2. Bounded(Len(mem), r)
            BY <1>3, <1>5, <2>2, AnswerBounds DEF Bounded, Answer!Shrinks
        <3>3. Holds(mem, r, wpos, 0)
            BY <1>3, <1>5, <3>2 DEF Holds
        <3> QED
            BY <1>8, <1>9, <3>1, <3>3
    <2> QED
        BY <2>1, <2>2
<1>11. /\ pcount' \in Nat /\ hcount' \in 0..pcount' /\ cloff' \in 0..hcount'
       /\ request' = Answer!None
    BY <1>1 DEF AnswerInv
<1> QED
    BY <1>6, <1>7, <1>10, <1>11 DEF AnswerInv

\* A step of the answers keeps their invariant.
LEMMA AnswerSteps ==
    ASSUME AnswerInv, Answer!Next
    PROVE  AnswerInv'
<1>1. CASE \E status \in {Answer!Ok, Answer!NoContent} : Answer!Handle(status)
    BY <1>1, HandleAnswerKeeps
<1>2. CASE \E n \in Chunks : Answer!Write(n)
    BY <1>2, WriteKeeps
<1>3. CASE Answer!Fail
    BY <1>3, FailAnswerKeeps
<1>4. CASE Answer!Commit
    BY <1>4, CommitKeeps
<1>5. CASE \E n \in 1..wpos - rpos : Answer!Consume(n)
    BY <1>5, ConsumeKeeps
<1> QED
    BY <1>1, <1>2, <1>3, <1>4, <1>5 DEF Answer!Next

\* What the invariant says of the answers.
LEMMA AnswersSay ==
    ASSUME AnswerInv
    PROVE  Answer!TypeOK /\ Answer!AnswersAreWhole /\ Answer!MemoryIsBounded
<1>1. PICK k : k = IF request = Answer!None THEN 0 ELSE pcount
    OBVIOUS
<1>2. /\ Holds(mem, rpos, wpos, k) /\ k \in Nat
      /\ meant \in Seq(Nat) /\ Len(meant) = wpos - rpos /\ HasAt(mem, rpos, meant)
    BY <1>1 DEF AnswerInv
<1>3. /\ mem \in Seq(Nat) /\ Len(mem) \in Nat /\ wpos \in Nat /\ rpos \in Nat /\ rpos =< wpos
      /\ wpos + k =< Len(mem) /\ Bounded(Len(mem), rpos)
    BY <1>2 DEF Holds
<1>4. Answer!TypeOK
    BY <1>1, <1>3 DEF Answer!TypeOK, AnswerInv
<1>5. Answer!AnswersAreWhole
    <2>1. PICK s : s = SubSeq(mem, rpos + 1, wpos)
        OBVIOUS
    <2>2. wpos =< Len(mem)
        BY <1>2, <1>3
    <2>3. s \in Seq(Nat) /\ Len(s) = wpos - rpos /\ \A i \in 1..wpos - rpos : s[i] = mem[rpos + i]
        BY <1>3, <2>1, <2>2, PieceOf
    <2>4. \A i \in 1..Len(s) : s[i] = meant[i]
        BY <1>2, <2>3 DEF HasAt
    <2>5. s = meant
        BY <1>2, <2>3, <2>4, SeqEqual
    <2> QED
        BY <2>1, <2>5 DEF Answer!AnswersAreWhole
<1>6. Answer!MemoryIsBounded
    BY <1>3 DEF Bounded, MostMemory, MostUsed, Answer!MemoryIsBounded
<1> QED
    BY <1>4, <1>5, <1>6

-----------------------------------------------------------------------------
(* How the head of a request gets into HttpRequest.                          *)

\* A header, and what a header of the name n has for the one that is looked for.
Header == [name : Names, value : Seq(Nat)]
Given(n, name, v) == IF n = name THEN v ELSE <<>>

\* What has been kept of the headers hs, and of one more of the name n with the value v.
KeptOf(name, hs, n, v) ==
    Request!Truncate(Request!Sent(hs, name) \o Given(n, name, v), MaxValue)
IsKept(hs, n, v) ==
    /\ req.accnt = KeptOf(AccntName, hs, n, v)
    /\ req.perm = KeptOf(PermName, hs, n, v)

\* The part t of the url has been heard.
InUrl(t) ==
    /\ url = t \o rest /\ req.url = t /\ headers = <<>>
    /\ req.accnt = <<>> /\ req.perm = <<>> /\ last # "field"

\* After the headers hs the part t of the name n has been heard.
InField(hs, n, t) ==
    /\ headers = Append(hs, [name |-> n, value |-> <<>>]) /\ n = t \o rest
    /\ IsKept(hs, n, <<>>) /\ req.url = url
    /\ IF begun THEN last = "field" /\ req.field = Request!Truncate(t, MaxField)
                ELSE last # "field" /\ t = <<>>

\* The name n has been heard, and the part t of its value.
InValue(hs, n, t) ==
    /\ headers = Append(hs, [name |-> n, value |-> t \o rest])
    /\ IsKept(hs, n, t) /\ req.url = url
    /\ IF begun THEN last = "value" /\ req.value = Request!Target(n)
                ELSE last = "field" /\ t = <<>> /\ req.field = Request!Truncate(n, MaxField)

\* All has been heard.
AtEnd ==
    /\ req.accnt = Request!Truncate(Request!Sent(headers, AccntName), MaxValue)
    /\ req.perm = Request!Truncate(Request!Sent(headers, PermName), MaxValue)
    /\ req.url = url /\ last # "field"

\* What HttpRequest may hold.
IsReq(r) ==
    /\ r \in [url : Seq(Nat), field : Seq(Nat), value : {"none", "accnt", "perm"},
              accnt : Seq(Nat), perm : Seq(Nat)]
    /\ Len(r.url) =< MaxUrl /\ Len(r.field) =< MaxField
    /\ Len(r.accnt) =< MaxValue /\ Len(r.perm) =< MaxValue

HeadTypes ==
    /\ begun \in BOOLEAN /\ last \in {"none", "field", "value"} /\ IsReq(req)
    /\ url \in Seq(Nat) /\ Len(url) =< MaxUrl /\ rest \in Seq(Nat) /\ headers \in Seq(Header)

HeadInv ==
    /\ HeadTypes
    /\ \/ elem = "url" /\ \E t \in Seq(Nat) : InUrl(t)
       \/ elem = "field" /\ \E hs \in Seq(Header), n \in Names, t \in Seq(Nat) : InField(hs, n, t)
       \/ elem = "value" /\ \E hs \in Seq(Header), n \in Names, t \in Seq(Nat) : InValue(hs, n, t)
       \/ elem = "end" /\ AtEnd

-----------------------------------------------------------------------------

\* The names, the values and the sizes of what is kept.
LEMMA HeadBounds ==
    /\ MaxUrl \in Nat /\ MaxField \in Nat /\ MaxValue \in Nat
    /\ Urls \subseteq Seq(Nat) /\ Names \subseteq Seq(Nat) /\ Values \subseteq Seq(Nat)
    /\ AccntName \in Names /\ PermName \in Names /\ AccntName # PermName
    /\ Len(AccntName) < MaxField /\ Len(PermName) < MaxField
    /\ \A u \in Urls : Len(u) =< MaxUrl
    BY WebAssumption DEF WebAssumption, Request!HttpHeadAssumption

\* The sequence u is the first n of s, or s if it has no more.
IsCut(u, s, n) ==
    /\ u \in Seq(Nat) /\ Len(u) = (IF Len(s) > n THEN n ELSE Len(s))
    /\ \A i \in 1..Len(u) : u[i] = s[i]
    /\ Len(s) =< n => u = s

\* That is what a buffer of n keeps of it.
LEMMA TruncateOf ==
    ASSUME NEW s \in Seq(Nat), NEW n \in Nat
    PROVE  IsCut(Request!Truncate(s, n), s, n)
<1>1. Len(s) \in Nat
    OBVIOUS
<1>2. CASE Len(s) > n
    <2>1. /\ SubSeq(s, 0 + 1, n) \in Seq(Nat) /\ Len(SubSeq(s, 0 + 1, n)) = n - 0
          /\ \A i \in 1..n - 0 : SubSeq(s, 0 + 1, n)[i] = s[0 + i]
        BY <1>1, <1>2, PieceOf
    <2>2. PICK u : u = SubSeq(s, 1, n)
        OBVIOUS
    <2>3. u \in Seq(Nat) /\ Len(u) = n /\ \A i \in 1..n : u[i] = s[i]
        BY <2>1, <2>2
    <2>4. Request!Truncate(s, n) = u
        BY <1>2, <2>2 DEF Request!Truncate
    <2> QED
        BY <1>1, <1>2, <2>3, <2>4 DEF IsCut
<1>3. CASE ~(Len(s) > n)
    <2>1. Request!Truncate(s, n) = s
        BY <1>3 DEF Request!Truncate
    <2> QED
        BY <1>1, <1>3, <2>1 DEF IsCut
<1> QED
    BY <1>2, <1>3

\* What a buffer keeps is a sequence of at most its size.
LEMMA TruncateType ==
    ASSUME NEW s \in Seq(Nat), NEW n \in Nat
    PROVE  /\ Request!Truncate(s, n) \in Seq(Nat) /\ Len(Request!Truncate(s, n)) =< n
           /\ Len(s) =< n => Request!Truncate(s, n) = s
<1>1. PICK u : u = Request!Truncate(s, n)
    OBVIOUS
<1>2. IsCut(u, s, n)
    BY <1>1, TruncateOf
<1> QED
    BY <1>1, <1>2, Len(s) \in Nat DEF IsCut

\* A buffer that is full keeps no more: to append to it piece by piece is to append
\* all at once.
LEMMA AppendedTwice ==
    ASSUME NEW s \in Seq(Nat), NEW p \in Seq(Nat), NEW n \in Nat
    PROVE  Request!Appended(Request!Truncate(s, n), p, n) = Request!Truncate(s \o p, n)
<1>1. PICK a : a = Request!Truncate(s, n)
    OBVIOUS
<1>2. IsCut(a, s, n) /\ a \in Seq(Nat)
    BY <1>1, TruncateOf DEF IsCut
<1>3. PICK b : b = a \o p
    OBVIOUS
<1>4. PICK c : c = s \o p
    OBVIOUS
<1>5. IsJoin(b, a, p) /\ IsJoin(c, s, p) /\ b \in Seq(Nat) /\ c \in Seq(Nat)
    BY <1>2, <1>3, <1>4, JoinOf DEF IsJoin
<1>6. PICK d : d = Request!Truncate(b, n)
    OBVIOUS
<1>7. PICK e : e = Request!Truncate(c, n)
    OBVIOUS
<1>8. IsCut(d, b, n) /\ IsCut(e, c, n) /\ d \in Seq(Nat) /\ e \in Seq(Nat)
    BY <1>5, <1>6, <1>7, TruncateOf DEF IsCut
<1>9. CASE Len(s) =< n
    <2>1. a = s
        BY <1>2, <1>9 DEF IsCut
    <2> QED
        BY <1>1, <2>1 DEF Request!Appended
<1>10. CASE Len(s) > n
    <2>1. Len(s) \in Nat /\ Len(p) \in Nat /\ Len(a) = n
        BY <1>2, <1>10 DEF IsCut
    <2>2. Len(d) = n /\ Len(e) = n
        <3>1. Len(b) = n + Len(p) /\ Len(c) = Len(s) + Len(p)
            BY <1>5, <2>1 DEF IsJoin
        <3> QED
            BY <1>8, <1>10, <2>1, <3>1 DEF IsCut
    <2>3. ASSUME NEW i \in 1..n
          PROVE  d[i] = e[i]
        <3>1. d[i] = b[i] /\ e[i] = c[i]
            BY <1>8, <2>2 DEF IsCut
        <3>2. b[i] = a[i]
            BY <1>5, <2>1 DEF IsJoin
        <3>3. i \in 1..Len(s)
            BY <1>10, <2>1
        <3>4. c[i] = s[i]
            BY <1>5, <3>3 DEF IsJoin
        <3>5. a[i] = s[i]
            BY <1>2, <2>1 DEF IsCut
        <3> QED
            BY <3>1, <3>2, <3>4, <3>5
    <2>4. d = e
        BY <1>8, <2>2, <2>3, SeqEqual
    <2> QED
        BY <1>1, <1>3, <1>4, <1>6, <1>7, <2>4 DEF Request!Appended
<1> QED
    BY <1>9, <1>10, Len(s) \in Nat

\* A piece of what is left, and what is left after it.
LEMMA PieceAndRest ==
    ASSUME NEW r \in Seq(Nat), NEW n \in 0..Len(r), NEW t \in Seq(Nat)
    PROVE  /\ Request!Truncate(r, n) \in Seq(Nat) /\ SubSeq(r, n + 1, Len(r)) \in Seq(Nat)
           /\ t \o Request!Truncate(r, n) \in Seq(Nat)
           /\ (t \o Request!Truncate(r, n)) \o SubSeq(r, n + 1, Len(r)) = t \o r
<1>1. PICK len : len = Len(r)
    OBVIOUS
<1>2. len \in Nat /\ n \in 0..len /\ n \in Nat
    BY <1>1
<1>3. SubSeq(r, 1, n) = Request!Truncate(r, n) /\ SubSeq(r, 1, len) = r
    <2>1. SubSeq(r, 1, len) = r
        BY <1>1, <1>2
    <2>2. n = len \/ len > n
        BY <1>2
    <2> QED
        BY <1>1, <2>1, <2>2 DEF Request!Truncate
<1>4. PICK p : p = SubSeq(r, 1, n)
    OBVIOUS
<1>5. PICK q : q = SubSeq(r, n + 1, len)
    OBVIOUS
<1>6. p \in Seq(Nat)
    BY <1>2, <1>3, <1>4, TruncateType
<1>7. q \in Seq(Nat)
    BY <1>1, <1>2, <1>5, PieceOf
<1>8. p \o q = r
    <2>1. 1 \in 1..len + 1 /\ n \in 1 - 1..len /\ len \in n..len
        BY <1>2
    <2>2. SubSeq(r, 1, n) \o SubSeq(r, n + 1, len) = SubSeq(r, 1, len)
        BY <1>1, <2>1, ConcatAdjacentSubSeq
    <2> QED
        BY <1>3, <1>4, <1>5, <2>2
<1>9. (t \o p) \o q = t \o (p \o q)
    BY ONLY <1>6, <1>7, t \in Seq(Nat), Regrouped, SMTT(30)
<1>10. t \o p \in Seq(Nat)
    BY <1>6, ConcatProperties
<1> QED
    BY <1>1, <1>3, <1>4, <1>5, <1>6, <1>7, <1>8, <1>9, <1>10

\* A name that was cut is taken for the same header as the whole of it.
LEMMA TargetOfCut ==
    ASSUME NEW n \in Names
    PROVE  Request!Target(Request!Truncate(n, MaxField)) = Request!Target(n)
<1>1. n \in Seq(Nat) /\ AccntName \in Seq(Nat) /\ PermName \in Seq(Nat) /\ MaxField \in Nat
    BY HeadBounds
<1>2. PICK c : c = Request!Truncate(n, MaxField)
    OBVIOUS
<1>3. IsCut(c, n, MaxField)
    BY <1>1, <1>2, TruncateOf
<1>4. CASE Len(n) =< MaxField
    BY <1>2, <1>3, <1>4 DEF IsCut
<1>5. CASE Len(n) > MaxField
    <2>1. Len(c) = MaxField
        BY <1>3, <1>5 DEF IsCut
    <2>2. Len(AccntName) \in Nat /\ Len(PermName) \in Nat /\ Len(n) \in Nat
        BY <1>1
    <2>3. n # AccntName /\ n # PermName /\ c # AccntName /\ c # PermName
        BY <1>1, <1>5, <2>1, <2>2, HeadBounds
    <2> QED
        BY <1>2, <2>3 DEF Request!Target
<1> QED
    BY <1>1, <1>4, <1>5, Len(n) \in Nat

\* The recursive function behind Sent.
IsSent(f, k, hs, name) ==
    f = [i \in 0..k |->
            IF i = 0 THEN <<>>
            ELSE f[i - 1] \o (IF hs[i].name = name THEN hs[i].value ELSE <<>>)]

\* It exists, however many headers there are.
LEMMA SentExists ==
    ASSUME NEW hs, NEW name, NEW n \in Nat
    PROVE  \E f : IsSent(f, n, hs, name)
<1> DEFINE Good == {k \in Nat : \E f : IsSent(f, k, hs, name)}
           g(i, s) == s \o (IF hs[i].name = name THEN hs[i].value ELSE <<>>)
<1> HIDE DEF g
<1>1. 0 \in Good
    <2>1. IsSent([i \in 0..0 |-> <<>>], 0, hs, name)
        BY DEF IsSent
    <2> QED
        BY <2>1
<1>2. ASSUME NEW k \in Nat, k \in Good
      PROVE  k + 1 \in Good
    <2>1. PICK f : f = [i \in 0..k |-> IF i = 0 THEN <<>> ELSE g(i, f[i - 1])]
        BY <1>2 DEF IsSent, g
    <2> DEFINE h == [i \in 0..(k + 1) |-> IF i = k + 1 THEN g(k + 1, f[k]) ELSE f[i]]
    <2>2. \A i \in 0..k : h[i] = f[i]
        OBVIOUS
    <2>3. h[k + 1] = g(k + 1, h[k])
        OBVIOUS
    <2>4. \A i \in 1..k : h[i] = g(i, h[i - 1])
        BY <2>1, <2>2
    <2>5. h[0] = <<>>
        BY <2>1
    <2>6. \A i \in 0..(k + 1) : h[i] = IF i = 0 THEN <<>> ELSE g(i, h[i - 1])
        <3>1. \A i \in 0..(k + 1) : i = 0 \/ i \in 1..k \/ (i = k + 1 /\ i - 1 = k /\ i # 0)
            OBVIOUS
        <3> HIDE DEF h
        <3> QED
            BY <2>3, <2>4, <2>5, <3>1
    <2>7. IsSent(h, k + 1, hs, name)
        <3>1. h = [i \in 0..(k + 1) |-> h[i]]
            OBVIOUS
        <3> HIDE DEF h
        <3> QED
            BY <2>6, <3>1 DEF IsSent, g
    <2> QED
        BY <2>7
<1> HIDE DEF Good
<1>3. Good \in SUBSET Nat
    BY DEF Good
<1>4. n \in Good
    BY <1>1, <1>2, <1>3, NumberInduction
<1> QED
    BY <1>4 DEF Good

\* Sent is its last value.
LEMMA SentBy ==
    ASSUME NEW hs, Len(hs) \in Nat, NEW name
    PROVE  \E f : IsSent(f, Len(hs), hs, name) /\ Request!Sent(hs, name) = f[Len(hs)]
<1>1. PICK f : f = CHOOSE g : IsSent(g, Len(hs), hs, name)
    OBVIOUS
<1>2. IsSent(f, Len(hs), hs, name)
    BY <1>1, SentExists
<1>3. Request!Sent(hs, name) = f[Len(hs)]
    BY <1>1 DEF Request!Sent, IsSent
<1> QED
    BY <1>2, <1>3

\* Before there are headers nothing is sent.
LEMMA SentOfNone ==
    ASSUME NEW name
    PROVE  Request!Sent(<<>>, name) = <<>>
<1>1. Len(<<>>) = 0
    OBVIOUS
<1>2. PICK f : IsSent(f, 0, <<>>, name) /\ Request!Sent(<<>>, name) = f[0]
    BY <1>1, SentBy
<1> QED
    BY <1>2 DEF IsSent

\* What is sent is a sequence.
LEMMA SentType ==
    ASSUME NEW hs \in Seq(Header), NEW name
    PROVE  Request!Sent(hs, name) \in Seq(Nat)
<1>1. PICK len : len = Len(hs)
    OBVIOUS
<1>2. len \in Nat /\ \A i \in 1..len : hs[i].value \in Seq(Nat)
    <2>1. len \in Nat /\ \A i \in 1..len : hs[i] \in Header
        BY <1>1
    <2>2. \A h \in Header : h.value \in Seq(Nat)
        BY DEF Header
    <2> QED
        BY <2>1, <2>2
<1>3. PICK f : IsSent(f, len, hs, name) /\ Request!Sent(hs, name) = f[len]
    BY <1>1, <1>2, SentBy
<1>4. \A i \in 0..len :
        f[i] = IF i = 0 THEN <<>>
               ELSE f[i - 1] \o (IF hs[i].name = name THEN hs[i].value ELSE <<>>)
    BY <1>3 DEF IsSent
<1> DEFINE Good == {i \in Nat : i =< len => f[i] \in Seq(Nat)}
<1>5. 0 \in Good
    <2>1. f[0] = <<>>
        BY <1>2, <1>4
    <2>2. <<>> \in Seq(Nat)
        OBVIOUS
    <2> QED
        BY <2>1, <2>2
<1>6. ASSUME NEW i \in Good
      PROVE  i + 1 \in Good
    <2>1. SUFFICES ASSUME i + 1 =< len
                   PROVE  f[i + 1] \in Seq(Nat)
        OBVIOUS
    <2>2. i + 1 \in 0..len /\ i + 1 \in 1..len /\ i + 1 # 0 /\ (i + 1) - 1 = i /\ f[i] \in Seq(Nat)
        BY <1>2, <2>1
    <2>3. PICK s : s = IF hs[i + 1].name = name THEN hs[i + 1].value ELSE <<>>
        OBVIOUS
    <2>4. s \in Seq(Nat)
        BY <1>2, <2>2, <2>3
    <2>5. f[i + 1] = f[i] \o s
        BY <1>4, <2>2, <2>3
    <2> QED
        BY <2>2, <2>4, <2>5, ConcatProperties
<1> HIDE DEF Good
<1>7. Good \in SUBSET Nat
    BY DEF Good
<1>8. len \in Good
    BY <1>2, <1>5, <1>6, <1>7, NumberInduction
<1> QED
    BY <1>2, <1>3, <1>8 DEF Good

\* One more header adds what it has for the name.
LEMMA SentAppended ==
    ASSUME NEW hs \in Seq(Header), NEW h \in Header, NEW name
    PROVE  Request!Sent(Append(hs, h), name) = Request!Sent(hs, name) \o Given(h.name, name, h.value)
<1>1. PICK len : len = Len(hs)
    OBVIOUS
<1>2. PICK more : more = Append(hs, h)
    OBVIOUS
<1>3. len \in Nat /\ Len(more) = len + 1 /\ more[len + 1] = h /\ \A i \in 1..len : more[i] = hs[i]
    BY <1>1, <1>2, AppendProperties
<1>4. PICK f : IsSent(f, len, hs, name) /\ Request!Sent(hs, name) = f[len]
    BY <1>1, <1>3, SentBy
<1>5. PICK g : IsSent(g, len + 1, more, name) /\ Request!Sent(more, name) = g[len + 1]
    BY <1>3, SentBy
<1>6. \A i \in 0..len :
        f[i] = IF i = 0 THEN <<>>
               ELSE f[i - 1] \o (IF hs[i].name = name THEN hs[i].value ELSE <<>>)
    BY <1>4 DEF IsSent
<1>7. \A i \in 0..len + 1 :
        g[i] = IF i = 0 THEN <<>>
               ELSE g[i - 1] \o (IF more[i].name = name THEN more[i].value ELSE <<>>)
    BY <1>5 DEF IsSent
<1> DEFINE Good == {i \in Nat : i =< len => f[i] = g[i]}
<1>8. 0 \in Good
    BY <1>3, <1>6, <1>7
<1>9. ASSUME NEW i \in Good
      PROVE  i + 1 \in Good
    <2>1. SUFFICES ASSUME i + 1 =< len
                   PROVE  f[i + 1] = g[i + 1]
        OBVIOUS
    <2>2. /\ i + 1 \in 0..len /\ i + 1 \in 0..len + 1 /\ i + 1 \in 1..len
          /\ i + 1 # 0 /\ (i + 1) - 1 = i /\ f[i] = g[i]
        BY <1>3, <2>1
    <2>3. more[i + 1] = hs[i + 1]
        BY <1>3, <2>2
    <2> QED
        BY <1>6, <1>7, <2>2, <2>3
<1> HIDE DEF Good
<1>10. Good \in SUBSET Nat
    BY DEF Good
<1>11. len \in Good
    BY <1>3, <1>8, <1>9, <1>10, NumberInduction
<1>12. f[len] = g[len]
    BY <1>3, <1>11 DEF Good
<1>13. len + 1 \in 0..len + 1 /\ len + 1 # 0 /\ (len + 1) - 1 = len
    BY <1>3
<1>14. g[len + 1] = g[len] \o Given(h.name, name, h.value)
    BY <1>3, <1>7, <1>13 DEF Given
<1> QED
    BY <1>2, <1>4, <1>5, <1>12, <1>14

\* What is kept of the headers is a sequence that fits.
LEMMA KeptType ==
    ASSUME NEW hs \in Seq(Header), NEW n, NEW v \in Seq(Nat), NEW name
    PROVE  KeptOf(name, hs, n, v) \in Seq(Nat) /\ Len(KeptOf(name, hs, n, v)) =< MaxValue
<1>1. Given(n, name, v) \in Seq(Nat)
    <2>1. <<>> \in Seq(Nat)
        OBVIOUS
    <2> QED
        BY <2>1 DEF Given
<1>2. Request!Sent(hs, name) \o Given(n, name, v) \in Seq(Nat)
    BY <1>1, SentType, ConcatProperties
<1> QED
    BY <1>2, HeadBounds, TruncateType DEF KeptOf

\* A further piece of a value is appended if its header is looked for.
LEMMA KeptMore ==
    ASSUME NEW hs \in Seq(Header), NEW n, NEW t \in Seq(Nat), NEW p \in Seq(Nat), NEW name
    PROVE  KeptOf(name, hs, n, t \o p) =
            IF n = name THEN Request!Appended(KeptOf(name, hs, n, t), p, MaxValue)
            ELSE KeptOf(name, hs, n, t)
<1>1. CASE n = name
    <2>1. PICK s : s = Request!Sent(hs, name)
        OBVIOUS
    <2>2. s \in Seq(Nat)
        BY <2>1, SentType
    <2>3. KeptOf(name, hs, n, t) = Request!Truncate(s \o t, MaxValue)
        BY <1>1, <2>1 DEF KeptOf, Given
    <2>4. KeptOf(name, hs, n, t \o p) = Request!Truncate(s \o (t \o p), MaxValue)
        BY <1>1, <2>1 DEF KeptOf, Given
    <2>5. s \o (t \o p) = (s \o t) \o p /\ s \o t \in Seq(Nat)
        BY <2>2, ConcatAssociative, ConcatProperties
    <2>6. PICK u : u = s \o t
        OBVIOUS
    <2>7. Request!Appended(Request!Truncate(u, MaxValue), p, MaxValue) = Request!Truncate(u \o p, MaxValue)
        BY <2>5, <2>6, HeadBounds, AppendedTwice
    <2> QED
        BY <1>1, <2>3, <2>4, <2>5, <2>6, <2>7
<1>2. CASE n # name
    BY <1>2 DEF KeptOf, Given
<1> QED
    BY <1>1, <1>2

\* A header without a value changes nothing.
LEMMA KeptOfNone ==
    ASSUME NEW hs \in Seq(Header), NEW n, NEW name
    PROVE  KeptOf(name, hs, n, <<>>) = Request!Truncate(Request!Sent(hs, name), MaxValue)
<1>1. Given(n, name, <<>>) = <<>>
    BY DEF Given
<1>2. Request!Sent(hs, name) \o <<>> = Request!Sent(hs, name)
    BY SentType, ConcatEmptySeq
<1> QED
    BY <1>1, <1>2 DEF KeptOf

\* With all of the last value there is what all headers have.
LEMMA KeptOfAll ==
    ASSUME NEW hs \in Seq(Header), NEW n \in Names, NEW v \in Seq(Nat), NEW name
    PROVE  KeptOf(name, hs, n, v) =
            Request!Truncate(Request!Sent(Append(hs, [name |-> n, value |-> v]), name), MaxValue)
<1>1. PICK h : h = [name |-> n, value |-> v]
    OBVIOUS
<1>2. h \in Header /\ h.name = n /\ h.value = v
    BY <1>1 DEF Header
<1>3. Request!Sent(Append(hs, h), name) = Request!Sent(hs, name) \o Given(h.name, name, h.value)
    BY <1>2, SentAppended
<1> QED
    BY <1>1, <1>2, <1>3 DEF KeptOf

-----------------------------------------------------------------------------

\* Of nothing a buffer keeps nothing.
LEMMA NothingKept == Request!Truncate(<<>>, MaxValue) = <<>>
<1>1. ~(Len(<<>>) > MaxValue)
    BY HeadBounds
<1> QED
    BY <1>1 DEF Request!Truncate

\* The invariant holds before the first request.
LEMMA HeadStarts == Request!Init => HeadInv
<1> SUFFICES ASSUME Request!Init PROVE HeadInv
    OBVIOUS
<1>1. /\ url = <<>> /\ headers = <<>> /\ elem = "end" /\ rest = <<>> /\ begun = TRUE
      /\ last = "none" /\ req = Request!Blank
    BY DEF Request!Init
<1>2. /\ req.url = <<>> /\ req.field = <<>> /\ req.value = "none" /\ req.accnt = <<>> /\ req.perm = <<>>
    BY <1>1 DEF Request!Blank
<1>3. <<>> \in Seq(Nat) /\ Len(<<>>) = 0 /\ <<>> \in Seq(Header)
    OBVIOUS
<1>4. IsReq(req)
    BY <1>1, <1>2, <1>3, HeadBounds DEF IsReq, Request!Blank
<1>5. HeadTypes
    BY <1>1, <1>3, <1>4, HeadBounds DEF HeadTypes
<1>7. AtEnd
    BY <1>1, <1>2, NothingKept, SentOfNone DEF AtEnd
<1> QED
    BY <1>1, <1>5, <1>7 DEF HeadInv

\* When an element has ended that a header or the end may follow, what is kept is what
\* was sent.
LEMMA EndedIsAll ==
    ASSUME HeadInv, Request!Ended("url") \/ Request!Ended("value")
    PROVE  AtEnd
<1>1. HeadTypes /\ rest = <<>> /\ begun
    BY DEF HeadInv, Request!Ended
<1>2. CASE elem = "url"
    <2>1. PICK t \in Seq(Nat) : InUrl(t)
        BY <1>2 DEF HeadInv
    <2>2. url = t
        BY <1>1, <2>1, ConcatEmptySeq DEF InUrl
    <2> QED
        BY <2>1, <2>2, NothingKept, SentOfNone DEF AtEnd, InUrl
<1>3. CASE elem = "value"
    <2>1. PICK hs \in Seq(Header), n \in Names, t \in Seq(Nat) : InValue(hs, n, t)
        BY <1>3 DEF HeadInv
    <2>2. t \o rest = t
        BY <1>1, ConcatEmptySeq
    <2>3. headers = Append(hs, [name |-> n, value |-> t])
        BY <2>1, <2>2 DEF InValue
    <2>4. /\ req.accnt = Request!Truncate(Request!Sent(headers, AccntName), MaxValue)
          /\ req.perm = Request!Truncate(Request!Sent(headers, PermName), MaxValue)
        BY <2>1, <2>3, KeptOfAll DEF InValue, IsKept
    <2> QED
        BY <1>1, <2>1, <2>4 DEF AtEnd, InValue
<1> QED
    BY <1>2, <1>3 DEF Request!Ended

\* A request begins, and nothing is left of the one before it.
LEMMA RequestKeeps ==
    ASSUME HeadInv, Request!Request
    PROVE  HeadInv'
<1>1. PICK u \in Urls : url' = u /\ elem' = "url" /\ rest' = u /\ begun' = FALSE
    BY DEF Request!Request, Request!Begin
<1>2. elem = "end" /\ headers' = <<>> /\ req' = Request!Blank /\ last' = last
    BY DEF Request!Request, Request!Cleared
<1>3. HeadTypes /\ last # "field"
    BY <1>2 DEF HeadInv, AtEnd
<1>4. PICK r : r = req'
    OBVIOUS
<1>5. /\ r.url = <<>> /\ r.field = <<>> /\ r.value = "none" /\ r.accnt = <<>> /\ r.perm = <<>>
    BY <1>2, <1>4 DEF Request!Blank
<1>6. <<>> \in Seq(Nat) /\ Len(<<>>) = 0 /\ <<>> \in Seq(Header)
    OBVIOUS
<1>7. IsReq(r)
    BY <1>2, <1>4, <1>5, <1>6, HeadBounds DEF IsReq, Request!Blank
<1>8. u \in Seq(Nat) /\ Len(u) =< MaxUrl
    BY HeadBounds
<1>9. HeadTypes'
    BY <1>1, <1>2, <1>3, <1>4, <1>6, <1>7, <1>8 DEF HeadTypes
<1>10. InUrl(<<>>)'
    <2>1. <<>> \o u = u
        BY <1>8, ConcatEmptySeq
    <2> QED
        BY <1>1, <1>2, <1>3, <1>4, <1>5, <2>1 DEF InUrl
<1> QED
    BY <1>1, <1>6, <1>9, <1>10 DEF HeadInv

\* The name of a header begins.
LEMMA NameKeeps ==
    ASSUME HeadInv, Request!Name
    PROVE  HeadInv'
<1>1. PICK n \in Names : /\ headers' = Append(headers, [name |-> n, value |-> <<>>])
                         /\ elem' = "field" /\ rest' = n /\ begun' = FALSE
    BY DEF Request!Name, Request!Begin
<1>2. UNCHANGED <<url, last, req>>
    BY DEF Request!Name
<1>3. HeadTypes /\ AtEnd
    BY EndedIsAll DEF HeadInv, Request!Name
<1>4. <<>> \in Seq(Nat) /\ n \in Seq(Nat)
    BY HeadBounds
<1>5. HeadTypes'
    <2>1. [name |-> n, value |-> <<>>] \in Header
        BY <1>4 DEF Header
    <2>2. headers' \in Seq(Header)
        BY <1>1, <1>3, <2>1, AppendProperties DEF HeadTypes
    <2> QED
        BY <1>1, <1>2, <1>3, <1>4, <2>2 DEF HeadTypes
<1>6. headers \in Seq(Header)
    BY <1>3 DEF HeadTypes
<1>7. PICK hs \in Seq(Header) : hs = headers
    BY <1>6
<1>8. IsKept(hs, n, <<>>)'
    <2>1. /\ req'.accnt = Request!Truncate(Request!Sent(hs, AccntName), MaxValue)
          /\ req'.perm = Request!Truncate(Request!Sent(hs, PermName), MaxValue)
        BY <1>2, <1>3, <1>7 DEF AtEnd
    <2> QED
        BY <2>1, KeptOfNone DEF IsKept
<1>9. InField(hs, n, <<>>)'
    <2>1. <<>> \o n = n
        BY <1>4, ConcatEmptySeq
    <2> QED
        BY <1>1, <1>2, <1>3, <1>7, <1>8, <2>1 DEF InField, AtEnd
<1> QED
    BY <1>1, <1>4, <1>5, <1>9 DEF HeadInv

\* The last header with another value.
WithLast(all, v) == [all EXCEPT ![Len(all)].value = v]
LEMMA LastReplaced ==
    ASSUME NEW hs \in Seq(Header), NEW n \in Names, NEW v \in Seq(Nat), NEW all,
           all = Append(hs, [name |-> n, value |-> <<>>])
    PROVE  WithLast(all, v) = Append(hs, [name |-> n, value |-> v])
<1>1. PICK g, h : g = [name |-> n, value |-> <<>>] /\ h = [name |-> n, value |-> v]
    OBVIOUS
<1>2. g \in Header /\ h \in Header /\ h = [g EXCEPT !.value = v]
    <2>1. <<>> \in Seq(Nat)
        OBVIOUS
    <2> QED
        BY <1>1, <2>1 DEF Header
<1>3. PICK len : len = Len(hs)
    OBVIOUS
<1>4. /\ len \in Nat /\ all \in Seq(Header) /\ Len(all) = len + 1 /\ all[len + 1] = g
      /\ \A i \in 1..len : all[i] = hs[i]
    BY <1>1, <1>2, <1>3, AppendProperties
<1>5. PICK b : b = Append(hs, h)
    OBVIOUS
<1>6. /\ b \in Seq(Header) /\ Len(b) = len + 1 /\ b[len + 1] = h
      /\ \A i \in 1..len : b[i] = hs[i]
    BY <1>1, <1>2, <1>3, <1>5, AppendProperties
<1>7. PICK c : c = [all EXCEPT ![len + 1] = [@ EXCEPT !.value = v]]
    OBVIOUS
<1>8. c = [all EXCEPT ![len + 1] = h]
    BY <1>2, <1>4, <1>7
<1>9. c \in Seq(Header) /\ Len(c) = len + 1 /\ \A i \in 1..len + 1 : c[i] = IF i = len + 1 THEN h ELSE all[i]
    <2>1. all \in [1..len + 1 -> Header]
        BY <1>4, LenProperties
    <2>2. c \in [1..len + 1 -> Header]
        BY <1>2, <1>8, <2>1
    <2>3. \A i \in 1..len + 1 : c[i] = IF i = len + 1 THEN h ELSE all[i]
        BY <1>8, <2>1
    <2>4. PICK m : m = len + 1
        OBVIOUS
    <2>5. m \in Nat /\ c \in [1..m -> Header]
        BY <1>4, <2>2, <2>4
    <2>6. c \in Seq(Header) /\ Len(c) = m
        BY <2>5
    <2> QED
        BY <2>3, <2>4, <2>6
<1>10. \A i \in 1..len + 1 : c[i] = b[i]
    BY <1>4, <1>6, <1>9
<1>11. c = b
    BY <1>6, <1>9, <1>10, SeqEqual
<1> QED
    BY <1>1, <1>4, <1>5, <1>7, <1>11 DEF WithLast

\* The value of a header begins.
LEMMA ValueKeeps ==
    ASSUME HeadInv, Request!Value
    PROVE  HeadInv'
<1>1. PICK v \in Values : /\ headers' = [headers EXCEPT ![Len(headers)].value = v]
                          /\ elem' = "value" /\ rest' = v /\ begun' = FALSE
    BY DEF Request!Value, Request!Begin
<1>2. elem = "field" /\ rest = <<>> /\ begun /\ UNCHANGED <<url, last, req>>
    BY DEF Request!Value, Request!Ended
<1>3. HeadTypes
    BY DEF HeadInv
<1>4. PICK hs \in Seq(Header), n \in Names, t \in Seq(Nat) : InField(hs, n, t)
    BY <1>2 DEF HeadInv
<1>5. n = t /\ last = "field" /\ req.field = Request!Truncate(n, MaxField)
    BY <1>2, <1>4, ConcatEmptySeq DEF InField
<1>6. v \in Seq(Nat) /\ <<>> \in Seq(Nat)
    BY HeadBounds
<1>7. headers' = Append(hs, [name |-> n, value |-> v])
    <2>1. headers = Append(hs, [name |-> n, value |-> <<>>])
        BY <1>4 DEF InField
    <2>2. WithLast(headers, v) = Append(hs, [name |-> n, value |-> v])
        BY <1>6, <2>1, LastReplaced
    <2> QED
        BY <1>1, <2>2 DEF WithLast
<1>8. HeadTypes'
    <2>1. PICK h : h = [name |-> n, value |-> v]
        OBVIOUS
    <2>2. h \in Header
        BY <1>6, <2>1 DEF Header
    <2>3. headers' \in Seq(Header)
        BY <1>7, <2>1, <2>2, AppendProperties
    <2> QED
        BY <1>1, <1>2, <1>3, <1>6, <2>3 DEF HeadTypes
<1>9. IsKept(hs, n, <<>>)'
    BY <1>2, <1>4 DEF InField, IsKept
<1>10. InValue(hs, n, <<>>)'
    <2>1. <<>> \o v = v
        BY <1>6, ConcatEmptySeq
    <2> QED
        BY <1>1, <1>2, <1>4, <1>5, <1>7, <1>9, <2>1 DEF InValue, InField
<1> QED
    BY <1>1, <1>6, <1>8, <1>10 DEF HeadInv

\* The request is complete.
LEMMA EndKeeps ==
    ASSUME HeadInv, Request!End
    PROVE  HeadInv'
<1>1. elem' = "end" /\ UNCHANGED <<url, headers, rest, begun, last, req>>
    BY DEF Request!End
<1>2. HeadTypes /\ AtEnd
    BY EndedIsAll DEF HeadInv, Request!End
<1> QED
    BY <1>1, <1>2 DEF HeadInv, HeadTypes, AtEnd

\* A piece of the url arrives.
LEMMA OnUrlKeeps ==
    ASSUME HeadInv, NEW n \in 0..Len(rest), Request!OnUrl(n)
    PROVE  HeadInv'
<1>1. /\ elem = "url" /\ elem' = elem /\ rest' = SubSeq(rest, n + 1, Len(rest)) /\ begun' = TRUE
      /\ UNCHANGED <<url, headers, last>>
      /\ req' = [req EXCEPT !.url = Request!Appended(req.url, Request!Truncate(rest, n), MaxUrl)]
    BY DEF Request!OnUrl, Request!Piece
<1>2. HeadTypes /\ rest \in Seq(Nat)
    BY DEF HeadInv, HeadTypes
<1>3. PICK t \in Seq(Nat) : InUrl(t)
    BY <1>1 DEF HeadInv
<1>4. PICK p : p = Request!Truncate(rest, n)
    OBVIOUS
<1>5. PICK u : u = t \o p
    OBVIOUS
<1>6. p \in Seq(Nat) /\ rest' \in Seq(Nat) /\ u \in Seq(Nat) /\ u \o rest' = url
    BY <1>1, <1>2, <1>3, <1>4, <1>5, PieceAndRest DEF InUrl
<1>7. Len(u) =< MaxUrl
    <2>1. PICK r : r = rest'
        OBVIOUS
    <2>2. Len(u) \in Nat /\ Len(r) \in Nat /\ Len(u \o r) = Len(u) + Len(r)
        BY <1>6, <2>1
    <2> QED
        BY <1>2, <1>6, <2>1, <2>2, HeadBounds DEF HeadTypes
<1>8. Request!Appended(req.url, p, MaxUrl) = u
    BY <1>3, <1>5, <1>6, <1>7, HeadBounds, TruncateType DEF InUrl, Request!Appended
<1>9. PICK r : r = req'
    OBVIOUS
<1>10. r = [req EXCEPT !.url = u]
    BY <1>1, <1>4, <1>8, <1>9
<1>11. IsReq(r) /\ r.url = u /\ r.accnt = req.accnt /\ r.perm = req.perm
    BY <1>2, <1>6, <1>7, <1>10 DEF HeadTypes, IsReq
<1>12. HeadTypes'
    BY <1>1, <1>2, <1>6, <1>9, <1>11 DEF HeadTypes
<1>13. InUrl(u)'
    BY <1>1, <1>3, <1>6, <1>9, <1>11 DEF InUrl
<1> QED
    BY <1>1, <1>6, <1>12, <1>13 DEF HeadInv

\* A piece of the name of a header arrives.
LEMMA OnFieldKeeps ==
    ASSUME HeadInv, NEW n \in 0..Len(rest), Request!OnHeaderField(n)
    PROVE  HeadInv'
<1>1. /\ elem = "field" /\ elem' = elem /\ rest' = SubSeq(rest, n + 1, Len(rest)) /\ begun' = TRUE
      /\ UNCHANGED <<url, headers>> /\ last' = "field"
      /\ req' = [req EXCEPT !.field = Request!Field(Request!Truncate(rest, n), last # "field")]
    BY DEF Request!OnHeaderField, Request!Piece
<1>2. HeadTypes /\ rest \in Seq(Nat)
    BY DEF HeadInv, HeadTypes
<1>3. PICK hs \in Seq(Header), nm \in Names, t \in Seq(Nat) : InField(hs, nm, t)
    BY <1>1 DEF HeadInv
<1>4. PICK p : p = Request!Truncate(rest, n)
    OBVIOUS
<1>5. PICK u : u = t \o p
    OBVIOUS
<1>6. p \in Seq(Nat) /\ rest' \in Seq(Nat) /\ u \in Seq(Nat) /\ u \o rest' = nm
    BY <1>1, <1>2, <1>3, <1>4, <1>5, PieceAndRest DEF InField
<1>7. PICK f : f = Request!Field(p, last # "field")
    OBVIOUS
<1>8. f = Request!Truncate(u, MaxField)
    <2>1. CASE begun
        <3>1. last = "field" /\ req.field = Request!Truncate(t, MaxField)
            BY <1>3, <2>1 DEF InField
        <3>2. f = Request!Appended(Request!Truncate(t, MaxField), p, MaxField)
            BY <1>7, <3>1 DEF Request!Field
        <3> QED
            BY <1>5, <1>6, <3>2, HeadBounds, AppendedTwice
    <2>2. CASE ~begun
        <3>1. last # "field" /\ t = <<>>
            BY <1>3, <2>2 DEF InField
        <3>2. f = Request!Truncate(<<>> \o p, MaxField)
            BY <1>7, <3>1 DEF Request!Field, Request!Appended
        <3> QED
            BY <1>5, <3>1, <3>2
    <2> QED
        BY <2>1, <2>2
<1>9. f \in Seq(Nat) /\ Len(f) =< MaxField
    BY <1>6, <1>8, HeadBounds, TruncateType
<1>10. PICK r : r = req'
    OBVIOUS
<1>11. r = [req EXCEPT !.field = f]
    BY <1>1, <1>4, <1>7, <1>10
<1>12. IsReq(r) /\ r.field = f /\ r.url = req.url /\ r.accnt = req.accnt /\ r.perm = req.perm
    BY <1>2, <1>9, <1>11 DEF HeadTypes, IsReq
<1>13. HeadTypes'
    BY <1>1, <1>2, <1>6, <1>10, <1>12 DEF HeadTypes
<1>14. IsKept(hs, nm, <<>>)'
    BY <1>3, <1>10, <1>12 DEF InField, IsKept
<1>15. InField(hs, nm, u)'
    BY <1>1, <1>3, <1>6, <1>8, <1>10, <1>12, <1>14 DEF InField
<1> QED
    BY <1>1, <1>6, <1>13, <1>15 DEF HeadInv

\* A piece of the value of a header arrives.
LEMMA OnValueKeeps ==
    ASSUME HeadInv, NEW n \in 0..Len(rest), Request!OnHeaderValue(n)
    PROVE  HeadInv'
<1>1. /\ elem = "value" /\ elem' = elem /\ rest' = SubSeq(rest, n + 1, Len(rest)) /\ begun' = TRUE
      /\ UNCHANGED <<url, headers>> /\ last' = "value"
    BY DEF Request!OnHeaderValue, Request!Piece
<1>2. HeadTypes /\ rest \in Seq(Nat)
    BY DEF HeadInv, HeadTypes
<1>3. PICK hs \in Seq(Header), nm \in Names, t \in Seq(Nat) : InValue(hs, nm, t)
    BY <1>1 DEF HeadInv
<1>4. PICK p : p = Request!Truncate(rest, n)
    OBVIOUS
<1>5. PICK u : u = t \o p
    OBVIOUS
<1>6. p \in Seq(Nat) /\ rest' \in Seq(Nat) /\ u \in Seq(Nat) /\ u \o rest' = t \o rest
    BY <1>1, <1>2, <1>4, <1>5, PieceAndRest
<1>7. PICK v : v = Request!Target(nm)
    OBVIOUS
<1>8. v = IF last # "value" THEN Request!Target(req.field) ELSE req.value
    <2>1. CASE begun
        BY <1>3, <1>7, <2>1 DEF InValue
    <2>2. CASE ~begun
        <3>1. last = "field" /\ req.field = Request!Truncate(nm, MaxField)
            BY <1>3, <2>2 DEF InValue
        <3> QED
            BY <1>7, <3>1, TargetOfCut
    <2> QED
        BY <2>1, <2>2
<1>9. PICK a, b : /\ a = IF v = "accnt" THEN Request!Appended(req.accnt, p, MaxValue) ELSE req.accnt
                  /\ b = IF v = "perm" THEN Request!Appended(req.perm, p, MaxValue) ELSE req.perm
    OBVIOUS
<1>10. PICK r : r = req'
    OBVIOUS
<1>11. r = [req EXCEPT !.value = v, !.accnt = a, !.perm = b]
    BY <1>4, <1>8, <1>9, <1>10 DEF Request!OnHeaderValue
<1>12. /\ v \in {"none", "accnt", "perm"}
       /\ (v = "accnt" <=> nm = AccntName) /\ (v = "perm" <=> nm = PermName)
    BY <1>7, HeadBounds DEF Request!Target
<1>13. a = KeptOf(AccntName, hs, nm, u) /\ b = KeptOf(PermName, hs, nm, u)
    BY <1>3, <1>5, <1>6, <1>9, <1>12, KeptMore DEF InValue, IsKept
<1>14. a \in Seq(Nat) /\ Len(a) =< MaxValue /\ b \in Seq(Nat) /\ Len(b) =< MaxValue
    BY <1>6, <1>13, KeptType
<1>15. IsReq(r) /\ r.value = v /\ r.url = req.url /\ r.accnt = a /\ r.perm = b
    BY <1>2, <1>11, <1>12, <1>14 DEF HeadTypes, IsReq
<1>16. HeadTypes'
    BY <1>1, <1>2, <1>6, <1>10, <1>15 DEF HeadTypes
<1>17. IsKept(hs, nm, u)'
    BY <1>10, <1>13, <1>15 DEF IsKept
<1>18. InValue(hs, nm, u)'
    BY <1>1, <1>3, <1>6, <1>7, <1>10, <1>15, <1>17 DEF InValue
<1> QED
    BY <1>1, <1>6, <1>16, <1>18 DEF HeadInv

\* A step of a request keeps the invariant.
LEMMA HeadSteps ==
    ASSUME HeadInv, Request!Next
    PROVE  HeadInv'
<1>1. CASE Request!Request
    BY <1>1, RequestKeeps
<1>2. CASE Request!Name
    BY <1>2, NameKeeps
<1>3. CASE Request!Value
    BY <1>3, ValueKeeps
<1>4. CASE Request!End
    BY <1>4, EndKeeps
<1>5. CASE Request!Callback
    BY <1>5, OnUrlKeeps, OnFieldKeeps, OnValueKeeps DEF Request!Callback
<1> QED
    BY <1>1, <1>2, <1>3, <1>4, <1>5 DEF Request!Next

\* What the invariant says of a request.
LEMMA HeadSays ==
    ASSUME HeadInv
    PROVE  Request!TypeOK /\ Request!HeadersAreMeant /\ Request!IdsAreMeant
<1>1. Request!TypeOK
    BY DEF HeadInv, HeadTypes, IsReq, Request!TypeOK
<1>2. Request!HeadersAreMeant
    BY DEF HeadInv, AtEnd, Request!HeadersAreMeant
<1>3. elem = "end" => req.url = url
    BY DEF HeadInv, AtEnd
<1>4. Request!IdsAreMeant
    BY <1>3 DEF Request!IdsAreMeant
<1> QED
    BY <1>1, <1>2, <1>4

-----------------------------------------------------------------------------
(* What a client says and what it gets.                                      *)

\* What is not written to stays.
LEMMA HeadRests ==
    ASSUME HeadInv, UNCHANGED headVars
    PROVE  HeadInv'
<1>1. UNCHANGED <<url, headers, elem, rest, begun, last, req>>
    BY DEF headVars
<1>2. HeadTypes' <=> HeadTypes
    BY <1>1 DEF HeadTypes
<1>3. AtEnd' <=> AtEnd
    BY <1>1 DEF AtEnd
<1>4. ASSUME NEW t PROVE InUrl(t)' <=> InUrl(t)
    BY <1>1 DEF InUrl
<1>5. ASSUME NEW hs, NEW n, NEW t PROVE InField(hs, n, t)' <=> InField(hs, n, t)
    BY <1>1 DEF InField, IsKept
<1>6. ASSUME NEW hs, NEW n, NEW t PROVE InValue(hs, n, t)' <=> InValue(hs, n, t)
    BY <1>1 DEF InValue, IsKept
<1> QED
    BY <1>1, <1>2, <1>3, <1>4, <1>5, <1>6 DEF HeadInv

LEMMA AnswerRests ==
    ASSUME AnswerInv, UNCHANGED answerVars
    PROVE  AnswerInv'
<1>1. UNCHANGED <<mem, rpos, wpos, pcount, cloff, hcount, request, meant>>
    BY DEF answerVars
<1> QED
    BY <1>1 DEF AnswerInv

\* A step of the whole is one of a request's or leaves it alone.
LEMMA WebStepsHead == HeadInv /\ [Next]_vars => HeadInv'
<1> SUFFICES ASSUME HeadInv, [Next]_vars PROVE HeadInv'
    OBVIOUS
<1>1. CASE RequestNext
    BY <1>1, HeadSteps DEF RequestNext
<1>2. CASE UNCHANGED headVars
    BY <1>2, HeadRests
<1>3. CASE UNCHANGED vars
    BY <1>3, HeadRests DEF vars
<1>4. RequestNext \/ UNCHANGED headVars \/ UNCHANGED vars
    BY DEF Next, SessNext, RequestNext, AnswerNext, BodyNext, PairsNext, AgainNext, ServNext,
           ClientNext, FixNext, DatesNext, DayNext
<1> QED
    BY <1>1, <1>2, <1>3, <1>4

\* A step of the whole is one of the answers' or leaves them alone.
LEMMA WebStepsAnswer == AnswerInv /\ [Next]_vars => AnswerInv'
<1> SUFFICES ASSUME AnswerInv, [Next]_vars PROVE AnswerInv'
    OBVIOUS
<1>1. CASE AnswerNext
    BY <1>1, AnswerSteps DEF AnswerNext
<1>2. CASE UNCHANGED answerVars
    BY <1>2, AnswerRests
<1>3. CASE UNCHANGED vars
    BY <1>3, AnswerRests DEF vars
<1>4. AnswerNext \/ UNCHANGED answerVars \/ UNCHANGED vars
    BY DEF Next, SessNext, RequestNext, AnswerNext, BodyNext, PairsNext, AgainNext, ServNext,
           ClientNext, FixNext, DatesNext, DayNext
<1> QED
    BY <1>1, <1>2, <1>3, <1>4

\* The inductive invariant of what is kept of a request (HttpParser, HttpRequest).
THEOREM HeadInvHolds == Spec => []HeadInv
<1>1. Init => HeadInv
    BY HeadStarts DEF Init
<1> QED
    BY <1>1, WebStepsHead, PTL DEF Spec

\* The inductive invariant of the answers (Buffer, HttpStream).
THEOREM AnswerInvHolds == Spec => []AnswerInv
<1>1. Init => AnswerInv
    BY AnswerStarts DEF Init
<1> QED
    BY <1>1, WebStepsAnswer, PTL DEF Spec

\* Whatever the pieces in which a request arrives and an answer is written and sent, what is
\* kept of the request is what the client said, and what the client gets is whole answers,
\* of the lengths that their headers have, from a memory that is bounded (Parser.hpp,
\* Request.hpp, Stream.cpp, Buffer.hpp).
THEOREM MessagesMeant == Spec => []MessagesAreMeant
<1>1. HeadInv /\ AnswerInv => MessagesAreMeant
    BY HeadSays, AnswersSay DEF MessagesAreMeant
<1> QED
    BY <1>1, HeadInvHolds, AnswerInvHolds, PTL

-----------------------------------------------------------------------------
(* The business day.                                                         *)

\* What is cached for a second is the day of that second.
CacheIsRight ==
    /\ cache \in [{0, 1} -> [first : Nat, second : Int]]
    /\ \A i \in {0, 1} : cache[i].first # 0 => cache[i].second = Day!DayOf(cache[i].first)

DayInv == CacheIsRight /\ (time # -1 => day = Day!DayOf(time))

\* The invariant holds at the start.
LEMMA DayStarts == Day!Init => DayInv
    BY DEF Day!Init, DayInv, CacheIsRight

\* The bounds of the days.
LEMMA DayBounds == LastTime \in Nat /\ SecondsInDay \in Nat \ {0} /\ Offset \in Nat
    BY WebAssumption DEF WebAssumption, Day!BusDayAssumption

\* Asking for a day keeps the invariant, whether the day is cached or not.
LEMMA DaySteps ==
    ASSUME DayInv, NEW t \in 1..LastTime, Day!BusinessDay(t)
    PROVE  DayInv'
<1>1. PICK i : i = t % 2
    OBVIOUS
<1>2. i \in {0, 1} /\ t \in Nat /\ t # 0
    BY <1>1, DayBounds
<1>3. PICK d : d = Day!DayOf(t)
    OBVIOUS
<1>4. d \in Int
    <2>1. PICK s : s = t + Offset
        OBVIOUS
    <2>2. s \in Nat
        BY <1>2, <2>1, DayBounds
    <2>3. s \div SecondsInDay \in Int
        BY <2>2, DayBounds
    <2> QED
        BY <1>3, <2>1, <2>3 DEF Day!DayOf
<1>5. CacheIsRight /\ time' = t
    BY DEF DayInv, Day!BusinessDay
<1>6. CASE Day!Cached(t)
    <2>1. cache' = cache /\ day' = cache[i].second /\ cache[i].first = t
        BY <1>1, <1>6 DEF Day!BusinessDay, Day!Cached
    <2>2. day' = d
        BY <1>2, <1>3, <1>5, <2>1 DEF CacheIsRight
    <2> QED
        BY <1>3, <1>5, <2>1, <2>2 DEF DayInv, CacheIsRight
<1>7. CASE ~Day!Cached(t)
    <2>1. day' = d /\ cache' = [cache EXCEPT ![i] = [first |-> t, second |-> d]]
        BY <1>1, <1>3, <1>7 DEF Day!BusinessDay
    <2>2. PICK c : c = cache'
        OBVIOUS
    <2>3. c \in [{0, 1} -> [first : Nat, second : Int]]
        BY <1>2, <1>4, <1>5, <2>1, <2>2 DEF CacheIsRight
    <2>4. ASSUME NEW j \in {0, 1}, c[j].first # 0
          PROVE  c[j].second = Day!DayOf(c[j].first)
        <3>1. CASE j = i
            BY <1>2, <1>3, <1>5, <2>1, <2>2, <3>1 DEF CacheIsRight
        <3>2. CASE j # i
            <4>1. c[j] = cache[j]
                BY <1>5, <2>1, <2>2, <3>2 DEF CacheIsRight
            <4> QED
                BY <1>5, <2>4, <4>1 DEF CacheIsRight
        <3> QED
            BY <3>1, <3>2
    <2> QED
        BY <1>3, <1>5, <2>1, <2>2, <2>3, <2>4 DEF DayInv, CacheIsRight, Day!DayOf
<1> QED
    BY <1>6, <1>7

\* A step of the whole asks for a day or leaves the cache alone.
LEMMA WebStepsDay == DayInv /\ [Next]_vars => DayInv'
<1> SUFFICES ASSUME DayInv, [Next]_vars PROVE DayInv'
    OBVIOUS
<1>1. CASE DayNext
    BY <1>1, DaySteps DEF DayNext, Day!Next
<1>2. CASE UNCHANGED dayVars
    BY <1>2 DEF DayInv, CacheIsRight, dayVars, Day!DayOf
<1>3. CASE UNCHANGED vars
    BY <1>3 DEF DayInv, CacheIsRight, vars, dayVars, Day!DayOf
<1>4. DayNext \/ UNCHANGED dayVars \/ UNCHANGED vars
    BY DEF Next, SessNext, RequestNext, AnswerNext, BodyNext, PairsNext, AgainNext, ServNext,
           ClientNext, FixNext, DatesNext, DayNext
<1> QED
    BY <1>1, <1>2, <1>3, <1>4

\* The business day that is returned is that of the second asked for, whatever was asked for
\* before and in whatever order, for every time zone and length of a day (BusinessDay).
THEOREM DaysAreOfTheirTimes == Spec => [](part = "Day" => Day!DayIsOfTime)
<1>1. Init => DayInv
    BY DayStarts DEF Init
<1>2. DayInv => (part = "Day" => Day!DayIsOfTime)
    BY DEF DayInv, Day!DayIsOfTime
<1> QED
    BY <1>1, <1>2, WebStepsDay, PTL DEF Spec
=============================================================================
