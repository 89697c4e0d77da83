--------------------------------- MODULE Fix ----------------------------------
(***************************************************************************)
(* FIX messages (src/src/swirly/fix): FixStream writes them into a buffer, *)
(* a connection carries the bytes in fragments, BasicFixParser cuts them   *)
(* into messages again and FixTokeniser into fields.                       *)
(*                                                                         *)
(* A byte is a number: the digits, then the equals sign, SOH and letters.  *)
(* What has a fixed length and no other meaning is one byte: the begin     *)
(* string with the tag of the body length, and the field of the check sum. *)
(* Digits count with their value in the sum, to the base Base.             *)
(***************************************************************************)
EXTENDS Integers, Sequences, SequencesExt, Folds, TLC

CONSTANTS
    Base,       \* of the numbers, 10 in the code
    LenWidth,   \* place-holder for the body length, 4 digits in the code
    Modulus,    \* of the check sum, 256 in the code
    Fields,     \* <<tag, value>>, the value a sequence of bytes
    MaxFields, MaxMsgs  \* bounds

Equals == Base
Soh == Base + 1
Begin == Base + 2
Digit == 0..(Base - 1)

FixAssumption ==
    /\ Base > 1 /\ LenWidth > 0 /\ Modulus > 1
    /\ \A f \in Fields : f[1] \in Nat /\ \A i \in 1..Len(f[2]) : f[2][i] \in Nat \ {Soh}

VARIABLES
    cur, sum, bloff,        \* the message being written: FixBuf and bloff_
    written, fields,        \* fields of the committed messages, and of cur (not in the code)
    wire, arrived,          \* bytes committed, and how many of them have arrived
    read, offset, bodyLen,  \* bytes the parser consumed; offset_, body_len_
    got, broken             \* messages delivered; whether an exception was thrown

writer == <<cur, sum, bloff, written, fields, wire>>
reader == <<read, offset, bodyLen, got, broken>>
vars == <<writer, arrived, reader>>

SumOf(bytes) == FoldLeft(+, 0, bytes)

Init ==
    /\ cur = <<>> /\ sum = 0 /\ bloff = 0 /\ written = <<>> /\ fields = <<>>
    /\ wire = <<>> /\ arrived = 0
    /\ read = 0 /\ offset = 0 /\ bodyLen = 0 /\ got = <<>> /\ broken = FALSE

-----------------------------------------------------------------------------
(* Writing *)

\* The digits of a number, without leading zeros.
Digits[n \in Nat] == IF n < Base THEN <<n>> ELSE Digits[n \div Base] \o <<n % Base>>

\* operator<< of a field.
Field(f) == Digits[f[1]] \o <<Equals>> \o f[2] \o <<Soh>>

\* Bytes go behind what is prepared already, and into the sum.
Put(bytes) == cur' = cur \o bytes /\ sum' = sum + SumOf(bytes)

Reset ==
    /\ bloff = 0 /\ Len(written) < MaxMsgs
    /\ LET head == <<Begin>> \o [i \in 1..LenWidth |-> 0] \o <<Soh>>
       IN /\ cur' = head /\ sum' = SumOf(head)
          /\ bloff' = Len(head)
    /\ fields' = <<>>
    /\ UNCHANGED <<written, wire, arrived, reader>>

PutField(f) ==
    /\ bloff > 0 /\ Len(fields) < MaxFields
    /\ Put(Field(f))
    /\ fields' = Append(fields, f)
    /\ UNCHANGED <<bloff, written, wire, arrived, reader>>

\* set_body_length: the digits replace those of the place-holder, from the right.
SetBodyLength(bytes, pos, len) ==
    LET d == Digits[len]
    IN [bytes |-> [i \in DOMAIN bytes |->
            IF i \in (pos - Len(d) + 1)..pos THEN d[i - pos + Len(d)] ELSE bytes[i]],
        sum |-> SumOf(d)]

Commit ==
    /\ bloff > 0
    /\ LET s == SetBodyLength(cur, bloff - 1, Len(cur) - bloff)
       IN wire' = wire \o Append(s.bytes, (sum + s.sum) % Modulus)
    /\ written' = Append(written, fields)
    /\ cur' = <<>> /\ sum' = 0 /\ bloff' = 0 /\ fields' = <<>>
    /\ UNCHANGED <<arrived, reader>>

-----------------------------------------------------------------------------
(* Reading *)

\* The length of the digits at the start of some bytes, and the number they make.
NumDigits(bytes) ==
    LET ends == {i \in 0..Len(bytes) : \A j \in 1..i : bytes[j] \in Digit}
    IN CHOOSE n \in ends : \A m \in ends : m =< n
Number(digits) == FoldLeft(LAMBDA n, d : n * Base + d, 0, digits)

\* parse_body_len: nothing unless the length and the byte after it have come.
ParseBodyLen(buf) ==
    LET rest == Tail(buf)
        n == NumDigits(rest)
    IN IF Len(buf) =< 1 THEN [ok |-> FALSE, bad |-> FALSE]
       ELSE IF n = Len(rest) THEN [ok |-> FALSE, bad |-> FALSE]
       ELSE IF rest[n + 1] # Soh THEN [ok |-> FALSE, bad |-> TRUE]
       ELSE [ok |-> TRUE, bad |-> FALSE, offset |-> n + 2, len |-> Number(SubSeq(rest, 1, n))]

\* The fields that FixTokeniser finds in a body.
Tokens(body) ==
    LET from[i \in 1..(Len(body) + 1)] ==
            IF i > Len(body) THEN <<>>
            ELSE LET value == i + NumDigits(SubSeq(body, i, Len(body))) + 1
                     end == SelectInSubSeq(body, value, Len(body), LAMBDA b : b = Soh)
                 IN <<<<Number(SubSeq(body, i, value - 2)), SubSeq(body, value, end - 1)>>>>
                        \o from[end + 1]
    IN from[1]

\* find_tag: the value of the first field with the tag, found as a string.
FindTag(body, tag) ==
    LET key == Append(Digits[tag], Equals)
        starts == {i \in 1..Len(body) : /\ i = 1 \/ body[i - 1] = Soh
                                        /\ IsPrefix(key, SubSeq(body, i, Len(body)))}
        at == CHOOSE i \in starts : \A j \in starts : i =< j
        end == SelectInSubSeq(body, at, Len(body), LAMBDA b : b = Soh)
    IN IF starts = {} THEN <<FALSE>> ELSE <<TRUE, SubSeq(body, at + Len(key), end - 1)>>

\* Faulty: one message a call.
MessagesOne(buf, s) ==
    LET len == s.offset + s.bodyLen + 1
    IN IF Len(buf) < len THEN s
       ELSE [s EXCEPT !.read = @ + len, !.offset = 0, !.bodyLen = 0,
                      !.got = Append(@, SubSeq(buf, s.offset + 1, s.offset + s.bodyLen))]

\* What the loop of parse does from each position at which a message may start.
Onwards(buf) ==
    LET from[p \in 0..Len(buf)] ==
            LET head == ParseBodyLen(SubSeq(buf, p + 1, Len(buf)))
                end == p + head.offset + head.len + 1
                stop == [read |-> p, offset |-> 0, bodyLen |-> 0, got |-> <<>>, broken |-> head.bad]
            IN IF ~head.ok THEN stop
               ELSE IF Len(buf) < end THEN [stop EXCEPT !.offset = head.offset, !.bodyLen = head.len]
               ELSE [from[end] EXCEPT !.got = <<SubSeq(buf, p + head.offset + 1, end - 1)>> \o @]
    IN from

\* The loop of parse, with the members, over the bytes that have not been consumed.
Messages(buf, s) ==
    LET len == s.offset + s.bodyLen + 1
    IN IF Len(buf) < len THEN s
       ELSE [Onwards(buf)[len] EXCEPT
                !.read = s.read + @,
                !.got = Append(s.got, SubSeq(buf, s.offset + 1, len - 1)) \o @]

\* parse.
Parse(buf, s) ==
    LET head == ParseBodyLen(buf)
    IN IF s.offset # 0 THEN Messages(buf, s)
       ELSE IF head.bad THEN [s EXCEPT !.broken = TRUE]
       ELSE IF ~head.ok THEN s
       ELSE Messages(buf, [s EXCEPT !.offset = head.offset, !.bodyLen = head.len])

\* A fragment arrives and is parsed with what was left.
Receive(n) ==
    /\ ~broken /\ arrived + n =< Len(wire)
    /\ arrived' = arrived + n
    /\ LET s == Parse(SubSeq(wire, read + 1, arrived + n),
                      [read |-> read, offset |-> offset, bodyLen |-> bodyLen, got |-> got,
                       broken |-> FALSE])
       IN /\ read' = s.read /\ offset' = s.offset /\ bodyLen' = s.bodyLen
          /\ got' = s.got /\ broken' = s.broken
    /\ UNCHANGED writer

Next ==
    \/ Reset \/ Commit
    \/ \E f \in Fields : PutField(f)
    \/ \E n \in 1..(Len(wire) - arrived) : Receive(n)

Spec == Init /\ [][Next]_vars

-----------------------------------------------------------------------------

\* The type invariant: the parser is at the start of a message, of which the
\* offset points behind the body length.
TypeOK ==
    /\ read =< arrived /\ arrived =< Len(wire)
    /\ read + offset =< arrived
    /\ offset # 0 => wire[read + 1] = Begin /\ wire[read + offset] = Soh
    /\ bloff \in {0, LenWidth + 2}
    /\ broken \in BOOLEAN

\* Whatever the fragments, the messages that are delivered are those that were
\* written, field by field, in order and each once; and all of them, once all
\* bytes have arrived.
ReadsWhatWasWritten ==
    /\ ~broken
    /\ Len(got) =< Len(written)
    /\ \A i \in 1..Len(got) : Tokens(got[i]) = written[i]
    /\ arrived = Len(wire) => Len(got) = Len(written)

\* The sum that was kept while the message was written is that of its bytes,
\* although its head was written first and its length put in afterwards.
SumIsOfBytes ==
    \A i \in 1..Len(wire) : (i = Len(wire) \/ wire[i + 1] = Begin) =>
        LET first == CHOOSE j \in 1..i : wire[j] = Begin /\ \A k \in (j + 1)..i : wire[k] # Begin
        IN wire[i] = SumOf(SubSeq(wire, first, i - 1)) % Modulus

\* find agrees with the tokeniser about the first field of a tag.
FindFindsFirst ==
    \A m \in ToSet(got), t \in {f[1] : f \in Fields} :
        LET fs == SelectSeq(Tokens(m), LAMBDA f : f[1] = t)
        IN FindTag(m, t) = IF fs = <<>> THEN <<FALSE>> ELSE <<TRUE, fs[1][2]>>
=============================================================================
