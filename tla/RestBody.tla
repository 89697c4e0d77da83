------------------------------- MODULE RestBody -------------------------------
(***************************************************************************)
(* The parser of request bodies (src/src/swirly/web/RestBody.rl, and       *)
(* RestBody.cpp that Ragel generates from it): a state machine that is fed *)
(* a JSON object in pieces, as they come off the network, and writes into  *)
(* its fields while it reads.                                              *)
(*                                                                         *)
(* A token stands for what the machine reads without an action: a key with *)
(* its quotes, a word, and otherwise one character.  "a" is any character  *)
(* of a string.                                                            *)
(***************************************************************************)
EXTENDS Integers, Sequences, FiniteSets, SequencesExt

CONSTANTS
    Strings,    \* keys whose value is a string,
    Numbers,    \* a number,
    NonNegatives,  \* a number that may not be negative: "state",
    Sides,      \* "Buy" or "Sell", never null: "side",
    LiqInds,    \* "Maker" or "Taker": "liq_ind"
    MaxSymbol,  \* size of the buffer of a string
    Modulus, Narrow,                    \* of 64 and of 32 bits: digits are not counted
    MaxBodies, MaxPairs, MaxDigits, MaxBlanks   \* bounds on the texts

Keys == Strings \union Numbers \union NonNegatives \union Sides \union LiqInds

RestBodyAssumption ==
    /\ {MaxSymbol, MaxBodies, MaxPairs, MaxDigits, MaxBlanks} \subseteq Nat
    /\ Modulus \in Nat \ {0} /\ Modulus % 2 = 0 /\ Narrow \in 1..Modulus
    /\ \A A, B \in {Strings, Numbers, NonNegatives, Sides, LiqInds} : A # B => A \cap B = {}
    /\ Keys \cap {"null", "Buy", "Sell", "Maker", "Taker"} = {}

VARIABLES
    saved,              \* cs_: [at: where, key: of the value that is read]
    calling, cs,        \* within parse: its copy of cs_
    ret,                \* what the last call of parse said
    num,                \* num_: sign, digits
    fields, values,     \* fields_, and the members they tell of
    bodies              \* what was fed since all was cleared, body by body

vars == <<saved, calling, cs, ret, num, fields, values, bodies>>

Words(k) == CASE k \in Sides -> {"Buy", "Sell"}
              [] k \in LiqInds -> {"Maker", "Taker"}
              [] OTHER -> {}
IsNumber(k) == k \in Numbers \union NonNegatives
Digits == {"0", "7"}
Digit(t) == IF t = "7" THEN 7 ELSE 0
Signed(n) == ((n + Modulus \div 2) % Modulus) - Modulus \div 2
Tokens == Keys \union UNION {Words(k) : k \in Keys} \union Digits
          \union {"null", "{", "}", ":", ",", " ", "\"", "-", "+"}

Zero(k) == CASE k \in Strings -> <<>>
             [] k \in Numbers \union NonNegatives -> 0
             [] OTHER -> "None"
Start == [at |-> "start", key |-> "none"]

Init ==
    /\ saved = Start /\ cs = Start /\ calling = FALSE /\ ret = "more"
    /\ num = [sign |-> 1, digits |-> 0]
    /\ fields = {} /\ values = [k \in Keys |-> Zero(k)]
    /\ bodies = << <<>> >>

-----------------------------------------------------------------------------
(* The machine *)

\* Where a value has been read: what it says runs with the token after it.
Ended == {"null", "string", "digit", "Buy", "Sell", "Maker", "Taker"}
After == [t \in {" ", ",", "}"} |->
    CASE t = " " -> "next" [] t = "," -> "comma" [] t = "}" -> "final"]

\* The transition tables: the states that a token leads to, and their actions.
Target(t) ==
    LET at == cs.at
    IN CASE at = "char" /\ t = "\"" -> "string"
         [] at = "char" /\ t = "\\" -> "escape"
         [] at = "escape" \/ (at = "char" /\ t \notin {"\"", "\\"}) -> "char"
         [] at \in {"start", "open", "name", "value", "next", "comma", "final"} /\ t = " " -> at
         [] at = "start" /\ t = "{" -> "open"
         [] at \in {"open", "comma"} /\ t \in Keys -> "name"
         [] at = "name" /\ t = ":" -> "value"
         [] at = "value" /\ cs.key \in Strings /\ t = "\"" -> "char"
         [] at = "value" /\ IsNumber(cs.key) /\ t \in {"-", "+"} -> "sign"
         [] at = "value" /\ IsNumber(cs.key) /\ t \in Digits -> "digit"
         [] at \in {"sign", "digit"} /\ t \in Digits -> "digit"
         [] at = "value" /\ (t \in Words(cs.key) \/ (t = "null" /\ cs.key \notin Sides)) -> t
         [] at \in Ended \union {"next"} /\ t \in DOMAIN After -> After[t]
         [] at = "open" /\ t = "}" -> "final"
         [] OTHER -> "error"

ActionOf(t) ==
    LET to == Target(t)
    IN CASE cs.at = "value" /\ to = "char" -> "begin"
         [] cs.at # "value" /\ to = "char" -> "add"
         [] to \in {"sign", "digit"} -> "digit"
         [] cs.at \in Ended /\ to # "digit" /\ to # "error" -> "end"
         [] OTHER -> "none"

Goto(t) == cs' = [at |-> Target(t), key |-> IF Target(t) = "name" /\ t \in Keys THEN t ELSE cs.key]
Refuse == cs' = [cs EXCEPT !.at = "error"]

\* beginSymbol and its like, with beginStr: the value is written in place.
BeginString(t) ==
    /\ ActionOf(t) = "begin"
    /\ Goto(t)
    /\ values' = [values EXCEPT ![cs.key] = <<>>]
    /\ UNCHANGED <<num, fields>>

\* addChar, for escaped characters, too.
AddChar(t) ==
    /\ ActionOf(t) = "add"
    /\ IF Len(values[cs.key]) < MaxSymbol
       THEN Goto(t) /\ values' = [values EXCEPT ![cs.key] = Append(@, t)]
       ELSE Refuse /\ UNCHANGED values
    /\ UNCHANGED <<num, fields>>

\* beginNum with the first character, then negate or addDigit.
AddDigit(t) ==
    /\ ActionOf(t) = "digit"
    /\ Goto(t)
    /\ LET n == IF cs.at = "value" THEN [sign |-> 1, digits |-> 0] ELSE num
       IN num' = CASE t = "-" -> [n EXCEPT !.sign = -1]
                   [] t = "+" -> n
                   [] OTHER -> [n EXCEPT !.digits = (@ * 10 + Digit(t)) % Modulus]
    /\ UNCHANGED <<fields, values>>

\* num(), and what it is made of.
Number(k) == IF k \in NonNegatives THEN (num.sign * num.digits) % Narrow
             ELSE Signed(num.sign * num.digits)

Read(k) == CASE cs.at = "null" -> Zero(k)
             [] cs.at = "string" -> values[k]
             [] cs.at = "digit" -> Number(k)
             [] OTHER -> cs.at

\* nullSymbol, endSymbol, buySide and the like.
EndValue(t) ==
    /\ ActionOf(t) = "end"
    /\ IF cs.key \in NonNegatives /\ cs.at = "digit" /\ num.sign < 0
       THEN Refuse /\ UNCHANGED <<fields, values>>
       ELSE /\ Goto(t)
            /\ fields' = IF cs.at = "null" THEN fields \ {cs.key} ELSE fields \union {cs.key}
            /\ values' = [values EXCEPT ![cs.key] =
                   Read(cs.key)]
    /\ UNCHANGED num

\* The transitions without an action.
Move(t) ==
    /\ ActionOf(t) = "none"
    /\ Goto(t)
    /\ UNCHANGED <<num, fields, values>>

-----------------------------------------------------------------------------
(* Calls *)

Body == Last(bodies)
Count(t) == Len(SelectSeq(Body, LAMBDA u : u = t))

\* What may come next: in a string there are characters only.
Input ==
    CASE cs.at = "char" -> {"a", "\"", "\\"}
      [] cs.at = "escape" -> {"a", "\""}
      [] OTHER -> {t \in Tokens :
            /\ t = "," => Count(t) < MaxPairs - 1
            /\ t = " " => Count(t) < MaxBlanks
            /\ t \in Digits => \/ Len(Body) < MaxDigits
                               \/ \E i \in Len(Body) - MaxDigits + 1..Len(Body) : Body[i] \notin Digits}

Begin ==
    /\ ~calling
    /\ calling' = TRUE /\ cs' = saved
    /\ UNCHANGED <<saved, ret, num, fields, values, bodies>>

Char(t) ==
    /\ calling /\ cs.at # "error"
    /\ BeginString(t) \/ AddChar(t) \/ AddDigit(t) \/ EndValue(t) \/ Move(t)
    /\ bodies' = Front(bodies) \o <<Append(Body, t)>>
    /\ UNCHANGED <<saved, calling, ret>>

\* Faulty: where the piece ended is forgotten unless the body is complete.
EndLost ==
    /\ calling
    /\ calling' = FALSE
    /\ saved' = IF cs.at = "final" THEN cs ELSE saved
    /\ ret' = CASE cs.at = "error" -> "bad" [] cs.at = "final" -> "done" [] OTHER -> "more"
    /\ UNCHANGED <<cs, num, fields, values, bodies>>

\* The piece is used up, or nothing can follow.
End ==
    /\ calling
    /\ calling' = FALSE /\ saved' = cs
    /\ ret' = CASE cs.at = "error" -> "bad" [] cs.at = "final" -> "done" [] OTHER -> "more"
    /\ UNCHANGED <<cs, num, fields, values, bodies>>

\* For a new request all is cleared; what is not is added to.
Reset(clear) ==
    /\ ~calling
    /\ saved' = Start /\ ret' = "more"
    /\ \/ /\ clear
          /\ fields' = {} /\ values' = [k \in Keys |-> Zero(k)]
          /\ bodies' = << <<>> >>
       \/ /\ ~clear /\ ret = "done" /\ Len(bodies) < MaxBodies
          /\ bodies' = Append(bodies, <<>>)
          /\ UNCHANGED <<fields, values>>
    /\ UNCHANGED <<calling, cs, num>>

Next == Begin \/ (\E t \in Input : Char(t)) \/ End \/ (\E clear \in BOOLEAN : Reset(clear))
Spec == Init /\ [][Next]_vars

-----------------------------------------------------------------------------
(* What a body means: all texts, up to blanks, with their pairs *)

Characters == {[text |-> <<"a">>, is |-> "a"], [text |-> <<"\\", "a">>, is |-> "a"],
               [text |-> <<"\\", "\"">>, is |-> "\""]}
StringTexts ==
    {[text |-> <<"\"">> \o FlattenSeq([i \in DOMAIN s |-> s[i].text]) \o <<"\"">>,
      is |-> [i \in DOMAIN s |-> s[i].is]] : s \in SeqOf(Characters, MaxSymbol)}
NumberTexts ==
    {[text |-> IF sign = "" THEN s ELSE <<sign>> \o s,
      is |-> (IF sign = "-" THEN -1 ELSE 1) * FoldLeft(LAMBDA n, t : 10 * n + Digit(t), 0, s)] :
        sign \in {"", "-", "+"}, s \in SeqOf(Digits, MaxDigits) \ {<<>>}}
NaturalTexts == {v \in NumberTexts : v.text[1] # "-"}
Texts(k) == CASE k \in Strings -> StringTexts
              [] k \in Numbers -> NumberTexts
              [] k \in NonNegatives -> NaturalTexts
              [] OTHER -> {[text |-> <<w>>, is |-> w] : w \in Words(k)}

Pairs == UNION {{[key |-> k, null |-> FALSE, text |-> <<k, ":">> \o v.text, is |-> v.is] : v \in Texts(k)}
                : k \in Keys}
         \union {[key |-> k, null |-> TRUE, text |-> <<k, ":", "null">>, is |-> Zero(k)] :
                 k \in Keys \ Sides}

Render(ps) ==
    <<"{">> \o FlattenSeq([i \in DOMAIN ps |-> (IF i = 1 THEN <<>> ELSE <<",">>) \o ps[i].text])
    \o <<"}">>
Rendered == {[text |-> Render(ps), pairs |-> ps] : ps \in SeqOf(Pairs, MaxPairs)}

BlankInNumber(b) ==
    \E i \in DOMAIN b, j \in DOMAIN b :
        /\ i < j /\ \A n \in i + 1..j : b[n] = " " \/ (n = j /\ n > i + 1 /\ b[n] \in Digits)
        /\ b[i] \in {"-", "+"} \/ (b[i] \in Digits /\ b[j] # " ")
Strip(b) == SelectSeq(b, LAMBDA t : t # " ")
Fits(k, n) == CASE k \in Numbers -> n = Signed(n)
                [] k \in NonNegatives -> n = n % Narrow
                [] OTHER -> TRUE

\* What pairs say of a key: the last one counts.
Says(ps, k) ==
    LET at == {i \in DOMAIN ps : ps[i].key = k}
    IN IF at = {} THEN k \notin fields /\ values[k] = Zero(k)
       ELSE LET p == ps[CHOOSE i \in at : \A j \in at : j =< i]
            IN (k \in fields <=> ~p.null) /\ (Fits(k, p.is) => values[k] = p.is)

-----------------------------------------------------------------------------

\* The type invariant.
TypeOK ==
    /\ calling \in BOOLEAN /\ ret \in {"more", "done", "bad"}
    /\ num.sign \in {-1, 1} /\ num.digits \in 0..Modulus - 1
    /\ fields \subseteq Keys
    /\ \A k \in Strings : Len(values[k]) =< MaxSymbol
    /\ saved.at \in {"sign", "digit"} => IsNumber(saved.key)

\* However a body was cut into pieces, parse says that it is complete only if it
\* is, and then the fields are those of the last pair of each key, in this body
\* and in those that it adds to.  A number too large for its field is taken for
\* another.
DoneIsMeant ==
    ret = "done" /\ ~calling =>
        \E rs \in [DOMAIN bodies -> Rendered] :
            /\ \A i \in DOMAIN bodies : rs[i].text = Strip(bodies[i])
            /\ \A k \in Keys : Says(FlattenSeq([i \in DOMAIN bodies |-> rs[i].pairs]), k)

\* A body is refused only if nothing that could follow would make it good.
OnlyBadIsRefused ==
    ret = "bad" /\ ~calling =>
        BlankInNumber(Body) \/ ~\E r \in Rendered : IsPrefix(Strip(Body), r.text)

\* What is complete is known to be so when its last piece has been read.
WholeIsDone ==
    ~calling /\ Strip(Body) \in {r.text : r \in Rendered} => ret = "done"
===============================================================================
