-------------------------------- MODULE WebMC ---------------------------------
(***************************************************************************)
(* Between the network and the engine: small instances of the HTTP server, *)
(* of what it parses and writes, of the client, and of the conversions     *)
(* that they use.                                                          *)
(*                                                                         *)
(* As in ProgressMC the parts share no variable, one of them runs and the  *)
(* others stay as they start.                                              *)
(***************************************************************************)
EXTENDS Integers, Sequences

CONSTANTS
    MaxRequests,            \* of Sess
    Urls, Names, Values, AccntName, PermName,
    MaxUrl, MaxField, MaxValue, MaxHeaders, \* of Request
    ShrinkThreshold, Chunks, MaxBody, MaxWaiting,   \* of Answer
    Paths, Bodies, MaxParts,\* of Serv
    MaxExecs, MaxConns, MaxAsks, MaxFills, MaxFaults,   \* of Client
    LastTime, SecondsInDay, Offset  \* of Day

VARIABLES
    part,   \* the one that runs
    requests, midway, wire, answers, sess, events, input, parser, keep, interest, timer,
    handled, buf,
    url, headers, elem, rest, begun, last, req,
    mem, rpos, wpos, pcount, cloff, hcount, request, meant,
    saved, calling, cs, ret, num, fields, values, bodies,   \* of Body
    psaved, pcalling, pcs, pret, pnum, pfields, pvalues, pbodies,   \* of Pairs and Again
    asked, sent, parts, ids, matchPath, matchMethod, outcome,
    orders, nexecs, net, calls, errors, instrs, rows, execs, asks, fills, faults,
    cur, sum, bloff, written, cfields, bytes, arrived, read, offset, bodyLen, got, broken,
    year, mon, mday,
    cache, time, day

sessVars == <<requests, midway, wire, answers, sess, events, input, parser, keep, interest,
              timer, handled, buf>>
headVars == <<url, headers, elem, rest, begun, last, req>>
answerVars == <<mem, rpos, wpos, pcount, cloff, hcount, request, meant>>
bodyVars == <<saved, calling, cs, ret, num, fields, values, bodies>>
pairsVars == <<psaved, pcalling, pcs, pret, pnum, pfields, pvalues, pbodies>>
servVars == <<asked, sent, parts, ids, matchPath, matchMethod, outcome>>
clientVars == <<orders, nexecs, net, calls, errors, instrs, rows, execs, asks, fills, faults>>
fixVars == <<cur, sum, bloff, written, cfields, bytes, arrived, read, offset, bodyLen, got, broken>>
datesVars == <<year, mon, mday>>
dayVars == <<cache, time, day>>
vars == <<part, sessVars, headVars, answerVars, bodyVars, pairsVars, servVars, clientVars,
          fixVars, datesVars, dayVars>>

\* A client that waits for its answer before it asks for anything that ends the
\* connection; ProgressMC has one that does not.
Sess == INSTANCE HttpSess WITH
    Patient <- TRUE, sent <- requests, got <- answers

\* Names of which one is the beginning of another and one is longer than its
\* buffer, values that fill theirs, and lists of ids.
AccntHeader == <<1, 1>>
PermHeader == <<1, 2>>
SmallNames == {AccntHeader, PermHeader, <<1>>, <<1, 1, 1>>, <<1, 2, 1, 1>>}
SmallValues == {<<>>, <<3>>, <<3, 4>>}
SmallUrls == {<<1>>, <<1, 2>>, <<2, 0, 1, 2>>}

Request == INSTANCE HttpHead

Answer == INSTANCE HttpAnswer

\* A body with a pair of any kind, one with two pairs, and one after the other.
Body == INSTANCE RestBody WITH
    Strings <- {"symbol"}, Numbers <- {"lots"}, NonNegatives <- {"state"}, Sides <- {"side"},
    LiqInds <- {"liq_ind"}, MaxSymbol <- 1, Modulus <- 128, Narrow <- 64,
    MaxBodies <- 1, MaxPairs <- 1, MaxDigits <- 2, MaxBlanks <- 1

Pairs == INSTANCE RestBody WITH
    Strings <- {"symbol"}, Numbers <- {}, NonNegatives <- {}, Sides <- {}, LiqInds <- {"liq_ind"},
    MaxSymbol <- 1, Modulus <- 128, Narrow <- 64,
    MaxBodies <- 1, MaxPairs <- 2, MaxDigits <- 1, MaxBlanks <- 0,
    saved <- psaved, calling <- pcalling, cs <- pcs, ret <- pret, num <- pnum,
    fields <- pfields, values <- pvalues, bodies <- pbodies

Again == INSTANCE RestBody WITH
    Strings <- {"symbol"}, Numbers <- {}, NonNegatives <- {}, Sides <- {}, LiqInds <- {"liq_ind"},
    MaxSymbol <- 1, Modulus <- 128, Narrow <- 64,
    MaxBodies <- 2, MaxPairs <- 1, MaxDigits <- 1, MaxBlanks <- 0,
    saved <- psaved, calling <- pcalling, cs <- pcs, ret <- pret, num <- pnum,
    fields <- pfields, values <- pvalues, bodies <- pbodies

\* Each entity with the tokens that follow it, some of them one too many.
MarketPaths == {<<>>, <<"sym">>, <<"sym", "date">>, <<"sym", "date", "id">>}
OrderPaths == MarketPaths \union
    {<<"sym", "date", x>> : x \in {"ids", "", "x"}} \union {<<"sym", "date", "id", "x">>}

SmallPaths ==
    {<<>>, <<"api">>, <<"x">>, <<"refdata">>, <<"api", "x">>}
    \union {<<"api", "refdata">> \o p : p \in {<<>>, <<"list">>, <<"list", "x">>, <<"order">>,
                                               <<"asset">>, <<"instr", "sym">>, <<"asset", "sym", "x">>}}
    \union {<<"api", "market">> \o p : p \in MarketPaths}
    \union {<<"api", "sess">> \o p : p \in {<<>>, <<"list">>, <<"x">>, <<"exec">>, <<"exec", "x">>}}
    \union {<<"api", "sess", "market">> \o p : p \in MarketPaths}
    \union {<<"api", "sess", e>> \o p : e \in {"order", "trade"}, p \in OrderPaths}
    \union {<<"api", "sess", "posn">> \o p : p \in MarketPaths}

SmallBodies ==
    {{}, {"instr", "settl_date"}, {"settl_date"}, {"state"}, {"lots"}, {"side", "lots", "ticks"},
     {"accnt", "side", "lots"}}

Serv == INSTANCE RestServ WITH req <- asked, last <- outcome

Client == INSTANCE UiClient WITH MaxRequests <- MaxConns, Hasty <- FALSE, pending <- calls

\* Numbers to the base 3, and values that look like the start of another field,
\* that are empty or that hold a digit only.
Fix == INSTANCE Fix WITH
    Base <- 3, LenWidth <- 3, Modulus <- 4, MaxFields <- 2, MaxMsgs <- 2,
    Fields <- {<<1, <<>>>>, <<4, <<1>>>>, <<1, <<1, 3>>>>},
    fields <- cfields, wire <- bytes

Dates == INSTANCE Dates WITH FirstYear <- 1970, LastYear <- 2105, Instrs <- {0, 1, 171}

Day == INSTANCE BusDay WITH
    FirstTime <- 1, asked <- time, ret <- day

\* What the modules assume of their constants; the urls fit, HttpHeadMC has longer ones.
ASSUME WebAssumption ==
    /\ \A u \in Urls : Len(u) =< MaxUrl
    /\ Sess!HttpSessAssumption /\ Request!HttpHeadAssumption /\ Answer!HttpAnswerAssumption
    /\ Body!RestBodyAssumption /\ Pairs!RestBodyAssumption /\ Again!RestBodyAssumption
    /\ Serv!RestServAssumption
    /\ Client!UiClientAssumption /\ Fix!FixAssumption /\ Dates!DatesAssumption
    /\ Day!BusDayAssumption

Init ==
    /\ part \in {"Sess", "Request", "Answer", "Body", "Pairs", "Again", "Serv", "Client",
                "Fix", "Dates", "Day"}
    /\ Sess!Init /\ Request!Init /\ Answer!Init /\ Body!Init /\ Pairs!Init /\ Serv!Init
    /\ Client!Init /\ Fix!Init /\ Day!Init
    /\ Dates!Init /\ (part # "Dates" => year = 1970)

SessNext ==
    /\ part = "Sess" /\ Sess!Next
    /\ UNCHANGED <<part, headVars, answerVars, bodyVars, pairsVars, servVars, clientVars, fixVars,
                   datesVars, dayVars>>
RequestNext ==
    /\ part = "Request" /\ Request!Next
    /\ UNCHANGED <<part, sessVars, answerVars, bodyVars, pairsVars, servVars, clientVars, fixVars,
                   datesVars, dayVars>>
AnswerNext ==
    /\ part = "Answer" /\ Answer!Next
    /\ UNCHANGED <<part, sessVars, headVars, bodyVars, pairsVars, servVars, clientVars, fixVars,
                   datesVars, dayVars>>
BodyNext ==
    /\ part = "Body" /\ Body!Next
    /\ UNCHANGED <<part, sessVars, headVars, answerVars, pairsVars, servVars, clientVars, fixVars,
                   datesVars, dayVars>>
PairsNext ==
    /\ part = "Pairs" /\ Pairs!Next
    /\ UNCHANGED <<part, sessVars, headVars, answerVars, bodyVars, servVars, clientVars, fixVars,
                   datesVars, dayVars>>
AgainNext ==
    /\ part = "Again" /\ Again!Next
    /\ UNCHANGED <<part, sessVars, headVars, answerVars, bodyVars, servVars, clientVars, fixVars,
                   datesVars, dayVars>>
ServNext ==
    /\ part = "Serv" /\ Serv!Next
    /\ UNCHANGED <<part, sessVars, headVars, answerVars, bodyVars, pairsVars, clientVars, fixVars,
                   datesVars, dayVars>>
ClientNext ==
    /\ part = "Client" /\ Client!Next
    /\ UNCHANGED <<part, sessVars, headVars, answerVars, bodyVars, pairsVars, servVars, fixVars,
                   datesVars, dayVars>>
FixNext ==
    /\ part = "Fix" /\ Fix!Next
    /\ UNCHANGED <<part, sessVars, headVars, answerVars, bodyVars, pairsVars, servVars, clientVars,
                   datesVars, dayVars>>
DatesNext ==
    /\ part = "Dates" /\ Dates!NextDay
    /\ UNCHANGED <<part, sessVars, headVars, answerVars, bodyVars, pairsVars, servVars, clientVars,
                   fixVars, dayVars>>
DayNext ==
    /\ part = "Day" /\ Day!Next
    /\ UNCHANGED <<part, sessVars, headVars, answerVars, bodyVars, pairsVars, servVars, clientVars,
                   fixVars, datesVars>>

Next ==
    SessNext \/ RequestNext \/ AnswerNext \/ BodyNext \/ PairsNext \/ AgainNext
    \/ ServNext \/ ClientNext \/ FixNext \/ DatesNext \/ DayNext

Spec == Init /\ [][Next]_vars

-----------------------------------------------------------------------------
\* Answers come in the order of the requests, a session that has something to write
\* waits until it may, and is not used after it is closed (HttpSess.cpp).
AnswersAreInOrder ==
    part = "Sess" =>
        /\ Sess!TypeOK /\ Sess!AnswersAreInOrder
        /\ Sess!WaitsToWriteIfBuffered /\ Sess!NotUsedAfterClose

\* What is kept of a request is what the client said, and what it gets is the answer,
\* of the length that its header has (HttpHandler.hpp, Stream.cpp, Buffer.cpp).
MessagesAreMeant ==
    /\ part = "Request" => Request!TypeOK /\ Request!HeadersAreMeant /\ Request!IdsAreMeant
    /\ part = "Answer" => Answer!TypeOK /\ Answer!AnswersAreWhole /\ Answer!MemoryIsBounded

\* A body that is accepted says what its fields have, however it was cut, and one that
\* is whole and sound is not refused (RestBody.rl).
BodiesAreMeant ==
    /\ part = "Body" =>
        Body!TypeOK /\ Body!WholeIsDone /\ Body!OnlyBadIsRefused /\ Body!DoneIsMeant
    /\ part = "Pairs" => Pairs!TypeOK /\ Pairs!DoneIsMeant
    /\ part = "Again" => Again!TypeOK /\ Again!DoneIsMeant

\* A request calls what its own path, method, fields and rights ask for, and nothing of
\* the ones before it (RestServ.cpp).
RequestsCallTheirOwn ==
    part = "Serv" =>
        /\ Serv!TypeOK /\ Serv!NothingOfEarlierRequests /\ Serv!SuccessIsACall
        /\ Serv!CallsArePermitted /\ Serv!CommandsAreComplete

\* The rows have their instruments, if the reference data comes before the timer fires
\* (HttpClient.cpp).
RowsHaveInstr == part = "Client" => Client!TypeOK /\ Client!RowsHaveInstr

\* What is written as a FIX message, a date or the id of a market is read as what it
\* was, and the business day is that of the second asked for (FixBuilder, FixParser,
\* Date.cpp, MarketId.hpp, BusinessDay).
ConversionsAgree ==
    /\ [](part = "Fix" =>
            Fix!TypeOK /\ Fix!ReadsWhatWasWritten /\ Fix!SumIsOfBytes /\ Fix!FindFindsFirst)
    /\ [](part = "Dates" => Dates!DatesSurvive /\ Dates!WeeksAreRight /\ Dates!MarketIdsTell)
    /\ Dates!DaysAreCounted
    /\ [](part = "Day" => Day!DayIsOfTime)
===============================================================================
