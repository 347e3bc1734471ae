--------------------------- MODULE Services_proofs ---------------------------
(***************************************************************************)
(* What the services of a repository client promise, proved for any        *)
(* calls, payload objects, parsers, values, texts and graphs.              *)
(***************************************************************************)
EXTENDS Session, TLAPS

(***************************************************************************)
(* Reading: Responses                                                      *)
(***************************************************************************)

ParsersOrNone == Parsers \cup {Reading!NoParser}

PendingCalls ==
    [at : {"pending"}, payload : Reading!Payloads, accept : Reading!RDFMimeType,
     stream : BOOLEAN]

SettledCalls ==
    [at : {"settled"}, parser : ParsersOrNone, data : Reading!Data, ask : BOOLEAN]

QueryTypesOrUnset == Reading!QueryTypes \cup {Reading!Unset}

AskedRecords ==
    [queryType : QueryTypesOrUnset, parser : ParsersOrNone, disturbed : BOOLEAN]

\* A parser is registered for its own type.
RegistryInv ==
    /\ registry \in [Reading!RDFMimeType -> ParsersOrNone]
    /\ \A type \in Reading!RDFMimeType :
        registry[type] # Reading!NoParser => registry[type].type = type

\* A response type is one the application may ask for; the payload of a get always has
\* one, and never the type of a query.
PayloadInv ==
    /\ payload \in [Reading!Payloads ->
                      [responseType : ResponseTypes \cup {"RDF_JSON", Reading!Unset},
                       queryType : QueryTypesOrUnset, query : BOOLEAN]]
    /\ \A p \in GetPayloads :
        payload[p].queryType = Reading!Unset /\ payload[p].responseType # Reading!Unset

CallInv ==
    /\ call \in [Reading!Calls -> {Reading!Idle, Reading!Thrown} \cup PendingCalls
                                    \cup SettledCalls]
    /\ asked \in [Reading!Calls -> {Reading!NotAsked} \cup AskedRecords]
    /\ \A c \in Reading!Calls :
        asked[c] = Reading!NotAsked <=> call[c] \in {Reading!Idle, Reading!Thrown}

\* A pending call refers to a payload of its class, which has a response type.  While it is
\* undisturbed, payload and registry still say what it was asked for.
PendingOK(c) ==
    LET p == call[c].payload IN
    /\ c \in Gets => p \in GetPayloads
    /\ c \in Queries => p \in QueryPayloads /\ call[c].stream
    /\ call[c].accept \in ResponseTypes \cup {"RDF_JSON"}
    /\ payload[p].responseType # Reading!Unset
    /\ ~asked[c].disturbed =>
        /\ payload[p].responseType = call[c].accept
        /\ payload[p].queryType = asked[c].queryType
        /\ registry[call[c].accept] = asked[c].parser
        /\ c \in Gets => call[c].stream = asked[c].parser.streaming

PendingInv == \A c \in Reading!Calls : call[c].at = "pending" => PendingOK(c)

ReadingInv ==
    RegistryInv /\ PayloadInv /\ CallInv /\ PendingInv /\ Reading!ResultAsRequested

\* What was asked is never mistaken for nothing, nor a call under way for one that is not.
LEMMA RecordsApart ==
    /\ \A r \in AskedRecords : r # Reading!NotAsked
    /\ \A k \in PendingCalls \cup SettledCalls : k \notin {Reading!Idle, Reading!Thrown}
<1>1. \A r \in AskedRecords : "parser" \in DOMAIN r
  BY DEF AskedRecords
<1>2. "parser" \notin DOMAIN Reading!NotAsked
  BY DEF Reading!NotAsked
<1> QED BY <1>1, <1>2 DEF PendingCalls, SettledCalls, Reading!Idle, Reading!Thrown

\* At first no parser is registered and no call has been made.
LEMMA ReadingInit == Reading!Init => ReadingInv
<1> SUFFICES ASSUME Reading!Init PROVE ReadingInv
  OBVIOUS
<1> USE DEF Reading!Init
<1>1. RegistryInv
  BY DEF RegistryInv, ParsersOrNone
<1>2. PayloadInv
  BY ReadingAssumption DEF PayloadInv, Reading!ConstantsOK, QueryTypesOrUnset, Reading!Payloads,
      Reading!Unset
<1>3. CallInv
  BY DEF CallInv
<1>4. PendingInv
  BY DEF PendingInv, Reading!Idle
<1>5. Reading!ResultAsRequested
  BY DEF Reading!ResultAsRequested, Reading!Undisturbed, Reading!Idle
<1> QED BY <1>1, <1>2, <1>3, <1>4, <1>5 DEF ReadingInv

\* A call takes its request from the payload and the registry as they are.
LEMMA SendRequestPreserves ==
    ASSUME ReadingInv, NEW c \in Reading!Calls, NEW p \in Reading!Payloads, NEW stream \in BOOLEAN,
           call[c] = Reading!Idle,
           payload[p].responseType \in Reading!RDFMimeType,
           c \in Gets => p \in GetPayloads /\ stream = registry[payload[p].responseType].streaming,
           c \in Queries => p \in QueryPayloads /\ stream,
           Reading!SendRequest(c, p, stream)
    PROVE  ReadingInv'
<1> DEFINE type == payload[p].responseType
           k == [at |-> "pending", payload |-> p, accept |-> type, stream |-> stream]
           a == [queryType |-> payload[p].queryType, parser |-> registry[type],
                 disturbed |-> FALSE]
<1>1. /\ call' = [call EXCEPT ![c] = k] /\ asked' = [asked EXCEPT ![c] = a]
      /\ registry' = registry /\ payload' = payload
  BY DEF Reading!SendRequest
<1>2. k \in PendingCalls /\ a \in AskedRecords
  <2>1. registry[type] \in ParsersOrNone
    BY DEF ReadingInv, RegistryInv, Reading!RDFMimeType, Reading!SelectResults, Reading!AskResults
  <2> QED BY <2>1 DEF PendingCalls, AskedRecords, ReadingInv, PayloadInv
<1>3. type \in ResponseTypes \cup {"RDF_JSON"}
  BY DEF ReadingInv, PayloadInv, Reading!RDFMimeType, Reading!RDFFormats, Reading!SelectResults,
         Reading!AskResults, Reading!Unset
<1>4. /\ k.at = "pending" /\ k.payload = p /\ k.accept = type /\ k.stream = stream
      /\ a.queryType = payload[p].queryType /\ a.parser = registry[type]
      /\ a.disturbed = FALSE
  OBVIOUS
<1> HIDE DEF k, a, type
<1>5. /\ call'[c] = k /\ asked'[c] = a
      /\ \A d \in Reading!Calls : d # c => call'[d] = call[d] /\ asked'[d] = asked[d]
  BY <1>1 DEF ReadingInv, CallInv
<1>6. RegistryInv' /\ PayloadInv'
  BY <1>1 DEF ReadingInv, RegistryInv, PayloadInv
<1>7. CallInv'
  BY <1>1, <1>2, <1>5, RecordsApart DEF ReadingInv, CallInv
<1>8. PendingInv'
  <2> SUFFICES ASSUME NEW d \in Reading!Calls, call'[d].at = "pending" PROVE PendingOK(d)'
    BY DEF PendingInv
  <2>1. type # Reading!Unset /\ registry[type] = a.parser
    BY <1>4 DEF type, Reading!Unset, Reading!RDFMimeType, Reading!RDFFormats,
                Reading!SelectResults, Reading!AskResults
  <2>2. CASE d = c
    BY <1>1, <1>3, <1>4, <1>5, <2>1, <2>2 DEF PendingOK, type
  <2>3. CASE d # c
    BY <1>1, <1>5, <2>3 DEF ReadingInv, PendingInv, PendingOK
  <2> QED BY <2>2, <2>3
<1>9. Reading!ResultAsRequested'
  BY <1>1, <1>4, <1>5 DEF ReadingInv, Reading!ResultAsRequested, Reading!Undisturbed, Reading!Reads
<1> QED BY <1>6, <1>7, <1>8, <1>9 DEF ReadingInv

\* A query with an invalid payload throws before there is a request.
LEMMA QueryThrowsPreserves ==
    ASSUME ReadingInv, NEW c \in Queries, NEW p, Reading!QueryThrows(c, p)
    PROVE  ReadingInv'
<1>1. /\ call[c] = Reading!Idle /\ call' = [call EXCEPT ![c] = Reading!Thrown]
      /\ registry' = registry /\ payload' = payload /\ asked' = asked
      /\ c \in Reading!Calls
  BY DEF Reading!QueryThrows, Reading!Calls
<1>2. /\ call'[c] = Reading!Thrown
      /\ \A d \in Reading!Calls : d # c => call'[d] = call[d]
  BY <1>1 DEF ReadingInv, CallInv
<1>3. RegistryInv' /\ PayloadInv' /\ CallInv'
  BY <1>1, <1>2 DEF ReadingInv, RegistryInv, PayloadInv, CallInv
<1>4. PendingInv' /\ Reading!ResultAsRequested'
  BY <1>1, <1>2 DEF ReadingInv, PendingInv, PendingOK, Reading!ResultAsRequested,
                    Reading!Undisturbed, Reading!Thrown, Reading!Reads
<1> QED BY <1>3, <1>4 DEF ReadingInv

\* The response of an undisturbed call meets what the call was made for.
LEMMA ReceivePreserves ==
    ASSUME ReadingInv, NEW c \in Reading!Calls, Reading!Receive(c)
    PROVE  ReadingInv'
<1> DEFINE p == payload[call[c].payload]
           k == [at |-> "settled",
                 parser |-> registry[p.responseType],
                 data |-> [format |-> call[c].accept, stream |-> call[c].stream],
                 ask |-> c \in Queries /\ p.queryType = "ASK"]
<1>1. /\ call' = [call EXCEPT ![c] = k] /\ call[c].at = "pending"
      /\ registry' = registry /\ payload' = payload /\ asked' = asked
  BY DEF Reading!Receive
<1>2. call[c] \in PendingCalls
  BY <1>1 DEF ReadingInv, CallInv, SettledCalls, Reading!Idle, Reading!Thrown
<1>3. PendingOK(c)
  BY <1>1 DEF ReadingInv, PendingInv
<1>4. registry[p.responseType] \in ParsersOrNone
  <2>1. call[c].payload \in Reading!Payloads
    BY <1>2 DEF PendingCalls
  <2>2. p.responseType \in Reading!RDFMimeType
    BY <1>3, <2>1, ReadingAssumption
       DEF ReadingInv, PayloadInv, PendingOK, Reading!ConstantsOK, Reading!RDFMimeType,
           Reading!RDFFormats
  <2> QED BY <2>2 DEF ReadingInv, RegistryInv
<1>5. k \in SettledCalls
  BY <1>2, <1>3, <1>4 DEF PendingCalls, PendingOK, SettledCalls, Reading!Data
<1>6. /\ k.at = "settled" /\ k.parser = registry[p.responseType]
      /\ k.data.format = call[c].accept /\ k.data.stream = call[c].stream
      /\ k.ask <=> c \in Queries /\ p.queryType = "ASK"
  OBVIOUS
<1> HIDE DEF k
<1>7. call'[c] = k /\ \A d \in Reading!Calls : d # c => call'[d] = call[d]
  BY <1>1 DEF ReadingInv, CallInv
<1>8. RegistryInv' /\ PayloadInv' /\ PendingInv'
  BY <1>1, <1>6, <1>7 DEF ReadingInv, RegistryInv, PayloadInv, PendingInv, PendingOK
<1>9. CallInv'
  BY <1>1, <1>2, <1>5, <1>7, RecordsApart DEF ReadingInv, CallInv
<1>10. ASSUME ~asked[c].disturbed,
              c \in Queries /\ asked[c].parser # Reading!NoParser => asked[c].parser.streaming
       PROVE  /\ k.parser = asked[c].parser
              /\ IF asked[c].parser = Reading!NoParser THEN k.data.stream <=> c \in Queries
                                                      ELSE Reading!Reads(asked[c].parser, k.data)
              /\ k.ask <=> asked[c].queryType = "ASK"
  <2>1. /\ p.responseType = call[c].accept /\ p.queryType = asked[c].queryType
        /\ registry[call[c].accept] = asked[c].parser
    BY <1>3, <1>10 DEF PendingOK
  <2>2. call[c].accept \in Reading!RDFMimeType /\ call[c].stream \in BOOLEAN
    BY <1>2 DEF PendingCalls
  <2>3. CASE c \in Queries
    <3>1. call[c].stream
      BY <1>3, <2>3 DEF PendingOK
    <3>2. asked[c].parser # Reading!NoParser => asked[c].parser.type = call[c].accept
      BY <2>1, <2>2 DEF ReadingInv, RegistryInv
    <3>3. asked[c].parser # Reading!NoParser => asked[c].parser.streaming = TRUE
      BY <1>10, <2>1, <2>2, <2>3, ReadingAssumption
         DEF ReadingInv, RegistryInv, ParsersOrNone, Reading!ConstantsOK
    <3> QED BY <1>6, <2>1, <2>2, <2>3, <3>1, <3>2, <3>3 DEF Reading!Reads
  <2>4. CASE c \in Gets
    <3>1. call[c].payload \in GetPayloads /\ call[c].stream = asked[c].parser.streaming
      BY <1>3, <1>10, <2>4 DEF PendingOK
    <3>2. p.queryType # "ASK" /\ c \notin Queries
      BY <2>4, <3>1, ReadingAssumption
         DEF ReadingInv, PayloadInv, Reading!ConstantsOK, Reading!Unset
    <3>3. asked[c].parser # Reading!NoParser => asked[c].parser.type = call[c].accept
      BY <2>1, <2>2 DEF ReadingInv, RegistryInv
    <3> QED BY <1>6, <2>1, <2>2, <3>1, <3>2, <3>3 DEF Reading!Reads, Reading!NoParser
  <2> QED BY <2>3, <2>4 DEF Reading!Calls
<1>11. Reading!ResultAsRequested'
  BY <1>1, <1>7, <1>10 DEF ReadingInv, Reading!ResultAsRequested, Reading!Undisturbed
<1> QED BY <1>8, <1>9, <1>11 DEF ReadingInv

\* What Disturb does to the history of a call.
LEMMA DisturbMarks ==
    ASSUME CallInv, NEW calls \in SUBSET Reading!Calls, Reading!Disturb(calls),
           \A c \in calls : call[c].at = "pending"
    PROVE  /\ \A c \in calls : asked'[c].disturbed
           /\ \A c \in Reading!Calls \ calls : asked'[c] = asked[c]
           /\ \A c \in Reading!Calls :
                /\ asked'[c] \in {Reading!NotAsked} \cup AskedRecords
                /\ asked'[c] = Reading!NotAsked <=> asked[c] = Reading!NotAsked
           /\ asked' \in [Reading!Calls -> {Reading!NotAsked} \cup AskedRecords]
<1>1. asked' = [c \in Reading!Calls |-> IF c \in calls
                                      THEN [asked[c] EXCEPT !.disturbed = TRUE]
                                      ELSE asked[c]]
  BY DEF Reading!Disturb
<1>2. ASSUME NEW c \in calls
      PROVE  asked[c] \in AskedRecords
  <2>1. call[c] \notin {Reading!Idle, Reading!Thrown}
    BY DEF Reading!Idle, Reading!Thrown
  <2> QED BY <2>1 DEF CallInv
<1>3. ASSUME NEW c \in calls
      PROVE  asked'[c] \in AskedRecords /\ asked'[c].disturbed
  BY <1>1, <1>2 DEF AskedRecords
<1> QED BY <1>1, <1>2, <1>3, RecordsApart DEF CallInv

\* A setter of a payload disturbs the calls that are pending with it.
LEMMA SetterPreserves ==
    ASSUME ReadingInv, NEW p \in Reading!Payloads, NEW q,
           q \in [responseType : ResponseTypes \cup {"RDF_JSON", Reading!Unset},
                 queryType : QueryTypesOrUnset, query : BOOLEAN],
           payload[p].responseType # Reading!Unset \/ p \in GetPayloads
              => q.responseType # Reading!Unset,
           p \in GetPayloads => q.queryType = Reading!Unset,
           payload' = [payload EXCEPT ![p] = q],
           \/ Reading!Disturb(Reading!PendingWith(p))
           \/ asked' = asked /\ q.responseType = payload[p].responseType
                             /\ q.queryType = payload[p].queryType,
           registry' = registry, call' = call
    PROVE  ReadingInv'
<1>1. payload'[p] = q /\ \A o \in Reading!Payloads : o # p => payload'[o] = payload[o]
  BY DEF ReadingInv, PayloadInv
<1>2. RegistryInv' /\ PayloadInv'
  BY <1>1 DEF ReadingInv, RegistryInv, PayloadInv
<1>3. CASE Reading!Disturb(Reading!PendingWith(p))
  <2>1. /\ \A c \in Reading!PendingWith(p) : asked'[c].disturbed
        /\ \A c \in Reading!Calls \ Reading!PendingWith(p) : asked'[c] = asked[c]
        /\ \A c \in Reading!Calls :
             /\ asked'[c] \in {Reading!NotAsked} \cup AskedRecords
             /\ asked'[c] = Reading!NotAsked <=> asked[c] = Reading!NotAsked
        /\ asked' \in [Reading!Calls -> {Reading!NotAsked} \cup AskedRecords]
    BY <1>3, DisturbMarks DEF ReadingInv, Reading!PendingWith
  <2>2. CallInv'
    BY <2>1 DEF ReadingInv, CallInv
  <2>3. PendingInv'
    <3> SUFFICES ASSUME NEW c \in Reading!Calls, call[c].at = "pending" PROVE PendingOK(c)'
      BY DEF PendingInv
    <3>1. PendingOK(c)
      BY DEF ReadingInv, PendingInv
    <3>2. CASE call[c].payload = p
      BY <1>1, <2>1, <3>1, <3>2 DEF PendingOK, Reading!PendingWith
    <3>3. CASE call[c].payload # p
      <4>1. call[c].payload \in Reading!Payloads
        BY DEF ReadingInv, CallInv, PendingCalls, SettledCalls, Reading!Idle, Reading!Thrown
      <4> QED BY <1>1, <2>1, <3>1, <3>3, <4>1 DEF PendingOK, Reading!PendingWith
    <3> QED BY <3>2, <3>3
  <2>4. Reading!ResultAsRequested'
    BY <2>1 DEF ReadingInv, Reading!ResultAsRequested, Reading!Undisturbed, Reading!PendingWith,
                Reading!Reads
  <2> QED BY <1>2, <2>2, <2>3, <2>4 DEF ReadingInv
<1>4. CASE asked' = asked /\ q.responseType = payload[p].responseType
                         /\ q.queryType = payload[p].queryType
  <2>1. \A o \in Reading!Payloads : /\ payload'[o].responseType = payload[o].responseType
                                     /\ payload'[o].queryType = payload[o].queryType
    BY <1>1, <1>4
  <2>2. PendingInv'
    <3> SUFFICES ASSUME NEW c \in Reading!Calls, call[c].at = "pending" PROVE PendingOK(c)'
      BY DEF PendingInv
    <3>1. call[c].payload \in Reading!Payloads
      BY DEF ReadingInv, CallInv, PendingCalls, SettledCalls, Reading!Idle, Reading!Thrown
    <3> QED BY <1>4, <2>1, <3>1 DEF ReadingInv, PendingInv, PendingOK
  <2>3. CallInv' /\ Reading!ResultAsRequested'
    BY <1>4 DEF ReadingInv, CallInv, Reading!ResultAsRequested, Reading!Undisturbed, Reading!Reads
  <2> QED BY <1>2, <2>2, <2>3 DEF ReadingInv
<1> QED BY <1>3, <1>4

\* A parser that is registered disturbs the calls that are pending for its type.
LEMMA RegisterPreserves ==
    ASSUME ReadingInv, NEW parser \in Parsers, Reading!RegisterParser(parser)
    PROVE  ReadingInv'
<1>1. /\ registry' = [registry EXCEPT ![parser.type] = parser]
      /\ Reading!Disturb(Reading!PendingFor(parser.type))
      /\ payload' = payload /\ call' = call
      /\ parser.type \in Reading!RDFMimeType
  BY ReadingAssumption DEF Reading!RegisterParser, Reading!Registered, Reading!ConstantsOK
<1>2. RegistryInv' /\ PayloadInv'
  BY <1>1 DEF ReadingInv, RegistryInv, PayloadInv, ParsersOrNone
<1>3. /\ \A c \in Reading!PendingFor(parser.type) : asked'[c].disturbed
      /\ \A c \in Reading!Calls \ Reading!PendingFor(parser.type) : asked'[c] = asked[c]
      /\ \A c \in Reading!Calls :
           /\ asked'[c] \in {Reading!NotAsked} \cup AskedRecords
           /\ asked'[c] = Reading!NotAsked <=> asked[c] = Reading!NotAsked
      /\ asked' \in [Reading!Calls -> {Reading!NotAsked} \cup AskedRecords]
  BY <1>1, DisturbMarks DEF ReadingInv, Reading!PendingFor
<1>4. CallInv'
  BY <1>1, <1>3 DEF ReadingInv, CallInv
<1>5. PendingInv'
  <2> SUFFICES ASSUME NEW c \in Reading!Calls, call[c].at = "pending" PROVE PendingOK(c)'
    BY <1>1 DEF PendingInv
  <2>1. PendingOK(c)
    BY DEF ReadingInv, PendingInv
  <2>2. CASE call[c].accept = parser.type
    BY <1>1, <1>3, <2>1, <2>2 DEF PendingOK, Reading!PendingFor
  <2>3. CASE call[c].accept # parser.type
    <3>1. call[c].accept \in Reading!RDFMimeType
      BY DEF ReadingInv, CallInv, PendingCalls, SettledCalls, Reading!Idle, Reading!Thrown
    <3>2. registry'[call[c].accept] = registry[call[c].accept]
      BY <1>1, <2>3, <3>1 DEF ReadingInv, RegistryInv
    <3> QED BY <1>1, <1>3, <2>1, <2>3, <3>2 DEF PendingOK, Reading!PendingFor
  <2> QED BY <2>2, <2>3
<1>6. Reading!ResultAsRequested'
  BY <1>1, <1>3 DEF ReadingInv, Reading!ResultAsRequested, Reading!Undisturbed,
                    Reading!PendingFor, Reading!Reads
<1> QED BY <1>2, <1>4, <1>5, <1>6 DEF ReadingInv

\* Calls, setters, registrations and answers keep the invariant of reading.
LEMMA ReadingNext == ReadingInv /\ [Reading!Next]_(Reading!vars) => ReadingInv'
<1> SUFFICES ASSUME ReadingInv, [Reading!Next]_(Reading!vars) PROVE ReadingInv'
  OBVIOUS
<1>1. ASSUME NEW c \in Gets, NEW p \in GetPayloads, Reading!Get(c, p) PROVE ReadingInv'
  <2> DEFINE type == payload[p].responseType
  <2>1. /\ call[c] = Reading!Idle
        /\ Reading!SendRequest(c, p, registry[type].streaming)
    BY <1>1 DEF Reading!Get, Reading!StreamForGet
  <2>2. c \in Reading!Calls /\ p \in Reading!Payloads /\ c \notin Queries
    BY ReadingAssumption DEF Reading!Calls, Reading!Payloads, Reading!ConstantsOK
  <2>3. type \in Reading!RDFMimeType
    BY <2>2, ReadingAssumption
       DEF ReadingInv, PayloadInv, Reading!ConstantsOK, Reading!RDFMimeType, Reading!RDFFormats
  <2>4. registry[type].streaming \in BOOLEAN
    <3>1. registry[type] \in ParsersOrNone
      BY <2>3 DEF ReadingInv, RegistryInv
    <3>2. \A parser \in Parsers : parser.streaming \in BOOLEAN
      BY ReadingAssumption DEF Reading!ConstantsOK
    <3>3. Reading!NoParser.streaming \in BOOLEAN
      BY DEF Reading!NoParser
    <3> QED BY <3>1, <3>2, <3>3 DEF ParsersOrNone
  <2> QED BY <2>1, <2>2, <2>3, <2>4, SendRequestPreserves
<1>2. ASSUME NEW c \in Queries, NEW p \in QueryPayloads, Reading!Query(c, p) PROVE ReadingInv'
  <2>1. call[c] = Reading!Idle /\ Reading!Valid(p) /\ Reading!SendRequest(c, p, TRUE)
    BY <1>2 DEF Reading!Query
  <2>2. c \in Reading!Calls /\ p \in Reading!Payloads /\ c \notin Gets
    BY ReadingAssumption DEF Reading!Calls, Reading!Payloads, Reading!ConstantsOK
  <2>3. payload[p].responseType \in Reading!RDFMimeType
    BY <2>1 DEF Reading!Valid, Reading!QueryTypes, Reading!AllowedFormats, Reading!RDFMimeType,
                Reading!SelectResults
  <2> QED BY <2>1, <2>2, <2>3, SendRequestPreserves
<1>3. ASSUME NEW c \in Queries, NEW p \in QueryPayloads, Reading!QueryThrows(c, p)
      PROVE  ReadingInv'
  BY <1>3, QueryThrowsPreserves
<1>4. ASSUME NEW c \in Reading!Calls, Reading!Receive(c) PROVE ReadingInv'
  BY <1>4, ReceivePreserves
<1>5. ASSUME NEW p \in Reading!Payloads, NEW type \in ResponseTypes,
             Reading!SetResponseType(p, type)
      PROVE  ReadingInv'
  <2> DEFINE q == [payload[p] EXCEPT !.responseType = type]
  <2>1. /\ q \in [responseType : ResponseTypes \cup {"RDF_JSON", Reading!Unset},
                   queryType : QueryTypesOrUnset, query : BOOLEAN]
        /\ q.responseType = type /\ q.queryType = payload[p].queryType
    BY DEF ReadingInv, PayloadInv
  <2>2. type # Reading!Unset
    BY ReadingAssumption DEF Reading!ConstantsOK, Reading!RDFMimeType, Reading!RDFFormats,
                             Reading!SelectResults, Reading!AskResults, Reading!Unset
  <2>3. /\ payload' = [payload EXCEPT ![p] = q] /\ registry' = registry /\ call' = call
        /\ Reading!Disturb(Reading!PendingWith(p))
    BY <1>5 DEF Reading!SetResponseType
  <2>4. p \in GetPayloads => q.queryType = Reading!Unset
    BY <2>1 DEF ReadingInv, PayloadInv
  <2> HIDE DEF q
  <2> QED BY <2>1, <2>2, <2>3, <2>4, SetterPreserves
<1>6. ASSUME NEW p \in QueryPayloads, NEW type \in TypesOfQueries, Reading!SetQueryType(p, type)
      PROVE  ReadingInv'
  <2> DEFINE q == [payload[p] EXCEPT !.queryType = type]
  <2>1. p \in Reading!Payloads /\ p \notin GetPayloads /\ type \in QueryTypesOrUnset
    BY ReadingAssumption DEF Reading!ConstantsOK, Reading!Payloads, QueryTypesOrUnset
  <2>2. /\ q \in [responseType : ResponseTypes \cup {"RDF_JSON", Reading!Unset},
                   queryType : QueryTypesOrUnset, query : BOOLEAN]
        /\ q.responseType = payload[p].responseType
    BY <2>1 DEF ReadingInv, PayloadInv
  <2>3. /\ payload' = [payload EXCEPT ![p] = q] /\ registry' = registry /\ call' = call
        /\ Reading!Disturb(Reading!PendingWith(p))
    BY <1>6 DEF Reading!SetQueryType
  <2> HIDE DEF q
  <2> QED BY <2>1, <2>2, <2>3, SetterPreserves
<1>7. ASSUME NEW p \in QueryPayloads, Reading!SetQuery(p) PROVE ReadingInv'
  <2> DEFINE q == [payload[p] EXCEPT !.query = TRUE]
  <2>1. p \in Reading!Payloads /\ p \notin GetPayloads
    BY ReadingAssumption DEF Reading!ConstantsOK, Reading!Payloads
  <2>2. /\ q \in [responseType : ResponseTypes \cup {"RDF_JSON", Reading!Unset},
                   queryType : QueryTypesOrUnset, query : BOOLEAN]
        /\ q.responseType = payload[p].responseType /\ q.queryType = payload[p].queryType
    BY <2>1 DEF ReadingInv, PayloadInv
  <2>3. /\ payload' = [payload EXCEPT ![p] = q] /\ registry' = registry /\ call' = call
        /\ asked' = asked
    BY <1>7 DEF Reading!SetQuery
  <2> HIDE DEF q
  <2> QED BY <2>1, <2>2, <2>3, SetterPreserves
<1>8. ASSUME NEW parser \in Parsers, Reading!RegisterParser(parser) PROVE ReadingInv'
  BY <1>8, RegisterPreserves
<1>9. CASE UNCHANGED Reading!vars
  BY <1>9 DEF Reading!vars, ReadingInv, RegistryInv, PayloadInv, CallInv, PendingInv, PendingOK,
              Reading!ResultAsRequested, Reading!Undisturbed, Reading!Reads
<1> QED BY <1>1, <1>2, <1>3, <1>4, <1>5, <1>6, <1>7, <1>8, <1>9 DEF Reading!Next

\* The invariant of reading includes the types of its variables.
LEMMA ReadingTyped == ReadingInv => Reading!TypeOK
<1>1. ASSUME ReadingInv PROVE Reading!TypeOK
  <2>1. ResponseTypes \cup {"RDF_JSON"} \subseteq Reading!RDFMimeType
    BY ReadingAssumption DEF Reading!ConstantsOK, Reading!RDFMimeType, Reading!RDFFormats
  <2>2. payload \in [Reading!Payloads -> [responseType : Reading!RDFMimeType \cup {Reading!Unset},
                                          queryType : QueryTypesOrUnset, query : BOOLEAN]]
    BY <1>1, <2>1 DEF ReadingInv, PayloadInv
  <2> QED BY <1>1, <2>2 DEF ReadingInv, RegistryInv, CallInv, Reading!TypeOK, ParsersOrNone,
                            PendingCalls, SettledCalls, QueryTypesOrUnset
<1> QED BY <1>1

(***************************************************************************)
(* Writing: Statements                                                     *)
(***************************************************************************)

StatementRecords ==
    [object : Values \cup {Writing!Undefined},
     dataType : DataTypes \cup Writing!Detected \cup {Writing!None},
     language : Languages \cup {Writing!None},
     context : SUBSET Graphs]

\* d describes a literal that is to be stored as it says.
Describes(d) == d.objects # {} /\ ~d.leftover

\* The literal described last is the object of the payload, whatever has been set since
\* without replacing it.
StatementInv ==
    /\ statement \in StatementRecords
    /\ described.objects \subseteq Writing!Terms
    /\ Describes(described) => described.objects = {Writing!ObjectTerm}

\* A request has the method of its operation and the restriction it was made with, and the
\* request of an add has the quads that were described.
RequestOK(r) ==
    /\ r.id \in 1..requests
    /\ r.method \in {"post", "put", "delete"}
    /\ r.method = "delete" => r.quads = {}
    /\ r.quads \subseteq Writing!Quads
    /\ r.context \subseteq Graphs
    /\ r.context = r.restriction
    /\ r.operation \in {"add", "addQuads"} => r.method = "post"
    /\ Describes(r.described) => r.method = "post" /\ r.quads = Writing!Promised(r)

WritingInv ==
    /\ StatementInv
    /\ \A r \in wire : RequestOK(r)
    /\ store \subseteq Writing!Quads
    /\ setters \in 0..MaxSetters
    /\ requests \in 0..MaxRequests

\* At first nothing is described, sent or stored.
LEMMA WritingInit == Writing!Init => WritingInv
<1> SUFFICES ASSUME Writing!Init PROVE WritingInv
  OBVIOUS
<1>1. StatementInv
  BY DEF Writing!Init, StatementInv, StatementRecords, Describes, Writing!NoDescription
<1>2. wire = {} /\ store = {} /\ setters = 0 /\ requests = 0
  BY DEF Writing!Init
<1> QED BY <1>1, <1>2, WritingAssumption DEF WritingInv, Writing!ConstantsOK

\* The literal that is described is the object that the payload then has, unless a language
\* was left over.
LEMMA LiteralIsObject ==
    ASSUME StatementInv, NEW v \in Values, NEW type \in DataTypes \cup {Writing!None},
           NEW language \in Languages \cup {Writing!None},
           Writing!SetObjectLiteral(v, type, language)
    PROVE  StatementInv'
<1> DEFINE tagged == type = Writing!String /\ language # Writing!None
           dataType == IF type = Writing!None THEN Writing!DetectedType(v) ELSE type
           lang == IF tagged THEN language ELSE statement.language
           literal == Writing!Literal(v, type, language)
<1>1. Writing!DetectedType(v) \in Writing!Detected
  <2>1. /\ v.js \in {"string", "number", "boolean"} /\ v.integral \in BOOLEAN
    BY WritingAssumption DEF Writing!ConstantsOK
  <2>2. CASE v.js = "number"
    BY <2>1, <2>2 DEF Writing!DetectedType, Writing!Detected
  <2>3. CASE v.js = "boolean"
    BY <2>1, <2>3 DEF Writing!DetectedType, Writing!Detected
  <2>4. CASE v.js = "string"
    BY <2>1, <2>4 DEF Writing!DetectedType, Writing!Detected
  <2> QED BY <2>1, <2>2, <2>3, <2>4
<1>2. dataType \in DataTypes \cup Writing!Detected
  BY <1>1
<1>3. lang \in Languages \cup {Writing!None}
  BY DEF StatementInv, StatementRecords
<1>4. statement' = [statement EXCEPT !.object = v, !.dataType = dataType, !.language = lang]
  BY DEF Writing!SetObjectLiteral
<1>5. described' = [objects |-> {literal},
                    leftover |-> ~tagged /\ statement.language # Writing!None]
  BY DEF Writing!SetObjectLiteral
<1>6. literal = [value |-> v,
                 dataType |-> IF tagged THEN Writing!None ELSE dataType,
                 language |-> IF tagged THEN language ELSE Writing!None]
  BY DEF Writing!Literal
<1> HIDE DEF dataType, lang, literal
<1>7. /\ statement' \in StatementRecords
      /\ statement'.object = v /\ statement'.dataType = dataType /\ statement'.language = lang
  BY <1>2, <1>3, <1>4 DEF StatementInv, StatementRecords
<1>8. literal \in Writing!Terms
  BY <1>2, <1>6 DEF Writing!Terms
<1>9. ASSUME Describes(described') PROVE described'.objects = {Writing!ObjectTerm'}
  <2>1. tagged \/ statement.language = Writing!None
    BY <1>5, <1>9 DEF Describes
  <2>2. Writing!ObjectTerm' = literal
    BY <1>6, <1>7, <2>1 DEF Writing!ObjectTerm, lang
  <2> QED BY <1>5, <2>2
<1> QED BY <1>5, <1>7, <1>8, <1>9 DEF StatementInv

\* A setter that describes a literal makes it the object; one that spoils it ends the description.
LEMMA SetterKeepsStatement == ASSUME StatementInv, Writing!Setter PROVE StatementInv'
<1>1. ASSUME NEW v \in Values, Writing!SetObject(v) PROVE StatementInv'
  BY <1>1 DEF Writing!SetObject, StatementInv, StatementRecords, Describes, Writing!NoDescription
<1>2. ASSUME NEW v \in Values, NEW type \in DataTypes \cup {Writing!None},
             NEW language \in Languages \cup {Writing!None},
             Writing!SetObjectLiteral(v, type, language)
      PROVE  StatementInv'
  BY <1>2, LiteralIsObject
<1>3. ASSUME NEW language \in Languages \cup {Writing!None}, Writing!SetLanguage(language)
      PROVE  StatementInv'
  BY <1>3 DEF Writing!SetLanguage, StatementInv, StatementRecords, Describes,
              Writing!NoDescription
<1>4. ASSUME NEW type \in DataTypes \cup {Writing!None}, Writing!SetDataType(type)
      PROVE  StatementInv'
  BY <1>4 DEF Writing!SetDataType, StatementInv, StatementRecords, Describes,
              Writing!NoDescription
<1>5. ASSUME NEW context \in SUBSET Graphs, Writing!SetContext(context) PROVE StatementInv'
  <2>1. /\ statement' \in StatementRecords /\ statement'.object = statement.object
        /\ statement'.dataType = statement.dataType
        /\ statement'.language = statement.language /\ described' = described
    BY <1>5 DEF Writing!SetContext, StatementInv, StatementRecords
  <2> QED BY <2>1 DEF StatementInv, Writing!ObjectTerm, Describes
<1> QED BY <1>1, <1>2, <1>3, <1>4, <1>5 DEF Writing!Setter

\* A request is added to those on their way.
LEMMA SendKeeps ==
    ASSUME WritingInv, NEW r, Writing!SendRequest(r), r.id = requests + 1,
           r.method \in {"post", "put", "delete"},
           r.method = "delete" => r.quads = {},
           r.quads \subseteq Writing!Quads, r.context \subseteq Graphs,
           r.context = r.restriction,
           r.operation \in {"add", "addQuads"} => r.method = "post",
           Describes(r.described) => r.method = "post" /\ r.quads = Writing!Promised(r)
    PROVE  WritingInv'
<1>1. /\ requests' = requests + 1 /\ requests < MaxRequests /\ wire' = wire \cup {r}
      /\ statement' = statement /\ described' = described /\ store' = store
      /\ setters' = setters
  BY DEF Writing!SendRequest
<1>2. requests' \in 0..MaxRequests /\ requests \in Nat
  BY <1>1, WritingAssumption DEF WritingInv, Writing!ConstantsOK
<1>3. ASSUME NEW q \in wire PROVE RequestOK(q)'
  BY <1>1, <1>2 DEF WritingInv, RequestOK, Writing!Promised
<1>4. RequestOK(r)'
  BY <1>1, <1>2 DEF RequestOK, Writing!Promised
<1>5. StatementInv'
  BY <1>1 DEF WritingInv, StatementInv, Writing!ObjectTerm
<1> QED BY <1>1, <1>2, <1>3, <1>4, <1>5 DEF WritingInv

\* A request that is not an add describes nothing.
LEMMA PlainRequestKeeps ==
    ASSUME WritingInv, NEW operation, NEW method \in {"post", "put", "delete"},
           NEW quads \in SUBSET Writing!Quads, NEW context \in SUBSET Graphs,
           method = "delete" => quads = {},
           operation \in {"add", "addQuads"} => method = "post",
           Writing!SendRequest(Writing!NewRequest(operation, method, quads, context))
    PROVE  WritingInv'
<1> DEFINE r == Writing!NewRequest(operation, method, quads, context)
<1>1. /\ r.id = requests + 1 /\ r.method = method /\ r.quads = quads
      /\ r.context = context /\ r.restriction = context /\ r.operation = operation
      /\ ~Describes(r.described)
  BY DEF Writing!NewRequest, Writing!ContextParam, Writing!NoDescription, Describes
<1> HIDE DEF r
<1> QED BY <1>1, SendKeeps DEF r

\* The request of an add has the quads of the literal that is described.
LEMMA AddKeeps == ASSUME WritingInv, Writing!Add PROVE WritingInv'
<1> DEFINE r == [Writing!NewRequest("add", Writing!InsertMethod(FALSE), Writing!PayloadQuads,
                                    statement.context) EXCEPT !.described = described]
<1>1. Writing!SendRequest(r) /\ statement.object # Writing!Undefined
  BY DEF Writing!Add, Writing!AddThrows, Writing!HasNull, Writing!Undefined
<1>2. /\ r.id = requests + 1 /\ r.method = "post" /\ r.quads = Writing!PayloadQuads
      /\ r.context = statement.context /\ r.restriction = statement.context
      /\ r.operation = "add" /\ r.described = described
  BY DEF Writing!NewRequest, Writing!ContextParam, Writing!InsertMethod
<1> HIDE DEF r
<1>3. statement \in StatementRecords
  BY DEF WritingInv, StatementInv
<1>4. Writing!PayloadQuads \subseteq Writing!Quads
  <2>1. Writing!ObjectTerm \in Writing!Terms
    BY <1>1, <1>3 DEF StatementRecords, Writing!ObjectTerm, Writing!Terms
  <2>2. Writing!GraphsOf(statement.context) \subseteq Graphs \cup {Writing!DefaultGraph}
    BY <1>3 DEF StatementRecords, Writing!GraphsOf
  <2> QED BY <2>1, <2>2 DEF Writing!PayloadQuads, Writing!Quads
<1>5. Describes(r.described) => r.quads = Writing!Promised(r)
  BY <1>2 DEF WritingInv, StatementInv, Writing!PayloadQuads, Writing!Promised
<1>6. statement.context \subseteq Graphs
  BY <1>3 DEF StatementRecords
<1> QED BY <1>1, <1>2, <1>4, <1>5, <1>6, SendKeeps

\* What the repository does with a request, by its method.
LEMMA EffectOfRequest ==
    ASSUME NEW r, r.method \in {"post", "put", "delete"}
    PROVE  /\ r.method = "post" => Writing!Effect(r) = store \cup Writing!Placed(r)
           /\ r.method = "put" =>
                Writing!Effect(r) = {q \in store : ~Writing!InContext(q, r.context)}
                                        \cup Writing!Placed(r)
           /\ r.method = "delete" =>
                Writing!Effect(r) = {q \in store : ~Writing!InContext(q, r.context)}
<1>1. CASE r.method = "post"
  BY <1>1 DEF Writing!Effect
<1>2. CASE r.method = "put"
  BY <1>2 DEF Writing!Effect
<1>3. CASE r.method = "delete"
  BY <1>3 DEF Writing!Effect
<1> QED BY <1>1, <1>2, <1>3

\* The repository stores well-formed quads, and the request is gone.
LEMMA ServeKeeps == ASSUME WritingInv, NEW r \in wire, Writing!Serve(r) PROVE WritingInv'
<1>1. /\ store' = Writing!Effect(r) /\ wire' = wire \ {r} /\ statement' = statement
      /\ described' = described /\ setters' = setters /\ requests' = requests
  BY DEF Writing!Serve
<1>2. RequestOK(r)
  BY DEF WritingInv
<1>3. Writing!Placed(r) \subseteq Writing!Quads
  BY <1>2 DEF RequestOK, Writing!Placed, Writing!Body, Writing!Quads
<1>4. store' \subseteq Writing!Quads
  BY <1>1, <1>2, <1>3, EffectOfRequest DEF RequestOK, WritingInv
<1>5. StatementInv' /\ \A q \in wire' : RequestOK(q)'
  BY <1>1 DEF WritingInv, StatementInv, Writing!ObjectTerm, RequestOK, Writing!Promised
<1> QED BY <1>1, <1>4, <1>5 DEF WritingInv

\* Setters, calls and the repository keep the invariant of writing.
LEMMA WritingNext == WritingInv /\ [Writing!Next]_(Writing!vars) => WritingInv'
<1> SUFFICES ASSUME WritingInv, [Writing!Next]_(Writing!vars) PROVE WritingInv'
  OBVIOUS
<1>1. CASE Writing!Setter
  <2>1. /\ setters' = setters + 1 /\ setters < MaxSetters /\ wire' = wire /\ store' = store
        /\ requests' = requests
    BY <1>1 DEF Writing!Setter
  <2>2. StatementInv'
    BY <1>1, SetterKeepsStatement DEF WritingInv
  <2>3. \A r \in wire' : RequestOK(r)'
    BY <2>1 DEF WritingInv, RequestOK, Writing!Promised
  <2> QED BY <2>1, <2>2, <2>3, WritingAssumption DEF WritingInv, Writing!ConstantsOK
<1>2. CASE Writing!Add
  BY <1>2, AddKeeps
<1>3. ASSUME NEW quads \in Batches, NEW context \in SUBSET Graphs,
             \/ Writing!AddQuads(quads, context)
             \/ Writing!PutQuads(quads, context)
             \/ Writing!Upload(quads, context)
      PROVE  WritingInv'
  <2>1. quads \subseteq Writing!Quads
    BY WritingAssumption DEF Writing!ConstantsOK
  <2>2. CASE Writing!AddQuads(quads, context)
    BY <2>1, <2>2, PlainRequestKeeps DEF Writing!AddQuads, Writing!InsertMethod
  <2>3. CASE Writing!PutQuads(quads, context)
    BY <2>1, <2>3, PlainRequestKeeps DEF Writing!PutQuads, Writing!InsertMethod
  <2>4. CASE Writing!Upload(quads, context)
    <3>1. PICK operation \in {"upload", "overwrite"} :
            Writing!SendRequest(Writing!NewRequest(operation, "put", quads, context))
      BY <2>4 DEF Writing!Upload
    <3> QED BY <2>1, <3>1, PlainRequestKeeps
  <2> QED BY <1>3, <2>2, <2>3, <2>4
<1>4. ASSUME NEW context \in SUBSET Graphs, Writing!DeleteStatements(context) PROVE WritingInv'
  BY <1>4, PlainRequestKeeps DEF Writing!DeleteStatements
<1>5. ASSUME NEW r \in wire, Writing!Serve(r) PROVE WritingInv'
  BY <1>5, ServeKeeps
<1>6. CASE UNCHANGED Writing!vars
  BY <1>6 DEF Writing!vars, WritingInv, StatementInv, Writing!ObjectTerm, RequestOK,
              Writing!Promised
<1> QED BY <1>1, <1>2, <1>3, <1>4, <1>5, <1>6 DEF Writing!Next

\* The invariant of writing includes the types of its variables.
LEMMA WritingTyped == WritingInv => Writing!TypeOK
BY DEF WritingInv, StatementInv, StatementRecords, RequestOK, Writing!TypeOK

\* A request leaves the wire only when the repository handles it.
LEMMA HandledIsServed ==
    ASSUME [Writing!Next]_(Writing!vars), NEW r \in wire, Writing!Handled(r)
    PROVE  Writing!Serve(r)
BY DEF Writing!Next, Writing!vars, Writing!Handled, Writing!Setter, Writing!Add,
       Writing!AddQuads, Writing!PutQuads, Writing!Upload, Writing!DeleteStatements,
       Writing!SendRequest, Writing!Serve

\* The step that handles an add stores what its request promised.
LEMMA AddedStep ==
    ASSUME WritingInv, [Writing!Next]_(Writing!vars), NEW r \in wire, Writing!Handled(r),
           Describes(r.described)
    PROVE  store' = store \cup Writing!Promised(r)
<1>1. Writing!Serve(r) /\ RequestOK(r)
  BY HandledIsServed DEF WritingInv
<1>2. /\ r.method = "post" /\ r.quads = Writing!Promised(r) /\ r.context = r.restriction
  BY <1>1 DEF RequestOK
<1>3. store' = store \cup Writing!Placed(r)
  BY <1>1, <1>2, EffectOfRequest DEF Writing!Serve
<1>4. Writing!Placed(r) = Writing!Promised(r)
  <2>1. CASE r.context = {}
    BY <1>2, <2>1 DEF Writing!Placed, Writing!Body
  <2>2. CASE r.context # {}
    <3>1. Writing!GraphsOf(r.restriction) = r.context
      BY <1>2, <2>2 DEF Writing!GraphsOf
    <3>2. Writing!Promised(r) = {[object |-> o, graph |-> g] :
                                   o \in r.described.objects, g \in r.context}
      BY <3>1 DEF Writing!Promised
    <3>3. Writing!Placed(r) = {[q EXCEPT !.graph = g] : q \in Writing!Promised(r), g \in r.context}
      BY <1>2, <2>2 DEF Writing!Placed, Writing!Body
    <3>4. ASSUME NEW o, NEW g, NEW h
          PROVE  [[object |-> o, graph |-> g] EXCEPT !.graph = h] = [object |-> o, graph |-> h]
      OBVIOUS
    <3>5. ASSUME NEW x \in Writing!Placed(r) PROVE x \in Writing!Promised(r)
      BY <3>2, <3>3, <3>4
    <3>6. ASSUME NEW x \in Writing!Promised(r) PROVE x \in Writing!Placed(r)
      <4>1. PICK o \in r.described.objects, g \in r.context : x = [object |-> o, graph |-> g]
        BY <3>2
      <4>2. x = [x EXCEPT !.graph = g]
        BY <4>1
      <4> QED BY <3>3, <4>1, <4>2
    <3> QED BY <3>5, <3>6
  <2> QED BY <2>1, <2>2
<1> QED BY <1>3, <1>4

\* The step that handles a request with contexts leaves every other graph alone.
LEMMA RestrictedStep ==
    ASSUME WritingInv, [Writing!Next]_(Writing!vars), NEW r \in wire, Writing!Handled(r),
           r.restriction # {}, NEW g, g \notin r.restriction
    PROVE  {q \in store' : q.graph = g} = {q \in store : q.graph = g}
<1>1. Writing!Serve(r) /\ RequestOK(r)
  BY HandledIsServed DEF WritingInv
<1>2. r.context = r.restriction /\ r.method \in {"post", "put", "delete"}
      /\ r.quads \subseteq Writing!Quads
  BY <1>1 DEF RequestOK
<1>3. \A q \in Writing!Placed(r) : q.graph # g
  BY <1>2 DEF Writing!Placed, Writing!Body, Writing!Quads
<1>4. \A q : q.graph = g => ~Writing!InContext(q, r.context)
  BY <1>2 DEF Writing!InContext
<1>5. store' = Writing!Effect(r)
  BY <1>1 DEF Writing!Serve
<1> QED BY <1>2, <1>3, <1>4, <1>5, EffectOfRequest

\* The step that handles an add removes nothing.
LEMMA OnlyAddsStep ==
    WritingInv /\ [Writing!Next]_(Writing!vars) => Writing!OnlyAdds({"add", "addQuads"})
<1> SUFFICES ASSUME WritingInv, [Writing!Next]_(Writing!vars), NEW r \in wire,
                    Writing!Handled(r), r.operation \in {"add", "addQuads"}
             PROVE  store \subseteq store'
  BY DEF Writing!OnlyAdds
<1>1. Writing!Serve(r) /\ RequestOK(r)
  BY HandledIsServed DEF WritingInv
<1> QED BY <1>1, EffectOfRequest DEF RequestOK, Writing!Serve

(***************************************************************************)
(* Matching: Terms                                                         *)
(***************************************************************************)

Calls == {"none", "add", "get", "deleteStatements", "getSize", "deleteAllStatements"}

\* The arguments of a call are texts.
AreTexts(s, p, o, c) ==
    /\ Matching!IsText(s) /\ Matching!IsText(p) /\ Matching!IsText(o)
    /\ \A t \in c : Matching!IsText(t)

\* What is in the repository can be parsed.
MatchingInv ==
    /\ \A s \in statements : Matching!Parsed(s)
    /\ last.op \in Calls
    /\ last.found \subseteq statements
    /\ conversions \in 0..MaxConversions

\* At first the repository holds statements that can be parsed.
LEMMA MatchingInit == Matching!Init => MatchingInv
BY MatchingAssumption
   DEF Matching!Init, MatchingInv, Matching!Parsed, Matching!ConstantsOK, Matching!NoCall, Calls

\* A text matches the terms that it denotes: converted to N-Triples, it is empty or equal
\* to them.  That is not so of blank nodes.
LEMMA ConvertedMatches ==
    ASSUME NEW text, Matching!IsText(text), text.form # "blank",
           NEW term, term.form # "mangled"
    PROVE  LET value == Matching!ToNTripleValue(text) IN
           /\ (value.form = "empty" \/ term = value) <=> Matching!Denotes(text, term)
           /\ text.form # "empty" => (term = value <=> Matching!Denotes(text, term))
           /\ value.form = "empty" <=> text.form = "empty"
<1> DEFINE value == Matching!ToNTripleValue(text)
<1>1. CASE text.form = "empty"
  BY <1>1 DEF Matching!ToNTripleValue, Matching!Denotes
<1>2. CASE text.form = "literal"
  BY <1>2 DEF Matching!ToNTripleValue, Matching!Denotes
<1>3. CASE text.form = "encoded"
  <2>1. value = text /\ (Matching!Denotes(text, term) <=> term = text)
    BY <1>3 DEF Matching!ToNTripleValue, Matching!Denotes, Matching!IsText
  <2> QED BY <1>3, <2>1
<1>4. CASE text.form = "iri"
  <2>1. /\ value = [form |-> "encoded", name |-> text.name]
        /\ Matching!Denotes(text, term) <=> term = [form |-> "encoded", name |-> text.name]
    BY <1>4 DEF Matching!ToNTripleValue, Matching!Bracketed, Matching!Denotes
  <2> QED BY <1>4, <2>1
<1>5. CASE text.form = "variable"
  <2>1. value.form = "mangled" /\ ~Matching!Denotes(text, term)
    BY <1>5 DEF Matching!ToNTripleValue, Matching!Bracketed, Matching!Denotes
  <2> QED BY <1>5, <2>1
<1> QED BY <1>1, <1>2, <1>3, <1>4, <1>5 DEF Matching!IsText, Matching!Forms

\* The graphs that converted contexts match.
LEMMA ContextsMatch ==
    ASSUME NEW contexts, \A c \in contexts : Matching!IsText(c) /\ c.form # "blank",
           NEW graph, graph.form # "mangled"
    PROVE  LET values == Matching!ToNTripleValues(contexts) IN
           (values = {} \/ graph \in values) <=>
           ((\A c \in contexts : c.form = "empty")
              \/ \E c \in contexts : c.form # "empty" /\ Matching!Denotes(c, graph))
<1> DEFINE values == Matching!ToNTripleValues(contexts)
<1>1. values = {Matching!ToNTripleValue(t) : t \in {u \in contexts : u.form # "empty"}}
  BY DEF Matching!ToNTripleValues
<1>2. values = {} <=> \A c \in contexts : c.form = "empty"
  BY <1>1
<1>3. graph \in values <=>
        \E c \in contexts : c.form # "empty" /\ graph = Matching!ToNTripleValue(c)
  BY <1>1
<1>4. \A c \in contexts : c.form # "empty" =>
        (graph = Matching!ToNTripleValue(c) <=> Matching!Denotes(c, graph))
  BY ConvertedMatches
<1> QED BY <1>2, <1>3, <1>4

\* What is selected with converted texts is what they denote.
LEMMA FilteredIsDenoted ==
    ASSUME MatchingInv, NEW k, Matching!IsText(k.subject), Matching!IsText(k.predicate),
           Matching!IsText(k.object), \A c \in k.contexts : Matching!IsText(c),
           Matching!WithoutBlanks(k)
    PROVE  Matching!Filtered(k.subject, k.predicate, k.object, k.contexts) = Matching!Denoted(k)
<1> SUFFICES ASSUME NEW s \in statements
             PROVE  s \in Matching!Filtered(k.subject, k.predicate, k.object, k.contexts)
                      <=> s \in Matching!Denoted(k)
  BY DEF Matching!Filtered, Matching!Selected, Matching!Denoted
<1>1. /\ s.subject.form # "mangled" /\ s.predicate.form # "mangled"
      /\ s.object.form # "mangled" /\ s.graph.form # "mangled"
  BY DEF MatchingInv, Matching!Parsed, Matching!Default
<1> USE DEF Matching!WithoutBlanks
<1>2. LET value == Matching!ToNTripleValue(k.subject) IN
      (value.form = "empty" \/ s.subject = value) <=> Matching!Denotes(k.subject, s.subject)
  BY <1>1, ConvertedMatches
<1>3. LET value == Matching!ToNTripleValue(k.predicate) IN
      (value.form = "empty" \/ s.predicate = value) <=> Matching!Denotes(k.predicate, s.predicate)
  BY <1>1, ConvertedMatches
<1>4. LET value == Matching!ToNTripleValue(k.object) IN
      (value.form = "empty" \/ s.object = value) <=> Matching!Denotes(k.object, s.object)
  BY <1>1, ConvertedMatches
<1>5. LET values == Matching!ToNTripleValues(k.contexts) IN
      (values = {} \/ s.graph \in values) <=>
      ((\A c \in k.contexts : c.form = "empty")
         \/ \E c \in k.contexts : c.form # "empty" /\ Matching!Denotes(c, s.graph))
  BY <1>1, ContextsMatch
<1> QED BY <1>2, <1>3, <1>4, <1>5
        DEF Matching!Filtered, Matching!Selected, Matching!Denoted

\* An empty text is converted to itself.
LEMMA DefaultIsText ==
    /\ Matching!IsText(Matching!Default)
    /\ Matching!ToNTripleValue(Matching!Default) = Matching!Default
BY DEF Matching!IsText, Matching!Forms, Matching!Default, Matching!ToNTripleValue

\* What an add stores can be parsed, because its contexts were converted to the graphs of its
\* quads.
LEMMA StoredIsParsed ==
    ASSUME NEW s, NEW p, NEW o, NEW c, AreTexts(s, p, o, c),
           \A t \in c : t.form # "empty",
           \A q \in Matching!ToQuads(s, p, o, c) : Matching!Parsed(q),
           NEW r \in Matching!Stored(Matching!ToQuads(s, p, o, c), Matching!ToNTripleValues(c))
    PROVE  Matching!Parsed(r)
<1> DEFINE quads == Matching!ToQuads(s, p, o, c)
           quad(g) == [subject |-> Matching!ToTerm(s), predicate |-> Matching!ToPredicate(p),
                       object |-> Matching!ToObject(o), graph |-> g]
<1>1. CASE c = {}
  <2>1. Matching!ToNTripleValues(c) = {}
    BY <1>1 DEF Matching!ToNTripleValues
  <2> QED BY <2>1 DEF Matching!Stored
<1>2. CASE c # {}
  <2>1. quads = {quad(Matching!ToTerm(t)) : t \in c}
    BY <1>2 DEF Matching!ToQuads
  <2>2. ASSUME NEW t \in c
        PROVE  t.form = "iri" /\ Matching!ToNTripleValue(t) = Matching!ToTerm(t)
    <3>1. Matching!Parsed(quad(Matching!ToTerm(t)))
      BY <2>1
    <3>2. Matching!ToTerm(t).form = "encoded" \/ Matching!ToTerm(t) = Matching!Default
      BY <3>1 DEF Matching!Parsed
    <3>3. Matching!ToTerm(t).form = "encoded"
      BY <3>2 DEF Matching!Default, Matching!ToTerm, Matching!Bracketed
    <3>4. t.form = "iri"
      BY <3>3 DEF Matching!ToTerm, Matching!Bracketed
    <3> QED BY <3>4 DEF Matching!ToTerm, Matching!ToNTripleValue
  <2>3. Matching!ToNTripleValues(c) = {Matching!ToTerm(t) : t \in c}
    BY <2>2 DEF Matching!ToNTripleValues
  <2>4. Matching!ToNTripleValues(c) # {}
    BY <1>2, <2>3
  <2>5. PICK q \in quads, t \in c : r = [q EXCEPT !.graph = Matching!ToTerm(t)]
    BY <2>3, <2>4 DEF Matching!Stored
  <2>6. PICK u \in c : q = quad(Matching!ToTerm(u))
    BY <2>1, <2>5
  <2>7. r = quad(Matching!ToTerm(t))
    BY <2>5, <2>6
  <2> QED BY <2>1, <2>7
<1> QED BY <1>1, <1>2

\* What is added can be parsed again, since a request with anything else fails.
LEMMA AddKeepsParsed ==
    ASSUME MatchingInv, NEW s, NEW p, NEW o, NEW c, AreTexts(s, p, o, c),
           Matching!Add(s, p, o, c)
    PROVE  MatchingInv'
<1> DEFINE quads == Matching!ToQuads(s, p, o, c)
<1>1. \A r \in statements' : Matching!Parsed(r)
  <2>1. \A t \in c : t.form # "empty"
    BY DEF Matching!Add
  <2>2. CASE \A q \in quads : Matching!Parsed(q)
    <3>1. statements' = statements \cup Matching!Stored(quads, Matching!ToNTripleValues(c))
      BY <2>2 DEF Matching!Add
    <3> QED BY <2>1, <2>2, <3>1, StoredIsParsed DEF MatchingInv
  <2>3. CASE ~\A q \in quads : Matching!Parsed(q)
    BY <2>3 DEF Matching!Add, MatchingInv
  <2> QED BY <2>2, <2>3
<1>2. last'.op = "add" /\ last'.found = {} /\ conversions' \in 0..MaxConversions
  BY MatchingAssumption DEF Matching!Add, Matching!Call, MatchingInv, Matching!ConstantsOK
<1> QED BY <1>1, <1>2 DEF MatchingInv, Matching!Parsed, Calls

\* Adding, reading and deleting keep the invariant of matching.
LEMMA MatchingNext == MatchingInv /\ [Matching!Next]_(Matching!vars) => MatchingInv'
<1> SUFFICES ASSUME MatchingInv, [Matching!Next]_(Matching!vars) PROVE MatchingInv'
  OBVIOUS
<1> USE MatchingAssumption DEF Matching!ConstantsOK
<1>1. ASSUME NEW s \in Subjects, NEW p \in Predicates, NEW o \in Objects, NEW c \in ContextLists,
             Matching!Add(s, p, o, c)
      PROVE  MatchingInv'
  <2>1. AreTexts(s, p, o, c)
    BY DEF AreTexts
  <2> QED BY <1>1, <2>1, AddKeepsParsed
<1>2. ASSUME NEW s, NEW p, NEW o, NEW c,
             Matching!Get(s, p, o, c) \/ Matching!DeleteStatements(s, p, o, c)
      PROVE  MatchingInv'
  BY <1>2 DEF Matching!Get, Matching!DeleteStatements, Matching!Call, Matching!Filtered,
              Matching!Selected, MatchingInv, Matching!Parsed, Calls
<1>3. ASSUME NEW c, Matching!GetSize(c) PROVE MatchingInv'
  BY <1>3 DEF Matching!GetSize, Matching!Call, Matching!Selected, MatchingInv, Matching!Parsed,
              Calls
<1>4. CASE Matching!DeleteAllStatements
  BY <1>4 DEF Matching!DeleteAllStatements, Matching!Call, MatchingInv, Matching!Parsed, Calls
<1>5. CASE UNCHANGED Matching!vars
  BY <1>5 DEF Matching!vars, MatchingInv, Matching!Parsed
<1> QED BY <1>1, <1>2, <1>3, <1>4, <1>5 DEF Matching!Next

\* The invariant of matching includes the types of its variables.
LEMMA MatchingTyped == MatchingInv => Matching!TypeOK
BY DEF MatchingInv, Matching!TypeOK, Matching!Parsed, Calls

\* A call that looks for statements is about those its texts denote.
Matched ==
    /\ last'.op \in {"get", "getSize"} /\ Matching!WithoutBlanks(last')
          => last'.found = Matching!Denoted(last')
    /\ last'.op = "deleteStatements" /\ Matching!WithoutBlanks(last')
          => statements' = statements \ Matching!Denoted(last')

\* A statement added under plain texts is there under the same ones.
AddedUnder(k) ==
    \A c \in k.contexts \cup (IF k.contexts = {} THEN {Matching!Default} ELSE {}) :
        \E s \in statements' :
            /\ Matching!Denotes(k.subject, s.subject)
            /\ Matching!Denotes(k.predicate, s.predicate)
            /\ Matching!Denotes(k.object, s.object)
            /\ Matching!Denotes(c, s.graph)

PlainTexts(k) ==
    /\ \A t \in {k.subject, k.predicate} \cup k.contexts : t.form = "iri"
    /\ k.object.form \in {"iri", "literal"}

\* Reading and deleting find what the texts denote.
LEMMA LookedForStep ==
    ASSUME MatchingInv, NEW s, NEW p, NEW o, NEW c, AreTexts(s, p, o, c),
           Matching!Get(s, p, o, c) \/ Matching!DeleteStatements(s, p, o, c)
    PROVE  Matched /\ last'.op # "add"
<1>1. /\ last'.subject = s /\ last'.predicate = p /\ last'.object = o /\ last'.contexts = c
  BY DEF Matching!Get, Matching!DeleteStatements, Matching!Call
<1>2. Matching!WithoutBlanks(last') => Matching!Filtered(s, p, o, c) = Matching!Denoted(last')
  BY <1>1, FilteredIsDenoted DEF AreTexts
<1>3. CASE Matching!Get(s, p, o, c)
  BY <1>2, <1>3 DEF Matching!Get, Matching!Call, Matched
<1>4. CASE Matching!DeleteStatements(s, p, o, c)
  BY <1>2, <1>4 DEF Matching!DeleteStatements, Matching!Call, Matched
<1> QED BY <1>3, <1>4

\* Counting finds what the contexts denote.
LEMMA CountedStep ==
    ASSUME MatchingInv, NEW c, \A t \in c : Matching!IsText(t), Matching!GetSize(c)
    PROVE  Matched /\ last'.op # "add"
<1> DEFINE d == Matching!Default
<1>1. /\ last'.subject = d /\ last'.predicate = d /\ last'.object = d /\ last'.contexts = c
      /\ last'.op = "getSize"
      /\ last'.found = Matching!Selected(d, d, d, Matching!ToNTripleValues(c))
  BY DEF Matching!GetSize, Matching!Call
<1>2. Matching!WithoutBlanks(last') => Matching!Filtered(d, d, d, c) = Matching!Denoted(last')
  BY <1>1, FilteredIsDenoted, DefaultIsText
<1>3. Matching!Filtered(d, d, d, c) = Matching!Selected(d, d, d, Matching!ToNTripleValues(c))
  BY DefaultIsText DEF Matching!Filtered
<1> QED BY <1>1, <1>2, <1>3 DEF Matched

\* An add under plain texts leaves a statement that they denote, in each of the contexts.
LEMMA AddedUnderStep ==
    ASSUME NEW s, NEW p, NEW o, NEW c, AreTexts(s, p, o, c), Matching!Add(s, p, o, c),
           PlainTexts(last')
    PROVE  AddedUnder(last')
<1>1. /\ last'.subject = s /\ last'.predicate = p /\ last'.object = o /\ last'.contexts = c
  BY DEF Matching!Add, Matching!Call
<1> DEFINE quads == Matching!ToQuads(s, p, o, c)
           term(t) == [form |-> "encoded", name |-> t.name]
           object == IF o.form = "literal" THEN o ELSE term(o)
           quad(g) == [subject |-> term(s), predicate |-> term(p), object |-> object,
                       graph |-> g]
<1>2. /\ \A t \in {s, p} \cup c : t.form = "iri" /\ Matching!ToTerm(t) = term(t)
                                 /\ Matching!ToNTripleValue(t) = term(t)
      /\ Matching!ToPredicate(p) = term(p)
  BY <1>1 DEF PlainTexts, Matching!ToTerm, Matching!ToNTripleValue, Matching!ToPredicate,
              Matching!Bracketed
<1>3. Matching!ToObject(o) = object /\ o.form \in {"iri", "literal"}
  BY <1>1 DEF PlainTexts, Matching!ToObject, Matching!ToTerm, Matching!Bracketed
<1>4. quads = {quad(g) : g \in IF c = {} THEN {Matching!Default} ELSE {term(t) : t \in c}}
  BY <1>2, <1>3 DEF Matching!ToQuads
<1>5. ASSUME NEW g, NEW x, x = quad(g)
      PROVE  x.subject = term(s) /\ x.predicate = term(p) /\ x.object = object /\ x.graph = g
  BY <1>5
<1>6. object.form \in {"encoded", "literal"}
  BY <1>3
<1>7. ASSUME NEW q \in quads PROVE Matching!Parsed(q)
  <2>1. PICK g \in IF c = {} THEN {Matching!Default} ELSE {term(t) : t \in c} : q = quad(g)
    BY <1>4
  <2>2. g = Matching!Default \/ g.form = "encoded"
    OBVIOUS
  <2>3. term(s).form = "encoded" /\ term(p).form = "encoded"
    OBVIOUS
  <2> QED BY <1>5, <1>6, <2>1, <2>2, <2>3 DEF Matching!Parsed
<1>8. statements' = statements \cup Matching!Stored(quads, Matching!ToNTripleValues(c))
  BY <1>7 DEF Matching!Add
<1>9. Matching!ToNTripleValues(c) = {term(t) : t \in c}
  BY <1>2 DEF Matching!ToNTripleValues
<1>10. ASSUME NEW g, NEW x, x = quad(g)
       PROVE  /\ Matching!Denotes(s, x.subject)
              /\ Matching!Denotes(p, x.predicate)
              /\ Matching!Denotes(o, x.object)
  BY <1>2, <1>3, <1>5, <1>10 DEF Matching!Denotes
<1>11. CASE c = {}
  <2> DEFINE x == quad(Matching!Default)
  <2>1. x \in statements'
    BY <1>4, <1>8, <1>9, <1>11 DEF Matching!Stored
  <2>2. Matching!Denotes(Matching!Default, x.graph)
    BY DEF Matching!Denotes, Matching!Default
  <2>3. /\ Matching!Denotes(s, x.subject) /\ Matching!Denotes(p, x.predicate)
        /\ Matching!Denotes(o, x.object)
    BY <1>10
  <2> QED BY <1>1, <1>11, <2>1, <2>2, <2>3 DEF AddedUnder
<1>12. CASE c # {}
  <2> SUFFICES ASSUME NEW t \in c
               PROVE  \E x \in statements' :
                        /\ Matching!Denotes(s, x.subject)
                        /\ Matching!Denotes(p, x.predicate)
                        /\ Matching!Denotes(o, x.object)
                        /\ Matching!Denotes(t, x.graph)
    BY <1>1, <1>12 DEF AddedUnder
  <2> DEFINE x == quad(term(t))
  <2>1. x \in quads
    BY <1>4, <1>12
  <2> DEFINE y == [x EXCEPT !.graph = term(t)]
  <2>2. y = x
    OBVIOUS
  <2>3. y \in Matching!Stored(quads, Matching!ToNTripleValues(c))
    BY <1>9, <1>12, <2>1 DEF Matching!Stored
  <2>4. x \in statements'
    BY <1>8, <2>2, <2>3
  <2>5. Matching!Denotes(t, x.graph)
    BY <1>2 DEF Matching!Denotes
  <2>6. /\ Matching!Denotes(s, x.subject) /\ Matching!Denotes(p, x.predicate)
        /\ Matching!Denotes(o, x.object)
    BY <1>10
  <2> QED BY <2>4, <2>5, <2>6
<1> QED BY <1>11, <1>12

\* All the calls together.
LEMMA MatchingStep ==
    ASSUME MatchingInv, Matching!Next
    PROVE  Matched /\ (last'.op = "add" /\ PlainTexts(last') => AddedUnder(last'))
<1>1. \A t \in Subjects \cup Predicates \cup Objects \cup UNION ContextLists : Matching!IsText(t)
  BY MatchingAssumption DEF Matching!ConstantsOK
<1>2. ASSUME NEW s \in Subjects, NEW p \in Predicates, NEW o \in Objects, NEW c \in ContextLists
      PROVE  AreTexts(s, p, o, c)
  BY <1>1 DEF AreTexts
<1>3. ASSUME NEW s \in Subjects, NEW p \in Predicates, NEW o \in Objects, NEW c \in ContextLists,
             Matching!Add(s, p, o, c)
      PROVE  Matched /\ (PlainTexts(last') => AddedUnder(last'))
  <2>1. last'.op = "add"
    BY <1>3 DEF Matching!Add, Matching!Call
  <2> QED BY <1>2, <1>3, <2>1, AddedUnderStep DEF Matched
<1>4. ASSUME NEW s \in Subjects, NEW p \in Predicates, NEW o \in Objects, NEW c \in ContextLists,
             Matching!Get(s, p, o, c) \/ Matching!DeleteStatements(s, p, o, c)
      PROVE  Matched /\ last'.op # "add"
  BY <1>2, <1>4, LookedForStep
<1>5. ASSUME NEW c \in ContextLists, Matching!GetSize(c) PROVE Matched /\ last'.op # "add"
  BY <1>1, <1>5, CountedStep
<1>6. CASE Matching!DeleteAllStatements
  <2>1. last'.op = "deleteAllStatements"
    BY <1>6 DEF Matching!DeleteAllStatements, Matching!Call
  <2> QED BY <2>1 DEF Matched
<1> QED BY <1>3, <1>4, <1>5, <1>6 DEF Matching!Next

(***************************************************************************)
(* Asking: Requests                                                        *)
(***************************************************************************)

ValuesOfParams == {{}} \cup UNION {ParamValues[n] : n \in QueryParams \cup UpdateParams}

PreparedRecords ==
    [text : Texts \cup {Asking!Unset},
     type : UNION {Asking!ContentTypes(o) : o \in Asking!Payloads},
     params : [Asking!Params -> ValuesOfParams]]

\* A payload has only parameters of its class, and no action.
PreparedInv ==
    /\ prepared \in [Asking!Payloads -> PreparedRecords]
    /\ \A o \in Asking!Payloads :
        /\ prepared[o].type \in Asking!ContentTypes(o)
        /\ \A n \in Asking!Params \ Asking!ParamsOf(o) : prepared[o].params[n] = {}

AllOperations == Asking!PlainOperations \cup {"query", "update"}

IsRequest(r) ==
    r = [operation |-> r.operation, client |-> r.client, method |-> r.method, path |-> r.path,
         type |-> r.type, params |-> r.params, arrays |-> r.arrays, form |-> r.form,
         text |-> r.text]

\* What has been made: a transactional request has the action of its operation, which no
\* array can be in the place of.
IsMade(m) ==
    /\ m = [request |-> m.request, of |-> m.of, received |-> m.received, edited |-> m.edited,
            asked |-> m.asked]
    /\ IsRequest(m.request)
    /\ m.of \in Asking!Payloads \cup {Asking!Unset}
    /\ m.request.client \in {"repository", "transaction"}
    /\ m.request.method \in {"get", "post", "put"}
    /\ m.request.text \in Texts \cup {Asking!Unset}
    /\ m.request.client = "transaction" =>
          m.request.params = Asking!AddParam(m.request.params, "action",
                                             Asking!Action(m.asked.operation))
    /\ DOMAIN m.request.arrays \subseteq Asking!Params \ {"action"}
    /\ m.asked.operation \in AllOperations
    /\ m.edited \subseteq Asking!Params

\* The server takes r for what m was made for, but for the arrays that were edited.
MeantBy(m, r) ==
    /\ Asking!Understood(r).operation = Asking!Meaning(m.asked.operation)
    /\ Asking!Understood(r).text = m.asked.text
    /\ Asking!Others(Asking!Understood(r).params, m) = Asking!Others(m.asked.params, m)

\* That is so of what has been received, and of what would be if it were sent now.
MadeOK(m) ==
    /\ IsMade(m)
    /\ ~Asking!ArrayInForm(m) /\ ~Asking!UploadOutside(m) =>
          /\ MeantBy(m, Asking!InUrl(m.request))
          /\ \A r \in m.received : MeantBy(m, r)

AskingInv ==
    /\ PreparedInv
    /\ arrays \in [ArrayObjects -> ArrayContents]
    /\ \A m \in made : MadeOK(m)
    /\ changes \in 0..MaxChanges

\* The operations that have no payload object.
LEMMA PlainOperationsAre ==
    Asking!PlainOperations = {"getSize", "get", "download", "add", "addQuads", "upload", "addFile"}
BY DEF Asking!PlainOperations, Asking!Plain

\* The fields of a form are not names of parameters, and the action is none of a payload.
LEMMA ParamNames ==
    ASSUME NEW o
    PROVE  /\ Asking!ParamsOf(o) \subseteq Asking!Params \ {"action", "query", "update"}
           /\ "action" \in Asking!Params
           /\ {"query", "update"} \cap Asking!Params = {}
BY AskingAssumption DEF Asking!ConstantsOK, Asking!ParamsOf, Asking!Params

\* At first nothing is prepared and no request made.
LEMMA AskingInit == Asking!Init => AskingInv
<1> SUFFICES ASSUME Asking!Init PROVE AskingInv
  OBVIOUS
<1>1. \A o \in Asking!Payloads : prepared[o].type \in Asking!ContentTypes(o)
  BY DEF Asking!Init, Asking!ContentTypes
<1>2. prepared \in [Asking!Payloads -> PreparedRecords]
  BY DEF Asking!Init, Asking!ContentTypes, PreparedRecords, ValuesOfParams
<1> QED BY <1>1, <1>2, AskingAssumption DEF Asking!Init, AskingInv, PreparedInv, Asking!ConstantsOK

(***************************************************************************)
(* What the server makes of a request                                      *)
(***************************************************************************)

\* The action of a transactional request names the operation.
LEMMA ActionUnderstood ==
    ASSUME NEW r, NEW pairs, NEW operation \in AllOperations, r.client = "transaction",
           r.params = Asking!AddParam(pairs, "action", Asking!Action(operation))
    PROVE  Asking!OperationOf(r) = Asking!Meaning(operation)
<1> DEFINE action == Asking!Action(operation)
           named(a) == [name |-> "action", value |-> {a}] \in r.params
<1>1. action \in DOMAIN Asking!ActionMeans /\ Asking!ActionMeans[action] = Asking!Meaning(operation)
  <2>1. DOMAIN Asking!ActionMeans = {"SIZE", "GET", "QUERY", "UPDATE", "ADD"}
    BY DEF Asking!ActionMeans
  <2>2. CASE operation = "getSize"
    BY <2>1, <2>2 DEF Asking!Action, Asking!Meaning, Asking!ActionMeans
  <2>3. CASE operation \in {"get", "download"}
    BY <2>1, <2>3 DEF Asking!Action, Asking!Meaning, Asking!ActionMeans
  <2>4. CASE operation = "query"
    BY <2>1, <2>4 DEF Asking!Action, Asking!Meaning, Asking!ActionMeans
  <2>5. CASE operation = "update"
    BY <2>1, <2>5 DEF Asking!Action, Asking!Meaning, Asking!ActionMeans
  <2>6. CASE operation \in {"add", "addQuads", "upload", "addFile"}
    BY <2>1, <2>6 DEF Asking!Action, Asking!Meaning, Asking!ActionMeans
  <2> QED BY <2>2, <2>3, <2>4, <2>5, <2>6, PlainOperationsAre DEF AllOperations
<1> HIDE DEF action
<1>2. r.params = {pair \in pairs : pair.name # "action"}
                    \cup {[name |-> "action", value |-> {action}]}
  BY DEF Asking!AddParam, action
<1>3. named(action)
  BY <1>2
<1>4. ASSUME NEW a, named(a) PROVE a = action
  <2>1. [name |-> "action", value |-> {a}].name = "action"
    OBVIOUS
  <2>2. [name |-> "action", value |-> {a}] = [name |-> "action", value |-> {action}]
    BY <1>2, <1>4, <2>1
  <2>3. {a} = {action}
    BY <2>2
  <2> QED BY <2>3
<1> DEFINE chosen == CHOOSE a \in DOMAIN Asking!ActionMeans : named(a)
<1>5. named(chosen)
  BY <1>1, <1>3
<1>6. chosen = action
  BY <1>4, <1>5
<1>7. Asking!OperationOf(r) = Asking!ActionMeans[chosen]
  BY DEF Asking!OperationOf
<1> QED BY <1>1, <1>6, <1>7

\* The parameters of a payload in the URL are those that it was given, all of them.
LEMMA RepeatedParams ==
    ASSUME PreparedInv, NEW o \in Asking!Payloads
    PROVE  LET given == Asking!Repeated([n \in Asking!ParamsOf(o) |-> prepared[o].params[n]]) IN
           /\ Asking!Repeated(prepared[o].params) = given
           /\ \A pair \in given : pair.name \notin {"action", "query", "update"}
<1> DEFINE params == prepared[o].params
           own == [n \in Asking!ParamsOf(o) |-> params[n]]
           pairsOf(n) == {[name |-> n, value |-> {v}] : v \in Asking!Strings(params[n])}
<1>1. DOMAIN params = Asking!Params /\ DOMAIN own = Asking!ParamsOf(o)
  BY DEF PreparedInv, PreparedRecords
<1>2. \A n \in Asking!Params \ Asking!ParamsOf(o) : pairsOf(n) = {}
  <2> SUFFICES ASSUME NEW n \in Asking!Params \ Asking!ParamsOf(o) PROVE pairsOf(n) = {}
    OBVIOUS
  <2>1. params[n] = {}
    BY DEF PreparedInv
  <2>2. {} \notin ArrayObjects
    BY AskingAssumption DEF Asking!ConstantsOK
  <2>3. Asking!Strings(params[n]) = {}
    <3> HIDE DEF params
    <3> QED BY <2>1, <2>2 DEF Asking!Strings
  <2> QED BY <2>3
<1>3. Asking!Repeated(params) = UNION {pairsOf(n) : n \in Asking!Params}
  BY <1>1 DEF Asking!Repeated
<1>4. Asking!Repeated(own) = UNION {pairsOf(n) : n \in Asking!ParamsOf(o)}
  BY <1>1 DEF Asking!Repeated
<1>5. \A pair \in Asking!Repeated(own) : pair.name \in Asking!ParamsOf(o)
  BY <1>4
<1>6. Asking!Repeated(params) = Asking!Repeated(own)
  BY <1>2, <1>3, <1>4, ParamNames
<1> QED BY <1>5, <1>6, ParamNames

\* The references to arrays and the other values make up the parameters.
LEMMA SplitParams ==
    ASSUME NEW params
    PROVE  Asking!Repeated(Asking!ValuesOf(params)) \cup Asking!Repeated(Asking!ArraysOf(params))
              = Asking!Repeated(params)
<1> DEFINE pairsOf(n) == {[name |-> n, value |-> {v}] : v \in Asking!Strings(params[n])}
           names == Asking!NamesOfArrays(params)
<1>1. names \subseteq DOMAIN params
  BY DEF Asking!NamesOfArrays
<1>2. Asking!Repeated(params) = UNION {pairsOf(n) : n \in DOMAIN params}
  BY DEF Asking!Repeated
<1>3. Asking!Repeated(Asking!ArraysOf(params)) = UNION {pairsOf(n) : n \in names}
  BY DEF Asking!Repeated, Asking!ArraysOf
<1>4. Asking!Repeated(Asking!ValuesOf(params)) = UNION {pairsOf(n) : n \in DOMAIN params \ names}
  BY DEF Asking!Repeated, Asking!ValuesOf
<1> HIDE DEF names, pairsOf
<1> QED BY <1>1, <1>2, <1>3, <1>4

\* In a form the parameters are the same, unless one of them is an array.
LEMMA SerializedParams ==
    ASSUME NEW params,
           \A pair \in Asking!Serialized(params) : \E v \in pair.value : pair.value = {v}
    PROVE  Asking!Serialized(params) = Asking!Repeated(params)
<1> DEFINE strings(n) == Asking!Strings(params[n])
<1>1. Asking!Repeated(params) =
        UNION {{[name |-> n, value |-> {v}] : v \in strings(n)} : n \in DOMAIN params}
  BY DEF Asking!Repeated
<1>2. Asking!Serialized(params) =
        {[name |-> n, value |-> strings(n)] : n \in {m \in DOMAIN params : params[m] # {}}}
  BY DEF Asking!Serialized
<1>3. \A n \in DOMAIN params : params[n] = {} => strings(n) = {}
  BY AskingAssumption DEF Asking!Strings, Asking!ConstantsOK
<1> HIDE DEF strings
<1>4. ASSUME NEW n \in DOMAIN params, params[n] # {} PROVE \E v \in strings(n) : strings(n) = {v}
  <2> DEFINE x == [name |-> n, value |-> strings(n)]
  <2>1. x \in Asking!Serialized(params) /\ x.value = strings(n)
    BY <1>2, <1>4
  <2> HIDE DEF x
  <2> QED BY <2>1
<1>5. ASSUME NEW x \in Asking!Serialized(params) PROVE x \in Asking!Repeated(params)
  <2>1. PICK n \in DOMAIN params : params[n] # {} /\ x = [name |-> n, value |-> strings(n)]
    BY <1>2
  <2>2. PICK v \in strings(n) : strings(n) = {v}
    BY <1>4, <2>1
  <2>3. x \in {[name |-> n, value |-> {w}] : w \in strings(n)}
    BY <2>1, <2>2
  <2> QED BY <1>1, <2>3
<1>6. ASSUME NEW x \in Asking!Repeated(params) PROVE x \in Asking!Serialized(params)
  <2>1. PICK n \in DOMAIN params : x \in {[name |-> n, value |-> {v}] : v \in strings(n)}
    BY <1>1
  <2>2. PICK v \in strings(n) : x = [name |-> n, value |-> {v}]
    BY <2>1
  <2>3. params[n] # {}
    BY <1>3, <2>2
  <2>4. strings(n) = {v}
    BY <1>4, <2>3
  <2> QED BY <1>2, <2>2, <2>3, <2>4
<1> QED BY <1>5, <1>6

\* A request that is sent has the arrays in its URL, and is the same otherwise.
LEMMA UrlFields ==
    ASSUME NEW r, IsRequest(r)
    PROVE  /\ Asking!InUrl(r).client = r.client /\ Asking!InUrl(r).method = r.method
           /\ Asking!InUrl(r).path = r.path /\ Asking!InUrl(r).type = r.type
           /\ Asking!InUrl(r).form = r.form /\ Asking!InUrl(r).text = r.text
           /\ Asking!InUrl(r).params = r.params \cup Asking!Repeated(r.arrays)
BY DEF IsRequest, Asking!InUrl

\* What a form says of a query and its parameters.
LEMMA FormUnderstood ==
    ASSUME NEW pairs, NEW field, NEW text \in Texts, NEW form,
           form = Asking!AddParam(pairs, field, text),
           \A pair \in pairs : pair.name # field
    PROVE  /\ (CHOOSE t \in Texts : [name |-> field, value |-> {t}] \in form) = text
           /\ {pair \in form : pair.name # field} = pairs
<1> DEFINE given(t) == [name |-> field, value |-> {t}] \in form
<1>1. form = pairs \cup {[name |-> field, value |-> {text}]}
  BY DEF Asking!AddParam
<1>2. given(text)
  BY <1>1
<1>3. ASSUME NEW t, given(t) PROVE t = text
  <2>1. [name |-> field, value |-> {t}].name = field
    OBVIOUS
  <2>2. [name |-> field, value |-> {t}] = [name |-> field, value |-> {text}]
    BY <1>1, <1>3, <2>1
  <2>3. {t} = {text}
    BY <2>2
  <2> QED BY <2>3
<1> DEFINE chosen == CHOOSE t \in Texts : given(t)
<1>4. given(chosen)
  BY <1>2
<1>5. chosen = text
  BY <1>3, <1>4
<1>6. {pair \in form : pair.name # field} = pairs
  BY <1>1
<1> QED BY <1>5, <1>6

\* What the server is to make of a request that is new: nothing was edited yet.
LEMMA NewIsMade ==
    ASSUME NEW m, IsMade(m), m.received = {}, m.edited = {},
           ~Asking!ArrayInForm(m) /\ ~Asking!UploadOutside(m) =>
              /\ Asking!Understood(Asking!InUrl(m.request)).operation
                    = Asking!Meaning(m.asked.operation)
              /\ Asking!Understood(Asking!InUrl(m.request)).text = m.asked.text
              /\ Asking!Understood(Asking!InUrl(m.request)).params = m.asked.params
    PROVE  MadeOK(m)
BY DEF MadeOK, MeantBy

\* The requests of query and update.
LEMMA QueryMade ==
    ASSUME PreparedInv, NEW o \in Asking!Payloads, NEW client \in {"repository", "transaction"},
           prepared[o].text # Asking!Unset
    PROVE  MadeOK(Asking!Made(Asking!QueryRequest(o), client, o,
                              [n \in Asking!ParamsOf(o) |-> prepared[o].params[n]]))
<1> DEFINE p == prepared[o]
           field == Asking!QueryField(o)
           given == Asking!Repeated([n \in Asking!ParamsOf(o) |-> p.params[n]])
           q == Asking!QueryRequest(o)
           m == Asking!Made(q, client, o, [n \in Asking!ParamsOf(o) |-> p.params[n]])
           r == m.request
           u == Asking!InUrl(r)
           form == Asking!AddParam(Asking!Serialized(p.params), field, p.text)
           params == IF p.type = Asking!Form THEN {} ELSE Asking!Repeated(Asking!ValuesOf(p.params))
           refs == IF p.type = Asking!Form THEN Asking!NoArrays ELSE Asking!ArraysOf(p.params)
           path == IF o \in QueryObjects THEN "" ELSE "/statements"
<1> SUFFICES MadeOK(m)
  OBVIOUS
<1>1. /\ p \in PreparedRecords /\ p.type \in Asking!ContentTypes(o) /\ p.text \in Texts
      /\ p.params \in [Asking!Params -> ValuesOfParams] /\ p.params["action"] = {}
  BY ParamNames DEF PreparedInv, PreparedRecords
<1>2. /\ Asking!Repeated(p.params) = given
      /\ \A pair \in given : pair.name \notin {"action", "query", "update"}
  BY RepeatedParams
<1>3. field \in {"query", "update"} /\ Asking!Meaning(field) = field
      /\ (field = "query" <=> o \in QueryObjects)
  BY DEF Asking!QueryField, Asking!Meaning
<1>4. q = [operation |-> field, client |-> "repository", method |-> "post", path |-> path,
           type |-> p.type, params |-> params, arrays |-> refs,
           form |-> IF p.type = Asking!Form THEN form ELSE {},
           text |-> IF p.type = Asking!Form THEN Asking!Unset ELSE p.text]
  BY DEF Asking!QueryRequest, Asking!NewRequest
<1>5. /\ p.type # Asking!Form => params \cup Asking!Repeated(refs) = given
      /\ p.type = Asking!Form => params \cup Asking!Repeated(refs) = {}
  <2>1. CASE p.type = Asking!Form
    BY <2>1 DEF Asking!Repeated, Asking!NoArrays
  <2>2. CASE p.type # Asking!Form
    <3> DEFINE own == p.params
    <3>1. Asking!Repeated(Asking!ValuesOf(own)) \cup Asking!Repeated(Asking!ArraysOf(own))
            = Asking!Repeated(own)
      <4> HIDE DEF own
      <4> QED BY SplitParams
    <3> QED BY <1>2, <2>2, <3>1
  <2> QED BY <2>1, <2>2
<1>6. DOMAIN refs \subseteq Asking!Params \ {"action"}
  <2>1. {} \notin ArrayObjects
    BY AskingAssumption DEF Asking!ConstantsOK
  <2>2. Asking!NamesOfArrays(p.params) \subseteq Asking!Params \ {"action"}
    BY <1>1, <2>1 DEF Asking!NamesOfArrays
  <2> QED BY <2>2 DEF Asking!ArraysOf, Asking!NoArrays
<1>7. /\ m = [request |-> r, of |-> o, received |-> {}, edited |-> {},
              asked |-> [operation |-> field, text |-> p.text, params |-> given]]
      /\ client = "repository" => r = q
      /\ client = "transaction" => r = Asking!Decorated(q)
  <2>1. q.operation = field
    <3> HIDE DEF q, field, form, params, refs, path
    <3> QED BY <1>4
  <2> HIDE DEF q, field, p
  <2> QED BY <2>1 DEF Asking!Made, p
<1> HIDE DEF field, given, q, form, params, refs, m, path
<1>8. /\ r = [operation |-> field, client |-> client,
              method |-> IF client = "transaction" THEN "put" ELSE "post",
              path |-> IF client = "transaction" THEN "" ELSE path, type |-> p.type,
              params |-> IF client = "transaction"
                         THEN Asking!AddParam(params, "action", Asking!Action(field))
                         ELSE params,
              arrays |-> refs,
              form |-> IF p.type = Asking!Form THEN form ELSE {},
              text |-> IF p.type = Asking!Form THEN Asking!Unset ELSE p.text]
  <2>1. CASE client = "repository"
    BY <1>4, <1>7, <2>1
  <2>2. CASE client = "transaction"
    BY <1>4, <1>7, <2>2 DEF Asking!Decorated
  <2> QED BY <2>1, <2>2
<1>9. /\ m.of = o /\ m.received = {} /\ m.edited = {}
      /\ m.asked = [operation |-> field, text |-> p.text, params |-> given]
      /\ m.asked.operation = field /\ m.asked.text = p.text /\ m.asked.params = given
  BY <1>7
<1>10. /\ r.client = client /\ r.type = p.type
       /\ r.method = (IF client = "transaction" THEN "put" ELSE "post")
       /\ r.path = (IF client = "transaction" THEN "" ELSE path)
       /\ r.params = (IF client = "transaction"
                      THEN Asking!AddParam(params, "action", Asking!Action(field)) ELSE params)
       /\ r.arrays = refs
       /\ r.form = (IF p.type = Asking!Form THEN form ELSE {})
       /\ r.text = (IF p.type = Asking!Form THEN Asking!Unset ELSE p.text)
  <2> HIDE DEF r, p
  <2> QED BY <1>8
<1>11. IsMade(m)
  <2>1. IsRequest(r)
    BY <1>8, <1>10 DEF IsRequest
  <2>2. client = "transaction" =>
          r.params = Asking!AddParam(r.params, "action", Asking!Action(field))
    BY <1>10 DEF Asking!AddParam
  <2>3. m = [request |-> m.request, of |-> m.of, received |-> m.received, edited |-> m.edited,
             asked |-> m.asked]
    BY <1>7, <1>9
  <2>4. field \in AllOperations
    BY <1>3 DEF AllOperations
  <2> QED BY <1>1, <1>6, <1>9, <1>10, <2>1, <2>2, <2>3, <2>4 DEF IsMade
<1> DEFINE all == params \cup Asking!Repeated(refs)
<1>12. /\ u.client = client /\ u.type = p.type /\ u.method = r.method /\ u.path = r.path
       /\ u.form = r.form /\ u.text = r.text
       /\ u.params = r.params \cup Asking!Repeated(refs)
  BY <1>10, <1>11, UrlFields DEF IsMade
<1>13. \A pair \in all : pair.name \notin {"action", "query", "update"}
  BY <1>2, <1>5
<1>14. /\ client = "repository" => u.params = all
       /\ client = "transaction" =>
             u.params = Asking!AddParam(all, "action", Asking!Action(field))
  BY <1>10, <1>12, <1>13 DEF Asking!AddParam
<1> HIDE DEF r, u, all
<1>15. Asking!OperationOf(u) = field
  <2>1. CASE client = "transaction"
    BY <1>3, <1>12, <1>14, <2>1, ActionUnderstood DEF AllOperations
  <2>2. CASE client = "repository"
    <3>1. u.path = path /\ u.method = "post"
      BY <1>10, <1>12, <2>2
    <3>2. CASE o \in QueryObjects
      BY <1>3, <1>12, <2>2, <3>1, <3>2 DEF Asking!OperationOf, path
    <3>3. CASE o \notin QueryObjects
      <4>1. u.type # "application/trig"
        BY <1>1, <1>12, <3>3 DEF Asking!ContentTypes, Asking!Form
      <4> QED BY <1>3, <1>12, <2>2, <3>1, <3>3, <4>1 DEF Asking!OperationOf, path
    <3> QED BY <3>2, <3>3
  <2> QED BY <2>1, <2>2
<1> DEFINE protocol == IF client = "transaction" THEN {"action"} ELSE {}
<1>16. CASE p.type # Asking!Form
  <2>1. {pair \in u.params : pair.name \notin protocol} = given
    <3>1. all = given
      BY <1>5, <1>16 DEF all
    <3>2. CASE client = "repository"
      BY <1>14, <3>1, <3>2
    <3>3. CASE client = "transaction"
      BY <1>2, <1>14, <3>1, <3>3 DEF Asking!AddParam
    <3> QED BY <3>2, <3>3
  <2>2. Asking!Understood(u)
          = [operation |-> field, text |-> p.text,
             params |-> {pair \in u.params : pair.name \notin protocol}]
    BY <1>10, <1>12, <1>15, <1>16 DEF Asking!Understood
  <2>3. /\ Asking!Understood(u).operation = Asking!Meaning(m.asked.operation)
        /\ Asking!Understood(u).text = m.asked.text
        /\ Asking!Understood(u).params = m.asked.params
    BY <1>3, <1>9, <2>1, <2>2
  <2> QED BY <1>9, <1>11, <2>3, NewIsMade DEF u, r
<1>17. CASE p.type = Asking!Form /\ ~Asking!ArrayInForm(m)
  <2>1. \A pair \in form : \E v \in pair.value : pair.value = {v}
    BY <1>10, <1>17 DEF Asking!ArrayInForm, r
  <2>2. \A pair \in Asking!Serialized(p.params) : pair.name # field
    <3>1. ASSUME NEW pair \in Asking!Serialized(p.params) PROVE pair.name \in Asking!Params
      BY <1>1, <3>1 DEF Asking!Serialized
    <3> QED BY <1>3, <3>1, ParamNames
  <2>3. \A pair \in Asking!Serialized(p.params) : pair \in form
    BY <2>2 DEF form, Asking!AddParam
  <2>4. Asking!Serialized(p.params) = given
    <3> DEFINE own == p.params
    <3>1. \A pair \in Asking!Serialized(own) : \E v \in pair.value : pair.value = {v}
      BY <2>1, <2>3
    <3>2. Asking!Serialized(own) = Asking!Repeated(own)
      <4> HIDE DEF own
      <4> QED BY <3>1, SerializedParams
    <3> QED BY <1>2, <3>2
  <2>5. /\ (CHOOSE t \in Texts : [name |-> field, value |-> {t}] \in form) = p.text
        /\ {pair \in form : pair.name # field} = given
    <3> DEFINE text == p.text
    <3>1. form = Asking!AddParam(given, field, p.text)
      BY <2>4 DEF form
    <3>2. \A pair \in given : pair.name # field
      BY <1>2, <1>3
    <3>3. text \in Texts /\ form = Asking!AddParam(given, field, text)
      BY <1>1, <3>1
    <3> HIDE DEF text
    <3>4. /\ (CHOOSE t \in Texts : [name |-> field, value |-> {t}] \in form) = text
          /\ {pair \in form : pair.name # field} = given
      BY <3>2, <3>3, FormUnderstood
    <3> QED BY <3>4 DEF text
  <2>6. {pair \in form : pair.name \notin protocol \cup {field}} = given
    BY <1>2, <2>5
  <2>7. Asking!Understood(u)
          = [operation |-> field,
             text |-> CHOOSE t \in Texts : [name |-> field, value |-> {t}] \in form,
             params |-> {pair \in form : pair.name \notin protocol \cup {field}}]
    BY <1>10, <1>12, <1>15, <1>17 DEF Asking!Understood
  <2>8. /\ Asking!Understood(u).operation = Asking!Meaning(m.asked.operation)
        /\ Asking!Understood(u).text = m.asked.text
        /\ Asking!Understood(u).params = m.asked.params
    BY <1>3, <1>9, <2>5, <2>6, <2>7
  <2> QED BY <1>9, <1>11, <2>8, NewIsMade DEF u, r
<1>18. CASE Asking!ArrayInForm(m)
  BY <1>9, <1>11, <1>18, NewIsMade
<1> QED BY <1>16, <1>17, <1>18

\* The requests of the other operations.
LEMMA PlainMade ==
    ASSUME NEW operation \in Asking!PlainOperations, NEW context,
           NEW client \in {"repository", "transaction"}
    PROVE  MadeOK(Asking!Made(Asking!PlainRequest(operation, context), client, Asking!Unset,
                              [n \in {"context"} |-> context]))
<1> DEFINE line == Asking!Plain[operation]
           given == Asking!Repeated([n \in {"context"} |-> context])
           q == Asking!PlainRequest(operation, context)
           m == Asking!Made(q, client, Asking!Unset, [n \in {"context"} |-> context])
           r == m.request
           u == Asking!InUrl(r)
           params == IF client = "transaction"
                     THEN Asking!AddParam(given, "action", Asking!Action(operation)) ELSE given
<1> SUFFICES MadeOK(m)
  OBVIOUS
<1>1. q = [operation |-> operation, client |-> "repository", method |-> line.method,
           path |-> line.path, type |-> line.type, params |-> given,
           arrays |-> Asking!NoArrays, form |-> {}, text |-> Asking!Unset]
  BY DEF Asking!PlainRequest, Asking!NewRequest
<1>2. /\ line.method \in {"get", "post", "put"}
      /\ line.type \in {Asking!Unset, "application/trig"} /\ line.type # Asking!Form
  BY PlainOperationsAre DEF Asking!Plain, Asking!Unset, Asking!Form
<1>3. \A pair \in given : pair.name = "context"
  BY DEF Asking!Repeated
<1>4. /\ m = [request |-> r, of |-> Asking!Unset, received |-> {}, edited |-> {},
              asked |-> [operation |-> operation, text |-> Asking!Unset, params |-> given]]
      /\ client = "repository" => r = q
      /\ client = "transaction" => r = Asking!Decorated(q)
  <2>1. q.operation = operation
    BY <1>1
  <2>2. Asking!Unset \notin Asking!Payloads
    BY AskingAssumption DEF Asking!ConstantsOK
  <2> HIDE DEF q
  <2> QED BY <2>1, <2>2 DEF Asking!Made
<1> HIDE DEF q, given, m, params
<1>5. r = [operation |-> operation, client |-> client,
           method |-> IF client = "transaction" THEN "put" ELSE line.method,
           path |-> IF client = "transaction" THEN "" ELSE line.path, type |-> line.type,
           params |-> params, arrays |-> Asking!NoArrays, form |-> {}, text |-> Asking!Unset]
  <2>1. CASE client = "repository"
    BY <1>1, <1>4, <2>1 DEF params
  <2>2. CASE client = "transaction"
    BY <1>1, <1>4, <2>2 DEF Asking!Decorated, params
  <2> QED BY <2>1, <2>2
<1>6. /\ m.of = Asking!Unset /\ m.received = {} /\ m.edited = {}
      /\ m.asked.operation = operation /\ m.asked.text = Asking!Unset /\ m.asked.params = given
  BY <1>4
<1> HIDE DEF line
<1>7. /\ r.client = client /\ r.type = line.type /\ r.operation = operation
      /\ r.method = (IF client = "transaction" THEN "put" ELSE line.method)
      /\ r.path = (IF client = "transaction" THEN "" ELSE line.path)
      /\ r.params = params /\ r.arrays = Asking!NoArrays /\ r.form = {}
      /\ r.text = Asking!Unset
  <2> HIDE DEF r
  <2> QED BY <1>5
<1>8. IsMade(m)
  <2>1. IsRequest(r)
    BY <1>5, <1>7 DEF IsRequest
  <2>2. client = "transaction" =>
          r.params = Asking!AddParam(r.params, "action", Asking!Action(operation))
    BY <1>7 DEF Asking!AddParam, params
  <2>3. m = [request |-> m.request, of |-> m.of, received |-> m.received, edited |-> m.edited,
             asked |-> m.asked]
    BY <1>4, <1>6
  <2>4. DOMAIN r.arrays = {}
    BY <1>7 DEF Asking!NoArrays
  <2> QED BY <1>2, <1>6, <1>7, <2>1, <2>2, <2>3, <2>4 DEF IsMade, AllOperations
<1>9. /\ u.client = client /\ u.type = line.type /\ u.method = r.method /\ u.path = r.path
      /\ u.form = {} /\ u.text = Asking!Unset /\ u.params = params
  <2>1. Asking!Repeated(r.arrays) = {}
    BY <1>7 DEF Asking!Repeated, Asking!NoArrays
  <2>2. IsRequest(r)
    BY <1>8 DEF IsMade
  <2> HIDE DEF r
  <2>3. /\ u.client = r.client /\ u.method = r.method /\ u.path = r.path
        /\ u.type = r.type /\ u.form = r.form /\ u.text = r.text
        /\ u.params = r.params \cup Asking!Repeated(r.arrays)
    BY <2>2, UrlFields
  <2> HIDE DEF u
  <2> QED BY <1>7, <2>1, <2>3
<1> HIDE DEF u
<1>10. ~Asking!UploadOutside(m) => Asking!OperationOf(u) = Asking!Meaning(operation)
  <2>1. CASE client = "transaction"
    BY <1>9, <2>1, ActionUnderstood DEF AllOperations, params
  <2>2. CASE client = "repository" /\ operation \notin {"upload", "addFile"}
    <3>1. u.path = line.path /\ u.method = line.method
      BY <1>7, <1>9, <2>2
    <3>2. CASE operation = "getSize"
      <4>1. line.path = "/size"
        BY <3>2 DEF Asking!Plain, line
      <4> QED BY <1>9, <2>2, <3>1, <3>2, <4>1 DEF Asking!OperationOf, Asking!Meaning
    <3>3. CASE operation \in {"get", "download"}
      <4>1. line.path = "/statements" /\ line.method = "get"
        BY <3>3 DEF Asking!Plain, line
      <4> QED BY <1>9, <2>2, <3>1, <3>3, <4>1 DEF Asking!OperationOf, Asking!Meaning
    <3>4. CASE operation \in {"add", "addQuads"}
      <4>1. line.path = "/statements" /\ line.method = "post" /\ line.type = "application/trig"
        BY <3>4 DEF Asking!Plain, line
      <4> QED BY <1>9, <2>2, <3>1, <3>4, <4>1 DEF Asking!OperationOf, Asking!Meaning
    <3> QED BY <2>2, <3>2, <3>3, <3>4, PlainOperationsAre
  <2>3. CASE client = "repository" /\ operation \in {"upload", "addFile"}
    BY <1>6, <1>7, <2>3 DEF Asking!UploadOutside
  <2> QED BY <2>1, <2>2, <2>3
<1> DEFINE protocol == IF client = "transaction" THEN {"action"} ELSE {}
<1>11. {pair \in u.params : pair.name \notin protocol} = given
  <2>1. CASE client = "repository"
    BY <1>9, <2>1 DEF params
  <2>2. CASE client = "transaction"
    BY <1>3, <1>9, <2>2 DEF Asking!AddParam, params
  <2> QED BY <2>1, <2>2
<1>12. Asking!Understood(u)
        = [operation |-> Asking!OperationOf(u), text |-> Asking!Unset,
           params |-> {pair \in u.params : pair.name \notin protocol}]
  BY <1>2, <1>9 DEF Asking!Understood
<1>13. ~Asking!UploadOutside(m) =>
        /\ Asking!Understood(u).operation = Asking!Meaning(m.asked.operation)
        /\ Asking!Understood(u).text = m.asked.text
        /\ Asking!Understood(u).params = m.asked.params
  BY <1>6, <1>10, <1>11, <1>12
<1> QED BY <1>6, <1>8, <1>13, NewIsMade DEF u

(***************************************************************************)
(* Sending, and arrays that are edited                                     *)
(***************************************************************************)

\* A request made is sent with what the arrays hold now.
LEMMA SameArrays ==
    ASSUME UNCHANGED arrays, NEW m
    PROVE  MadeOK(m)' <=> MadeOK(m)
BY DEF MadeOK, Asking!InUrl, Asking!Repeated, Asking!Strings

\* Sending keeps what is known of a request.
LEMMA SentMade ==
    ASSUME NEW m, MadeOK(m)
    PROVE  MadeOK([m EXCEPT !.received = @ \cup {Asking!InUrl(Asking!Sent(m))}])
<1> DEFINE e == [m EXCEPT !.received = @ \cup {Asking!InUrl(Asking!Sent(m))}]
<1>1. /\ e = [request |-> m.request, of |-> m.of,
              received |-> m.received \cup {Asking!InUrl(m.request)}, edited |-> m.edited,
              asked |-> m.asked]
      /\ IsMade(m)
  BY DEF MadeOK, IsMade, Asking!Sent
<1> HIDE DEF e
<1>2. /\ e.request = m.request /\ e.of = m.of /\ e.edited = m.edited /\ e.asked = m.asked
      /\ e.received = m.received \cup {Asking!InUrl(m.request)}
  BY <1>1
<1>3. IsMade(e)
  BY <1>1, <1>2 DEF IsMade
<1>4. \A r : MeantBy(m, r) => MeantBy(e, r)
  BY <1>2 DEF MeantBy, Asking!Others
<1>5. /\ Asking!ArrayInForm(e) <=> Asking!ArrayInForm(m)
      /\ Asking!UploadOutside(e) <=> Asking!UploadOutside(m)
  BY <1>2 DEF Asking!ArrayInForm, Asking!UploadOutside
<1>6. MadeOK(e)
  BY <1>2, <1>3, <1>4, <1>5 DEF MadeOK
<1> QED BY <1>6 DEF e

\* Two requests that differ only in what arrays hold that were edited mean the same.
LEMMA SameButForEdited ==
    ASSUME NEW m, IsMade(m), NEW u, NEW w, MeantBy(m, u),
           w.client = u.client, w.method = u.method, w.path = u.path, w.type = u.type,
           w.form = u.form, w.text = u.text,
           u.client = "transaction" => Asking!OperationOf(w) = Asking!OperationOf(u),
           {pair \in w.params : pair.name \notin m.edited}
              = {pair \in u.params : pair.name \notin m.edited}
    PROVE  MeantBy(m, w)
<1>1. Asking!OperationOf(w) = Asking!OperationOf(u)
  <2>1. CASE u.client # "transaction"
    <3> DEFINE meaning(path, method, type) ==
                 CASE path = ""                                    -> "query"
                   [] path = "/size"                               -> "getSize"
                   [] path = "/statements" /\ method = "get"       -> "get"
                   [] path = "/statements" /\ method = "put"       -> "replace"
                   [] path = "/statements" /\ method = "post"      ->
                        IF type = "application/trig" THEN "add" ELSE "update"
    <3>1. /\ Asking!OperationOf(u) = meaning(u.path, u.method, u.type)
          /\ Asking!OperationOf(w) = meaning(w.path, w.method, w.type)
      BY <2>1 DEF Asking!OperationOf
    <3> HIDE DEF meaning
    <3> QED BY <3>1
  <2> QED BY <2>1
<1> DEFINE operation == Asking!OperationOf(u)
           protocol == IF u.client = "transaction" THEN {"action"} ELSE {}
           field == IF u.type = Asking!Form THEN {operation} ELSE {}
           pairs(r) == IF u.type = Asking!Form THEN u.form ELSE r.params
           text == IF u.type = Asking!Form
                   THEN CHOOSE t \in Texts : [name |-> operation, value |-> {t}] \in u.form
                   ELSE u.text
           params(r) == {pair \in pairs(r) : pair.name \notin protocol \cup field}
<1>2. Asking!Understood(u) = [operation |-> operation, text |-> text, params |-> params(u)]
  BY DEF Asking!Understood
<1>3. Asking!Understood(w) = [operation |-> operation, text |-> text, params |-> params(w)]
  BY <1>1 DEF Asking!Understood
<1> HIDE DEF operation, text
<1>4. Asking!Others(params(w), m) = Asking!Others(params(u), m)
  BY DEF Asking!Others
<1> QED BY <1>2, <1>3, <1>4 DEF MeantBy

\* When an array is edited, a request that refers to it is known to.
LEMMA EditKeeps ==
    ASSUME NEW a, NEW content, arrays' = [arrays EXCEPT ![a] = content], NEW m, MadeOK(m)
    PROVE  MadeOK([m EXCEPT !.edited = @ \cup {n \in DOMAIN m.request.arrays :
                                                 m.request.arrays[n] = a}])'
<1> DEFINE r == m.request
           names == {n \in DOMAIN r.arrays : r.arrays[n] = a}
           e == [m EXCEPT !.edited = @ \cup names]
           u == Asking!InUrl(r)
           w == Asking!InUrl(r)'
<1>1. /\ e = [request |-> r, of |-> m.of, received |-> m.received,
              edited |-> m.edited \cup names, asked |-> m.asked]
      /\ IsMade(m) /\ IsRequest(r)
  BY DEF MadeOK, IsMade
<1> HIDE DEF e
<1>2. /\ e.request = r /\ e.of = m.of /\ e.edited = m.edited \cup names
      /\ e.asked = m.asked /\ e.received = m.received
  BY <1>1
<1>3. names \subseteq Asking!Params \ {"action"}
  BY <1>1 DEF IsMade
<1>4. IsMade(e)
  BY <1>1, <1>2, <1>3 DEF IsMade
<1>5. \A s : MeantBy(m, s) => MeantBy(e, s)
  <2> SUFFICES ASSUME NEW s, MeantBy(m, s) PROVE MeantBy(e, s)
    OBVIOUS
  <2> DEFINE understood == Asking!Understood(s)
  <2>1. {pair \in understood.params : pair.name \notin m.edited}
          = {pair \in m.asked.params : pair.name \notin m.edited}
    BY DEF MeantBy, Asking!Others
  <2> HIDE DEF understood
  <2>2. {pair \in understood.params : pair.name \notin e.edited}
          = {pair \in m.asked.params : pair.name \notin e.edited}
    BY <1>2, <2>1
  <2> QED BY <1>2, <2>2 DEF MeantBy, Asking!Others, understood
<1>6. /\ Asking!ArrayInForm(e) <=> Asking!ArrayInForm(m)
      /\ Asking!UploadOutside(e) <=> Asking!UploadOutside(m)
  BY <1>2 DEF Asking!ArrayInForm, Asking!UploadOutside
<1>7. /\ u.client = r.client /\ u.method = r.method /\ u.path = r.path /\ u.type = r.type
      /\ u.form = r.form /\ u.text = r.text
      /\ u.params = r.params \cup Asking!Repeated(r.arrays)
  BY <1>1, UrlFields
<1>8. /\ w.client = r.client /\ w.method = r.method /\ w.path = r.path /\ w.type = r.type
      /\ w.form = r.form /\ w.text = r.text
      /\ w.params = r.params \cup Asking!Repeated(r.arrays)'
  BY <1>1 DEF IsRequest, Asking!InUrl
<1>9. \A pair \in Asking!Repeated(r.arrays) \cup Asking!Repeated(r.arrays)' :
        pair.name \in DOMAIN r.arrays
  BY DEF Asking!Repeated
<1>10. \A pair : pair.name \notin names =>
         (pair \in Asking!Repeated(r.arrays)' <=> pair \in Asking!Repeated(r.arrays))
  <2> DEFINE now(n) == {[name |-> n, value |-> {v}] : v \in Asking!Strings(r.arrays[n])}
             then(n) == {[name |-> n, value |-> {v}] : v \in Asking!Strings(r.arrays[n])'}
  <2>1. /\ Asking!Repeated(r.arrays) = UNION {now(n) : n \in DOMAIN r.arrays}
        /\ Asking!Repeated(r.arrays)' = UNION {then(n) : n \in DOMAIN r.arrays}
    BY DEF Asking!Repeated
  <2>2. ASSUME NEW n \in DOMAIN r.arrays \ names
        PROVE  Asking!Strings(r.arrays[n])' = Asking!Strings(r.arrays[n])
    BY <2>2 DEF Asking!Strings
  <2>3. \A n \in DOMAIN r.arrays \ names : then(n) = now(n)
    BY <2>2
  <2>4. \A n : \A pair \in now(n) \cup then(n) : pair.name = n
    OBVIOUS
  <2> HIDE DEF now, then, names, r
  <2> QED BY <2>1, <2>3, <2>4
<1>11. {pair \in w.params : pair.name \notin e.edited}
         = {pair \in u.params : pair.name \notin e.edited}
  <2> HIDE DEF names, u, w, r
  <2> QED BY <1>2, <1>7, <1>8, <1>10
<1> HIDE DEF names
<1>12. r.client = "transaction" =>
         \A s \in {u, w} :
            Asking!OperationOf(s) = Asking!Meaning(m.asked.operation)
  <2> SUFFICES ASSUME r.client = "transaction", NEW s, s.client = "transaction",
                      NEW pairs, s.params = r.params \cup pairs,
                      \A pair \in pairs : pair.name \in DOMAIN r.arrays
               PROVE  Asking!OperationOf(s) = Asking!Meaning(m.asked.operation)
    BY <1>7, <1>8, <1>9
  <2>1. "action" \notin DOMAIN r.arrays /\ m.asked.operation \in AllOperations
        /\ r.params = Asking!AddParam(r.params, "action", Asking!Action(m.asked.operation))
    BY <1>1 DEF IsMade
  <2>2. s.params = Asking!AddParam(s.params, "action", Asking!Action(m.asked.operation))
    BY <2>1 DEF Asking!AddParam
  <2> QED BY <2>1, <2>2, ActionUnderstood
<1>13. MeantBy(e, u) => MeantBy(e, w)
  <2> HIDE DEF u, w, r
  <2> QED BY <1>4, <1>7, <1>8, <1>11, <1>12, SameButForEdited
<1>14. MadeOK(e)'
  BY <1>2, <1>4, <1>5, <1>6, <1>13 DEF MadeOK
<1> QED BY <1>14 DEF e, names

\* A setter changes one field of a payload, and requests that were made stay as they are.
LEMMA ChangeKeeps ==
    ASSUME AskingInv, NEW o \in Asking!Payloads, NEW p \in PreparedRecords, Asking!Change(o, p),
           p.type \in Asking!ContentTypes(o),
           \A n \in Asking!Params \ Asking!ParamsOf(o) : p.params[n] = {}
    PROVE  AskingInv'
<1>1. /\ prepared' = [prepared EXCEPT ![o] = p] /\ made' = made /\ arrays' = arrays
      /\ changes' = changes + 1 /\ changes < MaxChanges
  BY DEF Asking!Change
<1>2. PreparedInv'
  BY <1>1 DEF AskingInv, PreparedInv
<1>3. \A m \in made' : MadeOK(m)'
  BY <1>1, SameArrays DEF AskingInv
<1> QED BY <1>1, <1>2, <1>3, AskingAssumption DEF AskingInv, Asking!ConstantsOK

\* Setters and calls keep the invariant of asking.
LEMMA AskingNext == AskingInv /\ [Asking!Next]_(Asking!vars) => AskingInv'
<1> SUFFICES ASSUME AskingInv, [Asking!Next]_(Asking!vars) PROVE AskingInv'
  OBVIOUS
<1>1. ASSUME NEW o \in Asking!Payloads
      PROVE  /\ prepared[o] \in PreparedRecords /\ prepared[o].type \in Asking!ContentTypes(o)
             /\ \A n \in Asking!Params \ Asking!ParamsOf(o) : prepared[o].params[n] = {}
  BY DEF AskingInv, PreparedInv
<1>2. ASSUME NEW o \in Asking!Payloads, NEW text \in Texts, Asking!SetQuery(o, text)
      PROVE  AskingInv'
  <2> DEFINE p == [prepared[o] EXCEPT !.text = text]
  <2>1. p \in PreparedRecords /\ p.type = prepared[o].type /\ p.params = prepared[o].params
    BY <1>1 DEF PreparedRecords
  <2> HIDE DEF p
  <2> QED BY <1>1, <1>2, <2>1, ChangeKeeps DEF Asking!SetQuery, p
<1>3. ASSUME NEW o \in Asking!Payloads, NEW type \in Asking!ContentTypes(o),
             Asking!SetContentType(o, type)
      PROVE  AskingInv'
  <2> DEFINE p == [prepared[o] EXCEPT !.type = type]
  <2>1. p \in PreparedRecords /\ p.type = type /\ p.params = prepared[o].params
    BY <1>1 DEF PreparedRecords
  <2> HIDE DEF p
  <2> QED BY <1>1, <1>3, <2>1, ChangeKeeps DEF Asking!SetContentType, p
<1>4. ASSUME NEW o \in Asking!Payloads, NEW name \in Asking!ParamsOf(o),
             NEW value \in ParamValues[name], Asking!SetParam(o, name, value)
      PROVE  AskingInv'
  <2> DEFINE p == [prepared[o] EXCEPT !.params[name] = value]
  <2>1. name \in QueryParams \cup UpdateParams /\ name \in Asking!Params
    BY ParamNames DEF Asking!ParamsOf
  <2>2. value \in ValuesOfParams
    BY <2>1 DEF ValuesOfParams
  <2>3. p.params = [prepared[o].params EXCEPT ![name] = value] /\ p.type = prepared[o].type
    BY <1>1 DEF PreparedRecords
  <2>4. p \in PreparedRecords
    BY <1>1, <2>1, <2>2 DEF PreparedRecords
  <2>5. \A n \in Asking!Params \ Asking!ParamsOf(o) : p.params[n] = prepared[o].params[n]
    BY <1>1, <2>3 DEF PreparedRecords
  <2> HIDE DEF p
  <2> QED BY <1>1, <1>4, <2>3, <2>4, <2>5, ChangeKeeps DEF Asking!SetParam, p
<1>5. ASSUME NEW client \in {"repository", "transaction"}, NEW o \in Asking!Payloads,
             Asking!Query(o, client)
      PROVE  AskingInv'
  <2> DEFINE m == Asking!Made(Asking!QueryRequest(o), client, o,
                              [n \in Asking!ParamsOf(o) |-> prepared[o].params[n]])
  <2>1. /\ made' = made \cup {m} /\ UNCHANGED <<prepared, arrays, changes>>
        /\ prepared[o].text # Asking!Unset
    BY <1>5 DEF Asking!Query, Asking!PayloadAfter
  <2>2. MadeOK(m)
    BY <2>1, QueryMade DEF AskingInv
  <2> HIDE DEF m
  <2>3. \A n \in made' : MadeOK(n)'
    BY <2>1, <2>2, SameArrays DEF AskingInv
  <2> QED BY <2>1, <2>3 DEF AskingInv, PreparedInv
<1>6. ASSUME NEW client \in {"repository", "transaction"},
             NEW operation \in Asking!PlainOperations, NEW context,
             Asking!Operate(operation, context, client)
      PROVE  AskingInv'
  <2> DEFINE m == Asking!Made(Asking!PlainRequest(operation, context), client, Asking!Unset,
                              [n \in {"context"} |-> context])
  <2>1. /\ made' = made \cup {m} /\ UNCHANGED <<prepared, arrays, changes>>
    BY <1>6 DEF Asking!Operate
  <2>2. MadeOK(m)
    BY PlainMade
  <2> HIDE DEF m
  <2>3. \A n \in made' : MadeOK(n)'
    BY <2>1, <2>2, SameArrays DEF AskingInv
  <2> QED BY <2>1, <2>3 DEF AskingInv, PreparedInv
<1>7. ASSUME NEW a \in ArrayObjects, NEW content \in ArrayContents, Asking!EditArray(a, content)
      PROVE  AskingInv'
  <2>1. /\ arrays' = [arrays EXCEPT ![a] = content] /\ UNCHANGED prepared
        /\ changes' = changes + 1 /\ changes < MaxChanges
    BY <1>7 DEF Asking!EditArray
  <2>2. \A e \in made' : MadeOK(e)'
    <3> SUFFICES ASSUME NEW e \in made' PROVE MadeOK(e)'
      OBVIOUS
    <3>1. PICK m \in made :
            e = [m EXCEPT !.edited = @ \cup {n \in DOMAIN m.request.arrays :
                                                m.request.arrays[n] = a}]
      BY <1>7 DEF Asking!EditArray
    <3>2. MadeOK(m)
      BY DEF AskingInv
    <3> QED BY <2>1, <3>1, <3>2, EditKeeps
  <2>3. changes' \in 0..MaxChanges
    BY <2>1, AskingAssumption DEF AskingInv, Asking!ConstantsOK
  <2>4. arrays' \in [ArrayObjects -> ArrayContents]
    BY <2>1 DEF AskingInv
  <2> QED BY <2>1, <2>2, <2>3, <2>4 DEF AskingInv, PreparedInv
<1>8. ASSUME NEW m \in made, Asking!Send(m) PROVE AskingInv'
  <2> DEFINE e == [m EXCEPT !.received = @ \cup {Asking!InUrl(Asking!Sent(m))}]
  <2>1. made' = (made \ {m}) \cup {e} /\ UNCHANGED <<prepared, arrays, changes>>
    BY <1>8 DEF Asking!Send
  <2>2. MadeOK(e)
    <3>1. MadeOK(m)
      BY DEF AskingInv
    <3> QED BY <3>1, SentMade
  <2> HIDE DEF e
  <2>3. \A n \in made' : MadeOK(n)'
    BY <2>1, <2>2, SameArrays DEF AskingInv
  <2> QED BY <2>1, <2>3 DEF AskingInv, PreparedInv
<1>9. CASE UNCHANGED Asking!vars
  <2>1. \A n \in made' : MadeOK(n)'
    BY <1>9, SameArrays DEF Asking!vars, AskingInv
  <2> QED BY <1>9, <2>1 DEF Asking!vars, AskingInv, PreparedInv
<1> QED BY <1>2, <1>3, <1>4, <1>5, <1>6, <1>7, <1>8, <1>9 DEF Asking!Next

\* The invariant of asking includes the types of its variables, and what is to be shown.
LEMMA AskingTyped == AskingInv => Asking!TypeOK /\ Asking!UnderstoodAsMeant
<1> SUFFICES ASSUME AskingInv PROVE Asking!TypeOK /\ Asking!UnderstoodAsMeant
  OBVIOUS
<1>1. Asking!UnderstoodAsMeant
  BY DEF AskingInv, MadeOK, MeantBy, Asking!UnderstoodAsMeant
<1>2. \A o \in Asking!Payloads : prepared[o].params["action"] = {}
  BY ParamNames DEF AskingInv, PreparedInv
<1>3. \A m \in made : IsMade(m)
  BY DEF AskingInv, MadeOK
<1> QED BY <1>1, <1>2, <1>3 DEF AskingInv, PreparedInv, PreparedRecords, ValuesOfParams, IsMade,
                                Asking!TypeOK

=============================================================================
