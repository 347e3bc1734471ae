----------------------------- MODULE Responses -----------------------------
(***************************************************************************)
(* How a repository client reads: RDFRepositoryClient.get and .query, the  *)
(* payload objects they take, and the parser registry of the client.       *)
(*                                                                         *)
(* A call fixes the request when it is made: the Accept header and whether *)
(* the response is to be a stream.  Which parser gets the response, and    *)
(* whether it is told that the query was an ASK, is read from the payload  *)
(* object and from the registry when the response arrives.  In between the *)
(* application may change the payload object, use it for other calls, and  *)
(* register parsers.                                                       *)
(*                                                                         *)
(* Login, failover and failure of the request are RepositoryClient's: here *)
(* a pending call receives its response.                                   *)
(***************************************************************************)

CONSTANTS
    Gets,            \* calls of StatementsService.get, each made once
    Queries,         \* calls of QueryService.query, each made once
    GetPayloads,     \* GetStatementsPayload objects
    QueryPayloads,   \* GetQueryPayload objects
    ResponseTypes,   \* the members of RDFMimeType the application asks for
    TypesOfQueries,  \* the types of queries it makes
    Parsers          \* the parsers it registers: [type, streaming] records

VARIABLES
    registry,   \* ParserRegistry.parsers
    payload,    \* the fields of every payload object
    call,       \* where each call stands, with its request or its result
    asked       \* history: what each call was asked for when it was made

vars == <<registry, payload, call, asked>>

Calls == Gets \cup Queries
Payloads == GetPayloads \cup QueryPayloads

RDFFormats ==
    {"RDF_XML", "N_TRIPLES", "TURTLE", "N3", "N_QUADS", "JSON_LD", "RDF_JSON",
     "TRIX", "TRIG", "BINARY_RDF", "TURTLE_STAR", "TRIG_STAR"}

AskResults == {"SPARQL_RESULTS_XML", "SPARQL_RESULTS_JSON", "BOOLEAN_RESULT"}

SelectResults ==
    AskResults \cup {"BINARY_RDF_RESULTS_TABLE", "SPARQL_STAR_RESULTS_JSON",
                     "SPARQL_STAR_RESULTS_TSV"}

RDFMimeType == RDFFormats \cup SelectResults

\* The response types validatePayload lets each type of query have.
AllowedFormats ==
    [SELECT |-> SelectResults, ASK |-> AskResults,
     DESCRIBE |-> RDFFormats, CONSTRUCT |-> RDFFormats]

QueryTypes == DOMAIN AllowedFormats

Unset == "unset"
NoParser == [type |-> Unset, streaming |-> FALSE]
Idle == [at |-> "idle"]
Thrown == [at |-> "thrown"]
NotAsked == [disturbed |-> FALSE]

\* What is assumed of the constants: gets and queries are different calls with payloads of
\* different classes, and types are members of the enumerations.
ConstantsOK ==
    /\ Gets \cap Queries = {}
    /\ GetPayloads \cap QueryPayloads = {}
    /\ ResponseTypes \subseteq RDFMimeType
    /\ TypesOfQueries \subseteq QueryTypes
    /\ Parsers \subseteq [type : RDFMimeType, streaming : BOOLEAN]

Data == [format : ResponseTypes \cup {"RDF_JSON"}, stream : BOOLEAN]

TypeOK ==
    /\ registry \in [RDFMimeType -> Parsers \cup {NoParser}]
    /\ payload \in [Payloads -> [responseType : RDFMimeType \cup {Unset},
                                 queryType : QueryTypes \cup {Unset},
                                 query : BOOLEAN]]
    /\ \A c \in Calls :
        \/ call[c] \in {Idle, Thrown}
        \/ call[c] \in [at : {"pending"}, payload : Payloads,
                        accept : RDFMimeType, stream : BOOLEAN]
        \/ call[c] \in [at : {"settled"}, parser : Parsers \cup {NoParser},
                        data : Data, ask : BOOLEAN]
    /\ \A c \in Calls :
        asked[c] = NotAsked <=> call[c] \in {Idle, Thrown}

(***************************************************************************)
(* Calls                                                                   *)
(***************************************************************************)

Valid(p) ==
    /\ payload[p].query
    /\ payload[p].queryType \in QueryTypes
    /\ payload[p].responseType \in AllowedFormats[payload[p].queryType]

\* Slip: get asks for a stream only if no parser wants one.
SwappedStreamForGet(type) ==
    registry[type] = NoParser \/ ~registry[type].streaming

\* get asks for a stream if the parser it finds when it is called reads streams.
StreamForGet(type) == registry[type].streaming

\* A request is built from the payload as it is, and keeps a reference to it.
SendRequest(c, p, stream) ==
    LET type == payload[p].responseType IN
    /\ call' = [call EXCEPT ![c] = [at |-> "pending", payload |-> p,
                                    accept |-> type, stream |-> stream]]
    /\ asked' = [asked EXCEPT ![c] = [queryType |-> payload[p].queryType,
                                      parser |-> registry[type],
                                      disturbed |-> FALSE]]
    /\ UNCHANGED <<registry, payload>>

Get(c, p) ==
    /\ call[c] = Idle
    /\ SendRequest(c, p, StreamForGet(payload[p].responseType))

Query(c, p) ==
    /\ call[c] = Idle
    /\ Valid(p)
    /\ SendRequest(c, p, TRUE)

QueryThrows(c, p) ==
    /\ call[c] = Idle
    /\ ~Valid(p)
    /\ call' = [call EXCEPT ![c] = Thrown]
    /\ UNCHANGED <<registry, payload, asked>>

\* The then callback: the payload is read again, and then the registry.
Receive(c) ==
    /\ call[c].at = "pending"
    /\ LET p == payload[call[c].payload] IN
       call' = [call EXCEPT ![c] =
                  [at |-> "settled",
                   parser |-> registry[p.responseType],
                   data |-> [format |-> @.accept, stream |-> @.stream],
                   ask |-> c \in Queries /\ p.queryType = "ASK"]]
    /\ UNCHANGED <<registry, payload, asked>>

(***************************************************************************)
(* The application between calls                                           *)
(***************************************************************************)

PendingWith(p) == {c \in Calls : call[c].at = "pending" /\ call[c].payload = p}
PendingFor(type) == {c \in Calls : call[c].at = "pending" /\ call[c].accept = type}

Disturb(calls) ==
    asked' = [c \in Calls |-> IF c \in calls
                              THEN [asked[c] EXCEPT !.disturbed = TRUE]
                              ELSE asked[c]]

SetResponseType(p, type) ==
    /\ payload[p].responseType # type
    /\ payload' = [payload EXCEPT ![p].responseType = type]
    /\ Disturb(PendingWith(p))
    /\ UNCHANGED <<registry, call>>

SetQueryType(p, type) ==
    /\ payload[p].queryType # type
    /\ payload' = [payload EXCEPT ![p].queryType = type]
    /\ Disturb(PendingWith(p))
    /\ UNCHANGED <<registry, call>>

SetQuery(p) ==
    /\ ~payload[p].query
    /\ payload' = [payload EXCEPT ![p].query = TRUE]
    /\ UNCHANGED <<registry, call, asked>>

\* Slip: the parser replaces whatever is registered.
RegistryOfOneParser(parser) ==
    [type \in RDFMimeType |-> IF type = parser.type THEN parser ELSE NoParser]

\* The last parser registered for a type replaces the earlier one.
Registered(parser) == [registry EXCEPT ![parser.type] = parser]

RegisterParser(parser) ==
    /\ registry[parser.type] # parser
    /\ registry' = Registered(parser)
    /\ Disturb(PendingFor(parser.type))
    /\ UNCHANGED <<payload, call>>

Init ==
    /\ registry = [type \in RDFMimeType |-> NoParser]
    /\ payload = [p \in Payloads |->
                    [responseType |-> IF p \in GetPayloads THEN "RDF_JSON" ELSE Unset,
                     queryType |-> Unset,
                     query |-> FALSE]]
    /\ call = [c \in Calls |-> Idle]
    /\ asked = [c \in Calls |-> NotAsked]

Next ==
    \/ \E c \in Gets, p \in GetPayloads : Get(c, p)
    \/ \E c \in Queries, p \in QueryPayloads : Query(c, p) \/ QueryThrows(c, p)
    \/ \E c \in Calls : Receive(c)
    \/ \E p \in Payloads, type \in ResponseTypes : SetResponseType(p, type)
    \/ \E p \in QueryPayloads, type \in TypesOfQueries : SetQueryType(p, type)
    \/ \E p \in QueryPayloads : SetQuery(p)
    \/ \E parser \in Parsers : RegisterParser(parser)

(***************************************************************************)
(* Properties                                                              *)
(***************************************************************************)

\* What isStreaming says of a parser.
Reads(parser, data) ==
    parser.type = data.format /\ parser.streaming = data.stream

Undisturbed(c) == call[c].at = "settled" /\ ~asked[c].disturbed

\* A call whose payload object and parser were left alone while it was pending
\* gets what it asked for, whatever happened to the other calls, payloads and
\* parsers: the parser registered for its response type, fed with that type and
\* in the form it reads, told rightly whether the query was an ASK; or, without
\* a parser, the plain string of a get and the stream of a query.  Queries whose
\* parser does not read streams are left out: query always asks for a stream.
ResultAsRequested ==
    \A c \in Calls :
        LET parser == asked[c].parser
            result == call[c]
        IN (Undisturbed(c) /\ (c \in Queries /\ parser # NoParser => parser.streaming))
           => /\ result.parser = parser
              /\ IF parser = NoParser THEN result.data.stream <=> c \in Queries
                                      ELSE Reads(parser, result.data)
              /\ result.ask <=> asked[c].queryType = "ASK"
=============================================================================
