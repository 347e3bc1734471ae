------------------------------ MODULE Session ------------------------------
(***************************************************************************)
(* What surrounds the execution of requests: what a repository client      *)
(* makes of the payload objects, texts and parsers of an application, how  *)
(* configurations reach the clients made from them, and how the server     *)
(* clients and the namespace service speak to a server.  The application   *)
(* changes its objects and uses them again while calls are pending.        *)
(*                                                                         *)
(* The parts are modelled with variables of their own and share no state,  *)
(* so a behaviour follows one of them, chosen at the start, and leaves the *)
(* others in their initial states.                                         *)
(***************************************************************************)
EXTENDS Naturals

CONSTANTS
    Parts,   \* the parts considered
    Gets, Queries, GetPayloads, QueryPayloads, ResponseTypes, TypesOfQueries,
    Parsers,
    Values, Languages, DataTypes, Graphs, Batches, MaxSetters, MaxRequests,
    QueryObjects, UpdateObjects, Texts, QueryParams, UpdateParams, ParamValues,
    ArrayObjects, ArrayContents, Contexts, MaxChanges, MaxMade,
    Subjects, Predicates, Objects, ContextLists, Present, MaxConversions,
    RepositoryConfigs, ServerConfigs, GivenHeaders, Lists, Endpoints, FirstEndpoint,
    Locations, Timeouts, BasicCredentials, GdbCredentials, MaxSettings, MaxClients,
    MaxSends,
    Ids, Names, Contents, Original, MaxOrders, MaxEdits,
    Prefixes, Blank, Namespace, MaxLookups

VARIABLES
    part,                                                     \* never changed
    registry, payload, call, asked,                           \* Responses
    statement, described, wire, store, setters, requests,     \* Statements
    prepared, arrays, made, changes,                          \* Requests
    statements, last, conversions,                            \* Terms
    config, headers, list, clients, meant, writers, steps,    \* Configuration
    server, objects, orders, edits,                           \* Administration
    declared, lookups                                         \* Namespaces

readVars == <<registry, payload, call, asked>>
writeVars == <<statement, described, wire, store, setters, requests>>
askVars == <<prepared, arrays, made, changes>>
termVars == <<statements, last, conversions>>
configVars == <<config, headers, list, clients, meant, writers, steps>>
adminVars == <<server, objects, orders, edits>>
nameVars == <<declared, lookups>>
vars == <<part, readVars, writeVars, askVars, termVars, configVars, adminVars, nameVars>>

Reading == INSTANCE Responses
Writing == INSTANCE Statements
Asking == INSTANCE Requests
Matching == INSTANCE Terms
Configuring == INSTANCE Configuration
Administering == INSTANCE Administration
Naming == INSTANCE Namespaces

ASSUME ReadingAssumption == Reading!ConstantsOK
ASSUME WritingAssumption == Writing!ConstantsOK
ASSUME AskingAssumption == Asking!ConstantsOK
ASSUME MatchingAssumption == Matching!ConstantsOK
ASSUME ConfiguringAssumption == Configuring!ConstantsOK
ASSUME AdministeringAssumption == Administering!ConstantsOK
ASSUME NamingAssumption == Naming!ConstantsOK
ASSUME PartsAssumption ==
    Parts \subseteq {"reading", "writing", "asking", "matching", "configuring",
                     "administering", "naming"}

Init ==
    /\ part \in Parts
    /\ Reading!Init
    /\ Writing!Init
    /\ Asking!Init
    /\ Matching!Init
    /\ Configuring!Init
    /\ Administering!Init
    /\ Naming!Init

Read ==
    /\ part = "reading"
    /\ Reading!Next
    /\ UNCHANGED <<part, writeVars, askVars, termVars, configVars, adminVars, nameVars>>

Write ==
    /\ part = "writing"
    /\ Writing!Next
    /\ UNCHANGED <<part, readVars, askVars, termVars, configVars, adminVars, nameVars>>

Ask ==
    /\ part = "asking"
    /\ Asking!Next
    /\ UNCHANGED <<part, readVars, writeVars, termVars, configVars, adminVars, nameVars>>

Match ==
    /\ part = "matching"
    /\ Matching!Next
    /\ UNCHANGED <<part, readVars, writeVars, askVars, configVars, adminVars, nameVars>>

Configure ==
    /\ part = "configuring"
    /\ Configuring!Next
    /\ UNCHANGED <<part, readVars, writeVars, askVars, termVars, adminVars, nameVars>>

Administer ==
    /\ part = "administering"
    /\ Administering!Next
    /\ UNCHANGED <<part, readVars, writeVars, askVars, termVars, configVars, nameVars>>

Name ==
    /\ part = "naming"
    /\ Naming!Next
    /\ UNCHANGED <<part, readVars, writeVars, askVars, termVars, configVars, adminVars>>

Next == Read \/ Write \/ Ask \/ Match \/ Configure \/ Administer \/ Name

Spec == Init /\ [][Next]_vars

\* Every variable of the part that runs has its type.
TypeOK ==
    /\ part \in Parts
    /\ CASE part = "reading" -> Reading!TypeOK
         [] part = "writing" -> Writing!TypeOK
         [] part = "asking" -> Asking!TypeOK
         [] part = "matching" -> Matching!TypeOK
         [] part = "configuring" -> Configuring!TypeOK
         [] part = "administering" -> Administering!TypeOK
         [] part = "naming" -> Naming!TypeOK

\* A call gets the parser and the data it asked for, unless its own payload object
\* or parser was changed while it was pending (statements-service.js:54-67,
\* query-service.js:120-131).
ResultAsRequested == Reading!ResultAsRequested

\* An add stores what the payload described when add was called, where it was to be
\* stored (statements-service.js:93-117).
AddedAsDescribed == Writing!AddedAsDescribed

\* A context restricts writing, overwriting and deleting (statements-service.js:158).
RestrictedToContext == Writing!RestrictedToContext

\* add and addQuads never overwrite (statements-service.js:202-225).
AddOnlyAdds == Writing!AddOnlyAdds

\* A request means what the application asked for when it called the operation, but for
\* arrays that it changes itself before the request is sent, arrays in forms, and uploads
\* outside of transactions (query-service.js:87-104,
\* transactional-repository-client.js:82-85).
UnderstoodAsMeant == Asking!UnderstoodAsMeant

\* All the graphs of an update arrive, as update-query-payload.js:34-35 says.
GraphsArrive == Asking!GraphsArrive

\* Reading, counting and deleting statements is about those the texts stand for, unless one
\* of them names a blank node (term-converter.js:132-166).
MatchesAsDenoted == Matching!MatchesAsDenoted

\* Deleting is about those the texts stand for, as statements-service.js:234-235 says, also
\* when they name blank nodes.
BlankNodesDeleted == Matching!BlankNodesDeleted

\* Requests go where their client's configuration says, and carry its headers unless they
\* are those of a server client, which carry none of it
\* (base-repository-client.js:80-89, http-client.js:62-65, server.js:46-53).
ConfigurationReachesRequests == Configuring!ConfigurationReachesRequests

\* The requests of a server client carry the headers of its configuration, as
\* client-config.js:27 and README.md:137-143 say.
ServerHeadersArrive == Configuring!ServerHeadersArrive

\* A token belongs to credentials that the client was configured with
\* (authentication-service.js:34-45).
LoggedInAsConfigured == Configuring!LoggedInAsConfigured

\* The location of a configuration arrives, as README.md:412-419 says.
LocationAsSet == Configuring!LocationAsSet

\* The server becomes what an operation is for (graphdb-server-client.js:107-392).
CarriedOutAsAsked == Administering!CarriedOutAsAsked

\* What an operation reports was so while it was pending (server-client.js:58-73).
AnsweredTruthfully == Administering!AnsweredTruthfully

\* Only deleteNamespaces touches several namespaces (namespace-service.js:146-150).
NamespaceAsAsked == Naming!NamespaceAsAsked
=============================================================================
