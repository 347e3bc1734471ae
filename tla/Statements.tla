----------------------------- MODULE Statements -----------------------------
(***************************************************************************)
(* How a repository client writes and deletes statements: an               *)
(* AddStatementPayload that the application sets up and uses again, the    *)
(* quads and the context parameter that StatementsService makes of it, and *)
(* the requests, several of which may be on their way at once.             *)
(*                                                                         *)
(* A value is what detectLiteralType and hasNullArguments see of it: its   *)
(* JavaScript type, whether it is integral, and whether it is truthy.      *)
(* Subject and predicate are the same in all statements and are always     *)
(* set, contexts are not blank, and the failures of requests are           *)
(* RepositoryClient's.                                                     *)
(***************************************************************************)
EXTENDS Naturals

CONSTANTS
    Values,        \* [js, integral, truthy] records, all different
    Languages,     \* language tags
    DataTypes,     \* the data types the application names
    Graphs,        \* named graphs
    Batches,       \* the sets of quads it hands to addQuads and putQuads
    MaxSetters,    \* bound: number of setter calls
    MaxRequests    \* bound: number of requests

VARIABLES
    statement,   \* the fields of the AddStatementPayload
    described,   \* history: the literal of the last setObjectLiteral, see there
    wire,        \* requests that the repository has not handled yet
    store,       \* the quads in the repository
    setters,     \* number of setter calls so far
    requests     \* number of requests so far

vars == <<statement, described, wire, store, setters, requests>>

None == "none"
DefaultGraph == "default"
String == "xsd:string"

Detected == {"xsd:integer", "xsd:decimal", "xsd:boolean", String}

Terms == [value : Values, dataType : DataTypes \cup Detected \cup {None},
          language : Languages \cup {None}]
Quads == [object : Terms, graph : Graphs \cup {DefaultGraph}]
Undefined == [js |-> "undefined", integral |-> FALSE, truthy |-> FALSE]
NoDescription == [objects |-> {}, leftover |-> FALSE]

\* What is assumed of the constants: values are strings, numbers and booleans, batches
\* consist of quads.
ConstantsOK ==
    /\ Values \subseteq [js : {"string", "number", "boolean"}, integral : BOOLEAN,
                         truthy : BOOLEAN]
    /\ None \notin Languages
    /\ Batches \subseteq SUBSET Quads
    /\ MaxSetters \in Nat
    /\ MaxRequests \in Nat

TypeOK ==
    /\ statement \in [object : Values \cup {Undefined},
                    dataType : DataTypes \cup Detected \cup {None},
                    language : Languages \cup {None},
                    context : SUBSET Graphs]
    /\ described.objects \subseteq Terms
    /\ \A r \in wire :
        /\ r.id \in 1..requests
        /\ r.quads \subseteq Quads
        /\ r.method = "delete" => r.quads = {}
        /\ r.context \subseteq Graphs
    /\ store \subseteq Quads
    /\ setters \in 0..MaxSetters
    /\ requests \in 0..MaxRequests

(***************************************************************************)
(* The payload                                                             *)
(***************************************************************************)

\* Slip: the JavaScript type goes into the payload as it is.
JsTypeOf(v) == v.js

DetectedType(v) ==
    CASE v.js = "number" /\ v.integral  -> "xsd:integer"
      [] v.js = "number" /\ ~v.integral -> "xsd:decimal"
      [] v.js = "boolean"               -> "xsd:boolean"
      [] v.js = "string"                -> String

IsLiteral == statement.language # None \/ statement.dataType # None

\* hasNullArguments takes anything falsy for a missing argument.
HasNull == ~statement.object.truthy

SetObject(v) ==
    /\ v.js = "string"
    /\ statement' = [statement EXCEPT !.object = v]
    /\ described' = NoDescription

SetLanguage(language) ==
    /\ statement' = [statement EXCEPT !.language = language]
    /\ described' = NoDescription

SetDataType(type) ==
    /\ statement' = [statement EXCEPT !.dataType = type]
    /\ described' = NoDescription

SetContext(context) ==
    /\ statement' = [statement EXCEPT !.context = context]
    /\ UNCHANGED described

\* The literal that the documentation of setObjectLiteral promises.
Literal(v, type, language) ==
    IF type = String /\ language # None
    THEN [value |-> v, dataType |-> None, language |-> language]
    ELSE [value |-> v, dataType |-> IF type = None THEN DetectedType(v) ELSE type,
          language |-> None]

\* A language that an earlier setter left in the payload stays there.
SetObjectLiteral(v, type, language) ==
    LET tagged == type = String /\ language # None IN
    /\ statement' = [statement EXCEPT
                     !.object = v,
                     !.dataType = IF type = None THEN DetectedType(v) ELSE type,
                     !.language = IF tagged THEN language ELSE @]
    /\ described' = [objects |-> {Literal(v, type, language)},
                     leftover |-> ~tagged /\ statement.language # None]

Setter ==
    /\ setters < MaxSetters
    /\ setters' = setters + 1
    /\ \/ \E v \in Values : SetObject(v)
       \/ \E v \in Values, type \in DataTypes \cup {None},
             language \in Languages \cup {None} : SetObjectLiteral(v, type, language)
       \/ \E language \in Languages \cup {None} : SetLanguage(language)
       \/ \E type \in DataTypes \cup {None} : SetDataType(type)
       \/ \E context \in SUBSET Graphs : SetContext(context)
    /\ UNCHANGED <<wire, store, requests>>

(***************************************************************************)
(* Requests                                                                *)
(***************************************************************************)

\* Slip: the data type wins over the language.
DataTypeFirst ==
    [value |-> statement.object, dataType |-> statement.dataType,
     language |-> IF statement.dataType = None THEN statement.language ELSE None]

\* The object term: a named node, or a literal with a language or a data type.
ObjectTerm ==
    [value |-> statement.object,
     dataType |-> IF statement.language = None THEN statement.dataType ELSE None,
     language |-> statement.language]

GraphsOf(context) == IF context = {} THEN {DefaultGraph} ELSE context

PayloadQuads == {[object |-> ObjectTerm, graph |-> g] : g \in GraphsOf(statement.context)}

\* The conversion to a term fails for a number or boolean that is no literal.
AddThrows == HasNull \/ (~IsLiteral /\ statement.object.js # "string")

\* Slip: the context parameter is forgotten.
NoContextParam(context) == {}

ContextParam(context) == context

\* operation, described and restriction are history: what was asked for.
NewRequest(operation, method, quads, context) ==
    [id |-> requests + 1, method |-> method, quads |-> quads,
     context |-> ContextParam(context),
     operation |-> operation, described |-> NoDescription, restriction |-> context]

SendRequest(r) ==
    /\ requests < MaxRequests
    /\ requests' = requests + 1
    /\ wire' = wire \cup {r}
    /\ UNCHANGED <<statement, described, store, setters>>

\* Slip: the flag means the opposite.
InvertedInsertMethod(overwrite) == IF overwrite THEN "post" ELSE "put"

InsertMethod(overwrite) == IF overwrite THEN "put" ELSE "post"

\* The request has the quads of the payload when it is made.
Add ==
    /\ ~AddThrows
    /\ SendRequest([NewRequest("add", InsertMethod(FALSE), PayloadQuads, statement.context)
                      EXCEPT !.described = described])

AddQuads(quads, context) ==
    /\ quads # {}
    /\ SendRequest(NewRequest("addQuads", InsertMethod(FALSE), quads, context))

PutQuads(quads, context) ==
    /\ quads # {}
    /\ SendRequest(NewRequest("putQuads", InsertMethod(TRUE), quads, context))

\* upload and addFile; the requests of overwrite and putFile are the same.
Upload(quads, context) ==
    \E operation \in {"upload", "overwrite"} :
        SendRequest(NewRequest(operation, "put", quads, context))

\* deleteStatements with its context, and deleteAllStatements, which has none; the
\* patterns for subject, predicate and object are left out.
DeleteStatements(context) ==
    SendRequest(NewRequest("delete", "delete", {}, context))

(***************************************************************************)
(* The repository                                                          *)
(***************************************************************************)

InContext(quad, context) == context = {} \/ quad.graph \in context

\* Slip: the request is made of the payload when it is sent at last.
LateQuads(r) ==
    IF r.described # NoDescription THEN PayloadQuads ELSE r.quads

Body(r) == r.quads

\* A context parameter overrides the graphs of the quads.
Placed(r) ==
    IF r.context = {} THEN Body(r)
    ELSE {[quad EXCEPT !.graph = g] : quad \in Body(r), g \in r.context}

Effect(r) ==
    CASE r.method = "post"   -> store \cup Placed(r)
      [] r.method = "put"    -> {q \in store : ~InContext(q, r.context)} \cup Placed(r)
      [] r.method = "delete" -> {q \in store : ~InContext(q, r.context)}

\* Requests on their way at the same time are handled in any order.
Serve(r) ==
    /\ store' = Effect(r)
    /\ wire' = wire \ {r}
    /\ UNCHANGED <<statement, described, setters, requests>>

Init ==
    /\ statement = [object |-> Undefined, dataType |-> None, language |-> None, context |-> {}]
    /\ described = NoDescription
    /\ wire = {}
    /\ store = {}
    /\ setters = 0
    /\ requests = 0

Next ==
    \/ Setter
    \/ Add
    \/ \E quads \in Batches, context \in SUBSET Graphs :
        \/ AddQuads(quads, context)
        \/ PutQuads(quads, context)
        \/ Upload(quads, context)
    \/ \E context \in SUBSET Graphs : DeleteStatements(context)
    \/ \E r \in wire : Serve(r)

(***************************************************************************)
(* Properties                                                              *)
(***************************************************************************)

\* The literal of the last setObjectLiteral in each of the contexts, as they were
\* when r was made.
Promised(r) ==
    {[object |-> o, graph |-> g] :
       o \in r.described.objects, g \in GraphsOf(r.restriction)}

\* The repository handles r in this step.
Handled(r) == r \in wire /\ r \notin wire'

\* An add stores the literal that the application described last before the call,
\* in exactly the contexts it had set by then, however often it has used the
\* payload before, and whatever it does to it until the request is sent; unless an
\* earlier language was left over in the payload: the code lets it win over the data
\* type of the new literal.
AddedAsDescribed ==
    [][\A r \in wire :
         Handled(r) /\ r.described.objects # {} /\ ~r.described.leftover
           => store' = store \cup Promised(r)]_vars

\* putQuads and deleteStatements with a context leave every other graph alone
\* ("The overwrite will be restricted if the context parameter is specified",
\* statements-service.js:158).
RestrictedToContext ==
    [][\A r \in wire :
         Handled(r) /\ r.restriction # {}
           => \A g \in (Graphs \cup {DefaultGraph}) \ r.restriction :
                {q \in store' : q.graph = g} = {q \in store : q.graph = g}]_vars

OnlyAdds(operations) ==
    \A r \in wire :
        Handled(r) /\ r.operation \in operations => store \subseteq store'

\* add and addQuads leave everything that is stored where it is.
AddOnlyAdds == [][OnlyAdds({"add", "addQuads"})]_vars
=============================================================================
