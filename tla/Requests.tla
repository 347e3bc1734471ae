------------------------------ MODULE Requests ------------------------------
(***************************************************************************)
(* What a repository client and a transactional client ask the server for: *)
(* the method, path, parameters and body of the requests that the services *)
(* build, and what decorateServiceRequest makes of them in a transaction.  *)
(*                                                                         *)
(* The parameters of a query or an update come from a payload object that  *)
(* the application changes and uses again, with both clients, while        *)
(* earlier requests wait for their login.  They travel in the URL or,      *)
(* together with the query, in the body.                                   *)
(*                                                                         *)
(* A value is a set with one string, or an array of the application, which *)
(* goes on adding graphs to it and taking some out.  A form is serialized  *)
(* when the operation is called, with an array as one string: the set of   *)
(* the strings that are joined.  A URL is serialized whenever the request  *)
(* is sent, and until then refers to the arrays.                           *)
(***************************************************************************)
EXTENDS Naturals, FiniteSets

CONSTANTS
    QueryObjects,    \* GetQueryPayload objects
    UpdateObjects,   \* UpdateQueryPayload objects
    Texts,           \* queries and updates
    QueryParams,     \* the parameters the application sets in a GetQueryPayload
    UpdateParams,    \* ... and in an UpdateQueryPayload
    ParamValues,     \* the values it sets each to; {} if the parameter is unset
    ArrayObjects,    \* arrays of the application, which are values of parameters
    ArrayContents,   \* what is in them, sets of graphs
    Contexts,        \* the contexts it names in other operations, sets of graphs
    MaxChanges,      \* bound: number of setter calls and of changes of arrays
    MaxMade          \* bound: number of requests

VARIABLES
    prepared,   \* the fields of every payload object
    arrays,     \* what is in every array
    made,       \* the requests the services have built
    changes     \* number of setter calls and of changes of arrays so far

vars == <<prepared, arrays, made, changes>>

Payloads == QueryObjects \cup UpdateObjects
Params == QueryParams \cup UpdateParams \cup {"action"}
Unset == "unset"
Form == "application/x-www-form-urlencoded"

\* getSupportedContentTypes of the two classes.
ContentTypes(o) ==
    {Form, IF o \in QueryObjects THEN "application/sparql-query"
                                 ELSE "application/sparql-update"}

ParamsOf(o) == IF o \in QueryObjects THEN QueryParams ELSE UpdateParams

\* The operations that both clients have, besides query and update.
Plain ==
    [getSize  |-> [method |-> "get",  path |-> "/size",       type |-> Unset],
     get      |-> [method |-> "get",  path |-> "/statements", type |-> Unset],
     download |-> [method |-> "get",  path |-> "/statements", type |-> Unset],
     add      |-> [method |-> "post", path |-> "/statements", type |-> "application/trig"],
     addQuads |-> [method |-> "post", path |-> "/statements", type |-> "application/trig"],
     upload   |-> [method |-> "put",  path |-> "/statements", type |-> "application/trig"],
     addFile  |-> [method |-> "put",  path |-> "/statements", type |-> "application/trig"]]

PlainOperations == DOMAIN Plain

\* The action with which a transactional client sends an operation.
Action(operation) ==
    CASE operation = "getSize"                            -> "SIZE"
      [] operation \in {"get", "download"}                -> "GET"
      [] operation = "query"                              -> "QUERY"
      [] operation = "update"                             -> "UPDATE"
      [] operation \in {"add", "addQuads", "upload", "addFile"} -> "ADD"

\* What is assumed of the constants: the application names no parameter of the protocol,
\* and a value that is no array has one string at most.
ConstantsOK ==
    /\ {"action", "query", "update"} \cap (QueryParams \cup UpdateParams) = {}
    /\ {} \notin ArrayObjects
    /\ \A value \in UNION {ParamValues[n] : n \in QueryParams \cup UpdateParams} :
        value \in ArrayObjects \/ \A v, w \in value : v = w
    /\ Unset \notin Payloads
    /\ MaxChanges \in Nat

TypeOK ==
    /\ prepared \in [Payloads -> [text : Texts \cup {Unset},
                                 type : UNION {ContentTypes(o) : o \in Payloads},
                                 params : [Params -> {{}} \cup UNION {ParamValues[n] :
                                               n \in QueryParams \cup UpdateParams}]]]
    /\ \A o \in Payloads :
        prepared[o].type \in ContentTypes(o) /\ prepared[o].params["action"] = {}
    /\ arrays \in [ArrayObjects -> ArrayContents]
    /\ \A m \in made :
        /\ m.edited \subseteq Params
        /\ m.of \in Payloads \cup {Unset}
        /\ m.request.client \in {"repository", "transaction"}
        /\ m.request.method \in {"get", "post", "put"}
        /\ m.request.text \in Texts \cup {Unset}
    /\ changes \in 0..MaxChanges

(***************************************************************************)
(* Parameters                                                              *)
(***************************************************************************)

\* The strings that a value has now.
Strings(value) == IF value \in ArrayObjects THEN arrays[value] ELSE value

\* An array in the URL is repeated, string by string (paramsSerializer).
Repeated(params) ==
    UNION {{[name |-> n, value |-> {v}] : v \in Strings(params[n])} : n \in DOMAIN params}

\* An array in a form is one string (HttpUtils.serialize).
Serialized(params) ==
    {[name |-> n, value |-> Strings(params[n])] : n \in {m \in DOMAIN params : params[m] # {}}}

\* addParam replaces a parameter of the same name.
AddParam(pairs, name, value) ==
    {pair \in pairs : pair.name # name} \cup {[name |-> name, value |-> {value}]}

\* The parameters that are arrays, and stay references to them.
NamesOfArrays(params) == {n \in DOMAIN params : params[n] \in ArrayObjects}
ArraysOf(params) == [n \in NamesOfArrays(params) |-> params[n]]
ValuesOf(params) == [n \in DOMAIN params \ NamesOfArrays(params) |-> params[n]]
NoArrays == [n \in {} |-> {}]

QueryField(o) == IF o \in QueryObjects THEN "query" ELSE "update"

(***************************************************************************)
(* Requests                                                                *)
(***************************************************************************)

NewRequest(operation, method, path, type) ==
    [operation |-> operation, client |-> "repository", method |-> method, path |-> path,
     type |-> type, params |-> {}, arrays |-> NoArrays, form |-> {}, text |-> Unset]

\* setPostRequestPayload: the query and its parameters in a form, or the query alone in
\* the body and the parameters in the URL.  The copy of the parameters is shallow.
QueryRequest(o) ==
    LET p == prepared[o]
        new == NewRequest(QueryField(o), "post",
                          IF o \in QueryObjects THEN "" ELSE "/statements", p.type)
    IN IF p.type = Form
       THEN [new EXCEPT !.form = AddParam(Serialized(p.params), QueryField(o), p.text)]
       ELSE [new EXCEPT !.text = p.text, !.params = Repeated(ValuesOf(p.params)),
                        !.arrays = ArraysOf(p.params)]

\* The other operations have their context in the URL, as a repeated parameter.
\* toNTripleValues makes an array of its own.
PlainRequest(operation, context) ==
    LET line == Plain[operation] IN
    [NewRequest(operation, line.method, line.path, line.type)
       EXCEPT !.params = Repeated([n \in {"context"} |-> context])]

\* decorateServiceRequest.
Decorated(r) ==
    [r EXCEPT !.client = "transaction", !.method = "put", !.path = "",
              !.params = AddParam(@, "action", Action(r.operation))]

\* Slip: the parameters of a payload are not copied into the request, so that the
\* action of a transaction ends up in the payload.
ActionLeaks(o, client) ==
    IF client = "transaction" /\ prepared[o].type # Form
    THEN [prepared EXCEPT ![o].params["action"] = {Action(QueryField(o))}]
    ELSE prepared

\* The parameters are copied, so that building a request leaves the payload alone.
PayloadAfter(o, client) == prepared

\* A request, the payload object it was built from if any, and what has been received of
\* it; as history what the application asked for, and the names of the parameters whose
\* arrays it has changed since.
Made(r, client, of, params) ==
    [request |-> IF client = "transaction" THEN Decorated(r) ELSE r,
     of |-> of,
     received |-> {},
     edited |-> {},
     asked |-> [operation |-> r.operation,
                text |-> IF of \in Payloads THEN prepared[of].text ELSE Unset,
                params |-> Repeated(params)]]

\* query and update.  What else query demands of its payload is Responses' Valid.
Query(o, client) ==
    /\ Cardinality(made) < MaxMade
    /\ prepared[o].text # Unset
    /\ made' = made \cup {Made(QueryRequest(o), client, o,
                               [n \in ParamsOf(o) |-> prepared[o].params[n]])}
    /\ prepared' = PayloadAfter(o, client)
    /\ UNCHANGED <<arrays, changes>>

Operate(operation, context, client) ==
    /\ Cardinality(made) < MaxMade
    /\ made' = made \cup {Made(PlainRequest(operation, context), client, Unset,
                               [n \in {"context"} |-> context])}
    /\ UNCHANGED <<prepared, arrays, changes>>

\* Slip: the request is built when it is sent at last.
SentLate(m) ==
    IF m.of \notin Payloads THEN m.request
    ELSE IF m.request.client = "repository" THEN QueryRequest(m.of)
    ELSE Decorated(QueryRequest(m.of))

\* What is sent is the request that the service has built.
Sent(m) == m.request

\* The URL of a request, made when it is sent.
InUrl(r) == [r EXCEPT !.params = @ \cup Repeated(r.arrays)]

\* A request is sent after the login: once, or again after a 401 or to another endpoint.
Send(m) ==
    /\ made' = (made \ {m}) \cup {[m EXCEPT !.received = @ \cup {InUrl(Sent(m))}]}
    /\ UNCHANGED <<prepared, arrays, changes>>

(***************************************************************************)
(* Setters, and changes of arrays, which the getters hand out as well      *)
(***************************************************************************)

Change(o, p) ==
    /\ changes < MaxChanges
    /\ p # prepared[o]
    /\ changes' = changes + 1
    /\ prepared' = [prepared EXCEPT ![o] = p]
    /\ UNCHANGED <<arrays, made>>

SetQuery(o, text) == Change(o, [prepared[o] EXCEPT !.text = text])

SetContentType(o, type) == Change(o, [prepared[o] EXCEPT !.type = type])

SetParam(o, name, value) == Change(o, [prepared[o] EXCEPT !.params[name] = value])

\* The application changes an array in place, as in getDefaultGraphs().push(graph).
EditArray(a, content) ==
    /\ changes < MaxChanges
    /\ content # arrays[a]
    /\ changes' = changes + 1
    /\ arrays' = [arrays EXCEPT ![a] = content]
    /\ made' = {[m EXCEPT !.edited = @ \cup {n \in DOMAIN m.request.arrays :
                                               m.request.arrays[n] = a}] : m \in made}
    /\ UNCHANGED prepared

Init ==
    /\ prepared = [o \in Payloads |->
                     [text |-> Unset,
                      type |-> IF o \in QueryObjects THEN Form
                                                     ELSE "application/sparql-update",
                      params |-> [n \in Params |-> {}]]]
    /\ arrays \in [ArrayObjects -> ArrayContents]
    /\ made = {}
    /\ changes = 0

Next ==
    \/ \E o \in Payloads :
        \/ \E text \in Texts : SetQuery(o, text)
        \/ \E type \in ContentTypes(o) : SetContentType(o, type)
        \/ \E name \in ParamsOf(o) : \E value \in ParamValues[name] : SetParam(o, name, value)
    \/ \E client \in {"repository", "transaction"} :
        \/ \E o \in Payloads : Query(o, client)
        \/ \E operation \in PlainOperations, context \in Contexts :
            Operate(operation, context, client)
    \/ \E a \in ArrayObjects, content \in ArrayContents : EditArray(a, content)
    \/ \E m \in made : Send(m)

(***************************************************************************)
(* Properties                                                              *)
(***************************************************************************)

\* The server carries out download as get, and adds with one operation.
Meaning(operation) ==
    CASE operation \in {"get", "download"}                      -> "get"
      [] operation \in {"add", "addQuads", "upload", "addFile"} -> "add"
      [] OTHER                                                  -> operation

\* What a transaction does for an action.
ActionMeans ==
    [SIZE |-> "getSize", GET |-> "get", QUERY |-> "query", UPDATE |-> "update", ADD |-> "add"]

\* The operation that the server takes a request for: in a transaction by its action,
\* otherwise by path, method and content type.
OperationOf(r) ==
    IF r.client = "transaction"
    THEN ActionMeans[CHOOSE a \in DOMAIN ActionMeans :
                       [name |-> "action", value |-> {a}] \in r.params]
    ELSE CASE r.path = ""                                    -> "query"
           [] r.path = "/size"                               -> "getSize"
           [] r.path = "/statements" /\ r.method = "get"     -> "get"
           [] r.path = "/statements" /\ r.method = "put"     -> "replace"
           [] r.path = "/statements" /\ r.method = "post"    ->
                IF r.type = "application/trig" THEN "add" ELSE "update"

\* The SPARQL protocol: query and parameters from the form or from body and URL.
Understood(r) ==
    LET operation == OperationOf(r)
        protocol == IF r.client = "transaction" THEN {"action"} ELSE {}
        pairs == IF r.type = Form THEN r.form ELSE r.params
        field == IF r.type = Form THEN {operation} ELSE {}
    IN [operation |-> operation,
        text |-> IF r.type = Form
                 THEN CHOOSE t \in Texts : [name |-> operation, value |-> {t}] \in r.form
                 ELSE r.text,
        params |-> {pair \in pairs : pair.name \notin protocol \cup field}]

\* An array in a form (see GraphsArrive), and an upload that replaces (see Statements).
ArrayInForm(m) == \E pair \in m.request.form : \A v \in pair.value : pair.value # {v}
UploadOutside(m) ==
    m.request.client = "repository" /\ m.asked.operation \in {"upload", "addFile"}

\* The parameters of which the application has not changed the array since the call.
Others(params, m) == {pair \in params : pair.name \notin m.edited}

\* However often a request is sent, the server understands it as the operation that the
\* application asked for, with the query and exactly the parameters that the payload had
\* when the operation was called, whichever client and content type it uses and whatever
\* the payload was used for before or is used for meanwhile.
\* Three cases are left out.  A parameter that is an array is as it was when the
\* operation was called only unless the application changes the array itself before the
\* request is sent: the copy that setPostRequestPayload makes is shallow.  Arrays in
\* forms do not arrive (GraphsArrive), and uploads outside of transactions replace.
UnderstoodAsMeant ==
    \A m \in made : ~ArrayInForm(m) /\ ~UploadOutside(m) =>
        \A r \in m.received :
            /\ Understood(r).operation = Meaning(m.asked.operation)
            /\ Understood(r).text = m.asked.text
            /\ Others(Understood(r).params, m) = Others(m.asked.params, m)

\* Every graph given to a payload arrives: "One or more named graph URIs to be used
\* as default graph(s)", with the type string|string[] (update-query-payload.js:34-35).
GraphsArrive ==
    \A m \in made :
        \A r \in m.received : Others(Understood(r).params, m) = Others(m.asked.params, m)
=============================================================================
