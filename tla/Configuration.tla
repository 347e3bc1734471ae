---------------------------- MODULE Configuration ----------------------------
(***************************************************************************)
(* The configuration objects that an application sets up, and the clients  *)
(* made from them.  A client keeps some settings as they were when it was  *)
(* made (endpoints, timeouts), shares others with its configuration (the   *)
(* headers object, changed in place), and reads the rest whenever it needs *)
(* them (authentication, keepAlive).  A transactional client has a         *)
(* configuration of its own, copied from that of its parent.               *)
(*                                                                         *)
(* Headers objects and endpoint arrays are references.  A configuration    *)
(* starts with a headers object and an array of its own, which are named   *)
(* like the configuration; the application may put others in their place,  *)
(* also those of another configuration.                                    *)
(***************************************************************************)
EXTENDS Naturals, Sequences

CONSTANTS
    RepositoryConfigs,   \* RepositoryClientConfig objects
    ServerConfigs,       \* ServerClientConfig objects
    GivenHeaders,        \* headers objects of the application
    Lists,               \* endpoint arrays of the application
    Endpoints,           \* URLs of endpoints
    FirstEndpoint,       \* the one that every configuration starts with
    Locations,           \* remote locations
    Timeouts,            \* timeouts that the application sets
    BasicCredentials,    \* users and passwords given to useBasicAuthentication
    GdbCredentials,      \* ... and to useGdbTokenAuthentication
    MaxSettings,         \* bound: number of setter calls
    MaxClients,          \* bound: number of clients
    MaxSends             \* bound: number of requests sent

VARIABLES
    config,    \* the fields of every configuration
    headers,   \* the contents of every headers object
    list,      \* the contents of every endpoint array
    clients,   \* the clients made so far, each with the call it is carrying out
    meant,     \* history: what each configuration would hold if setters copied
    writers,   \* history: the configurations through which an object was changed
    steps      \* number of setter calls and of requests sent so far

vars == <<config, headers, list, clients, meant, writers, steps>>

Configs == RepositoryConfigs \cup ServerConfigs
HeadersObjects == Configs \cup GivenHeaders
Arrays == RepositoryConfigs \cup Lists
Credentials == BasicCredentials \cup GdbCredentials

None == "none"
Cleared == "cleared"
TransactionUrl == "transaction"
DefaultTimeout == 10
Waits == [read : Timeouts \cup {DefaultTimeout}, write : Timeouts \cup {DefaultTimeout}]
NoHeaders == [location |-> None, accept |-> None]
HeaderMaps == [location : Locations \cup {None}, accept : {None, "given", "request"}]

\* What is assumed of the constants: the objects of the application are not those that
\* configurations start with, and nothing is named like the absence of it.
ConstantsOK ==
    /\ GivenHeaders \cap Configs = {} /\ Lists \cap Configs = {}
    /\ None \notin HeadersObjects \cup Locations \cup Credentials /\ Cleared \notin Credentials
    /\ FirstEndpoint \in Endpoints
    /\ MaxSettings \in Nat /\ MaxClients \in Nat /\ MaxSends \in Nat

\* The headers a request may have of its own.
OwnHeaders == {NoHeaders, [NoHeaders EXCEPT !.accept = "request"]}

\* The token of a user is named by the credentials it was obtained with.
Users == Credentials \cup {None, Cleared}

NoRequest ==
    [headers |-> NoHeaders, endpoints |-> <<>>, timeout |-> DefaultTimeout, token |-> None]

\* A client: what it keeps of its configuration, its user, and its current call;
\* promised, had and shared are history.
IsClient(k) ==
    /\ k.kind \in {"repository", "transaction", "server"}
    /\ k.config \in IF k.kind = "server" THEN ServerConfigs ELSE RepositoryConfigs
    /\ k.headers \in HeadersObjects \cup {None}
    /\ k.endpoints \in Seq(Endpoints \cup {TransactionUrl}) /\ k.endpoints # <<>>
    /\ k.base \in Endpoints
    /\ k.waits \in Waits
    /\ k.credentials \in Credentials \cup {None}
    /\ k.user \in Users
    /\ k.at \in {"idle", "login", "resume", "sent"}
    /\ k.call \in {"read", "write", "begin"}
    /\ k.own \in OwnHeaders
    /\ k.login \in Credentials \cup {None}
    /\ k.captured \in Users
    /\ k.header \in Credentials \cup {None}
    /\ k.request.headers \in HeaderMaps

TypeOK ==
    /\ \A c \in Configs :
        /\ config[c].headers \in HeadersObjects
        /\ config[c].endpoints \in Arrays \cup {None}
        /\ config[c].base \in Endpoints
        /\ config[c].waits \in Waits
        /\ config[c].credentials \in Credentials \cup {None}
        /\ config[c].keepAlive \in BOOLEAN
    /\ headers \in [HeadersObjects -> HeaderMaps]
    /\ list \in [Arrays -> Seq(Endpoints)]
    /\ Len(clients) <= MaxClients
    /\ \A i \in DOMAIN clients : IsClient(clients[i])
    /\ writers \in [HeadersObjects \cup Arrays -> SUBSET Configs]
    /\ steps \in [settings : 0..MaxSettings, sends : 0..MaxSends]

\* The constructors.  The arrays of the application have one endpoint already.
Init ==
    /\ config = [c \in Configs |->
                   [headers |-> c,
                    endpoints |-> IF c \in RepositoryConfigs THEN c ELSE None,
                    base |-> FirstEndpoint,
                    waits |-> [read |-> DefaultTimeout, write |-> DefaultTimeout],
                    credentials |-> None, keepAlive |-> TRUE]]
    /\ headers = [h \in HeadersObjects |->
                    IF h \in GivenHeaders THEN [NoHeaders EXCEPT !.accept = "given"]
                                          ELSE NoHeaders]
    /\ list = [a \in Arrays |-> IF a \in Lists THEN <<FirstEndpoint>> ELSE <<>>]
    /\ clients = <<>>
    /\ meant = [c \in Configs |-> [headers |-> NoHeaders, endpoints |-> <<>>]]
    /\ writers = [o \in HeadersObjects \cup Arrays |-> {}]
    /\ steps = [settings |-> 0, sends |-> 0]

(***************************************************************************)
(* Setters of a configuration                                              *)
(***************************************************************************)

Setting ==
    /\ steps.settings < MaxSettings
    /\ steps' = [steps EXCEPT !.settings = @ + 1]

\* setHeaders keeps the object that it is given.
SetHeaders(c, h) ==
    /\ Setting
    /\ config' = [config EXCEPT ![c].headers = h]
    /\ meant' = [meant EXCEPT ![c].headers = headers[h]]
    /\ UNCHANGED <<headers, list, clients, writers>>

\* setLocation changes the headers object of the configuration in place.
SetLocation(c, location) ==
    LET h == config[c].headers IN
    /\ Setting
    /\ headers' = [headers EXCEPT ![h].location = location]
    /\ meant' = [meant EXCEPT ![c].headers.location = location]
    /\ writers' = [writers EXCEPT ![h] = @ \cup {c}]
    /\ UNCHANGED <<config, list, clients>>

\* setEndpoints keeps the array that it is given.
SetEndpoints(c, a) ==
    /\ Setting
    /\ config' = [config EXCEPT ![c].endpoints = a]
    /\ meant' = [meant EXCEPT ![c].endpoints = list[a]]
    /\ UNCHANGED <<headers, list, clients, writers>>

\* addEndpoint changes the array of the configuration in place.
AddEndpoint(c, endpoint) ==
    LET a == config[c].endpoints IN
    /\ Setting
    /\ list' = [list EXCEPT ![a] = Append(@, endpoint)]
    /\ meant' = [meant EXCEPT ![c].endpoints = Append(@, endpoint)]
    /\ writers' = [writers EXCEPT ![a] = @ \cup {c}]
    /\ UNCHANGED <<config, headers, clients>>

\* The setters of plain values.  Setting what is set already is left out.
SetField(c, fields) ==
    /\ Setting
    /\ fields # config[c]
    /\ config' = [config EXCEPT ![c] = fields]
    /\ UNCHANGED <<headers, list, meant, writers>>

SetEndpoint(c, endpoint) ==
    SetField(c, [config[c] EXCEPT !.base = endpoint]) /\ UNCHANGED clients

SetReadTimeout(c, timeout) ==
    SetField(c, [config[c] EXCEPT !.waits.read = timeout]) /\ UNCHANGED clients

SetWriteTimeout(c, timeout) ==
    SetField(c, [config[c] EXCEPT !.waits.write = timeout]) /\ UNCHANGED clients

\* A ServerClientConfig has a single timeout.
SetTimeout(c, timeout) ==
    /\ SetField(c, [config[c] EXCEPT !.waits = [read |-> timeout, write |-> timeout]])
    /\ UNCHANGED clients

SetKeepAlive(c, keepAlive) ==
    SetField(c, [config[c] EXCEPT !.keepAlive = keepAlive]) /\ UNCHANGED clients

\* useBasicAuthentication, useGdbTokenAuthentication, and disableAuthentication, which
\* are exclusive (switchAuthentication).
SwitchAuthentication(c, credentials) ==
    /\ SetField(c, [config[c] EXCEPT !.credentials = credentials])
    /\ clients' = [i \in DOMAIN clients |->
                     IF clients[i].config = c /\ clients[i].kind # "transaction"
                     THEN [clients[i] EXCEPT !.had = @ \cup {credentials}]
                     ELSE clients[i]]

Setter ==
    \/ \E c \in Configs :
        \/ \E h \in GivenHeaders : SetHeaders(c, h)
        \/ \E endpoint \in Endpoints : SetEndpoint(c, endpoint)
        \/ \E keepAlive \in BOOLEAN : SetKeepAlive(c, keepAlive)
        \/ \E credentials \in Credentials \cup {None} : SwitchAuthentication(c, credentials)
    \/ \E c \in RepositoryConfigs :
        \/ \E location \in Locations : SetLocation(c, location)
        \/ \E a \in Lists : SetEndpoints(c, a)
        \/ \E endpoint \in Endpoints : AddEndpoint(c, endpoint)
        \/ \E timeout \in Timeouts : SetReadTimeout(c, timeout) \/ SetWriteTimeout(c, timeout)
    \/ \E c \in ServerConfigs, timeout \in Timeouts : SetTimeout(c, timeout)

(***************************************************************************)
(* Clients                                                                 *)
(***************************************************************************)

\* What is promised to a client of configuration c: the endpoints and timeouts it has
\* when the client is made.
NewClient(kind, c) ==
    [kind |-> kind, config |-> c,
     headers |-> config[c].headers,
     endpoints |-> <<config[c].base>>,
     base |-> config[c].base,
     waits |-> config[c].waits,
     credentials |-> None,
     user |-> None, at |-> "idle", call |-> "read", own |-> NoHeaders, login |-> None,
     captured |-> None, header |-> None, request |-> NoRequest,
     promised |-> <<config[c].base>>,
     had |-> {config[c].credentials},
     shared |-> FALSE]

Made(k) ==
    /\ Len(clients) < MaxClients
    /\ clients' = Append(clients, k)
    /\ UNCHANGED <<config, headers, list, meant, writers, steps>>

\* The constructor of a repository client: validateConfig, initHttpClients.
CreateRepositoryClient(c) ==
    LET a == config[c].endpoints IN
    /\ list[a] # <<>>
    /\ Made([NewClient("repository", c)
               EXCEPT !.endpoints = list[a], !.promised = meant[c].endpoints,
                      !.shared = ~(writers[a] \subseteq {c})])

\* The constructor of a server client: initHttpClient takes no headers.
CreateServerClient(c) == Made([NewClient("server", c) EXCEPT !.headers = None])

\* getTransactionalClientConfig, when the begin request is answered.
TransactionOf(c) ==
    [NewClient("transaction", c)
       EXCEPT !.endpoints = <<TransactionUrl>>, !.promised = <<TransactionUrl>>,
              !.credentials = config[c].credentials]

\* The transactional client has credentials and keepAlive of its own.
CredentialsOf(k) ==
    IF k.kind = "transaction" THEN k.credentials ELSE config[k.config].credentials

KeepAlive(k) == k.kind = "transaction" \/ config[k.config].keepAlive

\* login(config, user), which logs in unless there is a token already.
Login(k) ==
    IF CredentialsOf(k) # None /\ k.user \notin Credentials
    THEN [k EXCEPT !.at = "login", !.login = CredentialsOf(k), !.request = NoRequest]
    ELSE [k EXCEPT !.at = "resume", !.captured = k.user, !.request = NoRequest]

Idle(k) ==
    [k EXCEPT !.at = "idle", !.call = "read", !.own = NoHeaders, !.login = None,
              !.captured = None, !.header = None, !.request = NoRequest]

Update(i, k) ==
    /\ clients' = [clients EXCEPT ![i] = k]
    /\ UNCHANGED <<config, headers, list, meant, writers, steps>>

\* The application makes one call at a time (bound).  Calls share nothing but the
\* configurations, and those may change while a call is pending.
Call(i, call, own) ==
    /\ \A j \in DOMAIN clients : clients[j].at = "idle"
    /\ call # "read" => own = NoHeaders
    /\ call = "begin" => clients[i].kind = "repository"
    /\ Update(i, Login([clients[i] EXCEPT !.call = call, !.own = own]))

\* Slip: how the token is read from the answer depends on the configuration at that time.
TokenTypeReadLate(k) ==
    IF k.login \in BasicCredentials <=> CredentialsOf(k) \in BasicCredentials
    THEN k.login ELSE None

\* getResponseAuthToken of the Authentication with which the login was made.
TokenFrom(k) == k.login

LoginSucceeds(i) ==
    /\ clients[i].at = "login"
    /\ Update(i, [clients[i] EXCEPT !.at = "resume", !.captured = TokenFrom(clients[i])])

\* Slip: the endpoints are looked up when a request is made.
EndpointsLookedUp(k) ==
    IF k.kind = "repository" THEN list[config[k.config].endpoints] ELSE k.endpoints

\* The HttpClients were made with the client.
EndpointsOf(k) == k.endpoints

\* addDefaultTimeout.
TimeoutOf(k) == IF k.call = "read" THEN k.waits.read ELSE k.waits.write

Over(own, default) ==
    [n \in DOMAIN own |-> IF own[n] = None THEN default[n] ELSE own[n]]

\* setDefaultHeaders keeps the object; axios puts the headers of the request over it.
HeadersOf(k) == IF k.headers = None THEN k.own ELSE Over(k.own, headers[k.headers])

\* decorateRequestConfig.
HeaderOf(k) == IF k.captured \in Credentials THEN k.captured ELSE k.header

\* The callback of login.
Send(i) ==
    LET k == clients[i] IN
    /\ k.at = "resume"
    /\ steps.sends < MaxSends
    /\ steps' = [steps EXCEPT !.sends = @ + 1]
    /\ clients' = [clients EXCEPT ![i] =
           [k EXCEPT !.at = "sent", !.user = k.captured, !.captured = None,
                     !.login = None, !.header = HeaderOf(k),
                     !.request = [headers |-> HeadersOf(k), endpoints |-> EndpointsOf(k),
                                  timeout |-> TimeoutOf(k), token |-> HeaderOf(k)]]]
    /\ UNCHANGED <<config, headers, list, meant, writers>>

\* The call settles, also because its login failed.
Settle(i) ==
    /\ clients[i].at \in {"login", "sent"}
    /\ Update(i, Idle(clients[i]))

\* The answer to a begin request makes a transactional client.
BeginAnswered(i) ==
    /\ clients[i].at = "sent"
    /\ clients[i].call = "begin"
    /\ Len(clients) < MaxClients
    /\ clients' = Append([clients EXCEPT ![i] = Idle(@)], TransactionOf(clients[i].config))
    /\ UNCHANGED <<config, headers, list, meant, writers, steps>>

\* A 401.  A client of a repository clears the token, which throws without a user; a
\* server client does not.
Refused(i) ==
    LET k == clients[i] IN
    /\ k.at = "sent"
    /\ Update(i, CASE ~KeepAlive(k) -> Idle(k)
                   [] KeepAlive(k) /\ k.kind = "server" -> Login(k)
                   [] KeepAlive(k) /\ k.kind # "server" /\ k.user = None -> Idle(k)
                   [] OTHER -> Login([k EXCEPT !.user = Cleared]))

Next ==
    \/ Setter
    \/ \E c \in RepositoryConfigs : CreateRepositoryClient(c)
    \/ \E c \in ServerConfigs : CreateServerClient(c)
    \/ \E i \in DOMAIN clients :
        \/ \E call \in {"read", "write", "begin"}, own \in OwnHeaders : Call(i, call, own)
        \/ LoginSucceeds(i)
        \/ Send(i)
        \/ Settle(i)
        \/ BeginAnswered(i)
        \/ Refused(i)

Spec == Init /\ [][Next]_vars

----------------------------------------------------------------------------
(* Properties                                                              *)

Sends(i) == i \in DOMAIN clients /\ clients[i].at = "resume" /\ clients'[i].at = "sent"

\* The configuration still has the headers object that its client shares.
SameHeaders(k) == k.headers = config[k.config].headers

\* A request goes where the endpoints of its client pointed when it was made.  The request
\* of a repository client or in a transaction carries the headers set in its configuration
\* up to now under its own ones.  Excepted is what the application brought about by sharing
\* an object between configurations and changing it through another one, or by giving a live
\* client's configuration another headers object.  The request of a server client carries its
\* own headers and none of its configuration (see ServerHeadersArrive).
ConfigurationReaches(i) ==
    Sends(i) =>
        LET k == clients[i]
            r == clients'[i].request
        IN /\ k.shared \/ r.endpoints = k.promised
           /\ k.kind = "server" => r.headers = k.own
           /\ k.kind # "server" =>
                 \/ ~SameHeaders(k)
                 \/ ~(writers[k.headers] \subseteq {k.config})
                 \/ r.headers = Over(k.own, meant[k.config].headers)

ConfigurationReachesRequests ==
    [][\A i \in 1..MaxClients : ConfigurationReaches(i)]_vars

\* A request of a server client carries the headers of its configuration, as long as nobody
\* changes the headers object through another one: "Sets the default headers map for each
\* HTTP request" (client-config.js:27), as README.md:137-143 does for a ServerClient.
ServerHeadersArrive ==
    [][\A i \in 1..MaxClients : Sends(i) =>
          LET k == clients[i] IN
          k.kind = "server" /\ writers[config[k.config].headers] \subseteq {k.config}
             => clients'[i].request.headers = Over(k.own, meant[k.config].headers)]_vars

\* A request carries no token but one of credentials that its configuration had since the
\* client was made (a transaction: that its parent's had when it began); and after a login
\* it carries the token of the credentials the login was made with.
LoggedIn(i) ==
    Sends(i) =>
        LET k == clients[i]
            token == clients'[i].request.token
        IN /\ token \in k.had \cup {None}
           /\ k.login # None => token = k.login

LoggedInAsConfigured == [][\A i \in 1..MaxClients : LoggedIn(i)]_vars

\* "Any HTTP request sent through the client will include the custom header", whose value
\* is "the location passed into setLocation()": README.md:412-419.
LocationArrives(i) ==
    Sends(i) =>
        LET k == clients[i]
            location == meant[k.config].headers.location
        IN k.kind # "server" /\ SameHeaders(k) /\ location # None
               => clients'[i].request.headers.location = location

LocationAsSet == [][\A i \in 1..MaxClients : LocationArrives(i)]_vars
=============================================================================
