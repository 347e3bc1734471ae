--------------------------- MODULE Administration ---------------------------
(***************************************************************************)
(* The operations of ServerClient and GraphDBServerClient: what each asks  *)
(* of the server, and what it makes of the answer.  How a request is       *)
(* executed, with its login and its repetition after a 401, is the module  *)
(* Server's subject; here only the times matter at which a call is made,   *)
(* sent, served and settled.  Calls overlap, and the application goes on   *)
(* changing the objects it passed to them.                                 *)
(*                                                                         *)
(* The parameters of a RepositoryConfig and the array of authorities stay  *)
(* references until a request is serialized; the fields of AppSettings are *)
(* copied when the call is made.  Passwords travel like the name of a user *)
(* and are left out.                                                       *)
(***************************************************************************)
EXTENDS Naturals, Sequences

CONSTANTS
    Ids,         \* ids of repositories
    Locations,   \* remote locations
    Names,       \* names of users
    Contents,    \* contents of the objects that the application passes
    Original,    \* the content that every object starts with
    MaxOrders,   \* bound: number of calls
    MaxEdits     \* bound: number of changes of the objects

VARIABLES
    server,    \* repositories, accounts, security and free access on the server
    objects,   \* the application's params, authorities and AppSettings
    orders,    \* the calls made so far
    edits      \* number of changes of the objects

vars == <<server, objects, orders, edits>>

Unset == "unset"
Held == Contents \cup {Unset}
Places == Locations \cup {Unset}
NoAccount == [authorities |-> Unset, settings |-> Unset]

Located == {"getRepositoryIDs", "hasRepository", "deleteRepository", "getRepositoryConfig",
            "downloadRepositoryConfig", "createRepository"}
OnRepository == {"hasRepository", "getRepository", "deleteRepository", "getRepositoryConfig",
                 "downloadRepositoryConfig", "createRepository"}
OnUser == {"createUser", "updateUser", "updateUserData", "getUser", "deleteUser"}
Switches == {"toggleSecurity", "updateFreeAccess"}
Writes == {"deleteRepository", "createRepository", "createUser", "updateUser",
           "updateUserData", "deleteUser"} \cup Switches
OfServerClient == {"getRepositoryIDs", "hasRepository", "getRepository", "deleteRepository"}
Operations == Located \cup OnRepository \cup OnUser \cup Switches
                \cup {"getDefaultConfig", "isSecurityEnabled", "getFreeAccess"}

\* The calls an application can make: those with a missing id throw.
Calls ==
    {a \in [op : Operations, client : {"ServerClient", "GraphDBServerClient"},
            id : Ids \cup {Unset}, location : Places, name : Names \cup {Unset},
            enabled : BOOLEAN] :
        /\ a.client = "ServerClient" => a.op \in OfServerClient /\ a.location = Unset
        /\ a.id # Unset <=> a.op \in OnRepository
        /\ a.location # Unset => a.op \in Located
        /\ a.name # Unset <=> a.op \in OnUser
        /\ a.enabled => a.op \in Switches}

(***************************************************************************)
(* The requests of the two classes                                         *)
(***************************************************************************)

Method(a) ==
    CASE a.op \in {"deleteRepository", "deleteUser"} -> "delete"
      [] a.op \in {"createRepository", "updateUser"} -> "put"
      [] a.op = "updateUserData" -> "patch"
      [] a.op \in Switches \cup {"createUser"} -> "post"
      [] OTHER -> "get"

Path(a) ==
    CASE a.client = "ServerClient" ->
            IF a.op = "deleteRepository" THEN <<"repositories", a.id>> ELSE <<"repositories">>
      [] a.client = "GraphDBServerClient" /\ a.op \in {"getRepositoryIDs", "hasRepository",
                                                       "getRepository"} ->
            <<"rest", "repositories">>
      [] a.client = "GraphDBServerClient" /\ a.op \in {"deleteRepository", "createRepository",
                                                       "getRepositoryConfig"} ->
            <<"rest", "repositories", a.id>>
      [] a.op = "downloadRepositoryConfig" -> <<"rest", "repositories", a.id, "download-ttl">>
      [] a.op = "getDefaultConfig" -> <<"rest", "repositories", "default-config", "free">>
      [] a.op \in {"isSecurityEnabled", "toggleSecurity"} -> <<"rest", "security">>
      [] a.op \in {"getFreeAccess", "updateFreeAccess"} -> <<"rest", "security", "free-access">>
      [] a.op \in OnUser -> <<"rest", "security", "users", a.name>>

\* The objects that are passed to an operation.
ObjectsOf(a) ==
    CASE a.op = "createRepository" -> {"params"}
      [] a.op \in {"updateFreeAccess", "createUser", "updateUser"} -> {"authorities", "settings"}
      [] a.op = "updateUserData" -> {"settings"}
      [] OTHER -> {}

\* Slip: hasRepository does not pass its location on.
LocationForgotten(a) == IF a.op = "hasRepository" THEN Unset ELSE a.location

\* getLocationParameter.
LocationParameter(a) == a.location

\* Slip: the settings are passed by reference like the authorities.
SettingsByReference(o, current) == current.settings

\* objectToJson copies the fields when the call is made.
SettingsSent(o, current) == o.settings

\* The request as it is serialized when it is sent.
RequestOf(o, current) ==
    LET a == o.ask IN
    [method |-> Method(a), path |-> Path(a), location |-> LocationParameter(a),
     enabled |-> a.enabled,
     params |-> IF "params" \in ObjectsOf(a) THEN current.params ELSE Unset,
     authorities |-> IF "authorities" \in ObjectsOf(a) THEN current.authorities ELSE Unset,
     settings |-> IF "settings" \in ObjectsOf(a) THEN SettingsSent(o, current) ELSE Unset]

\* What the promise of a call is resolved to, given the data of the answer.
ResultOf(a, data) ==
    CASE a.op = "hasRepository" -> a.id \in data
      [] a.op = "getRepository" -> IF a.id \in data THEN "client" ELSE "rejected"
      [] OTHER -> data

(***************************************************************************)
(* The server                                                              *)
(***************************************************************************)

IdsAt(s, place) == {id \in Ids : s.repositories[<<place, id>>] # Unset}

\* External: what a request that is not a GET does.
Effect(r, s) ==
    LET Has(m, path) == r.method = m /\ r.path = path
        Repository(id) == <<"rest", "repositories", id>>
        Account(n) == <<"rest", "security", "users", n>>
        new == [authorities |-> r.authorities, settings |-> r.settings]
    IN [s EXCEPT
          !.repositories = [at \in DOMAIN @ |->
              CASE at[1] = Unset /\ Has("delete", <<"repositories", at[2]>>) -> Unset
                [] at[1] = r.location /\ Has("delete", Repository(at[2])) -> Unset
                [] at[1] = r.location /\ Has("put", Repository(at[2])) -> r.params
                [] OTHER -> @[at]],
          !.secured = IF Has("post", <<"rest", "security">>) THEN r.enabled ELSE @,
          !.freeAccess = IF Has("post", <<"rest", "security", "free-access">>)
                         THEN [enabled |-> r.enabled, account |-> new] ELSE @,
          !.accounts = [n \in DOMAIN @ |->
              CASE Has("post", Account(n)) /\ @[n] = NoAccount -> new
                [] Has("put", Account(n)) /\ @[n] # NoAccount -> new
                [] Has("patch", Account(n)) /\ @[n] # NoAccount ->
                      [@[n] EXCEPT !.settings = r.settings]
                [] Has("delete", Account(n)) -> NoAccount
                [] OTHER -> @[n]]]

\* External: the data with which a GET is answered.
Response(r, s) ==
    CASE r.method # "get" -> "done"
      [] r.method = "get" /\ r.path = <<"repositories">> -> IdsAt(s, Unset)
      [] r.method = "get" /\ r.path = <<"rest", "repositories">> -> IdsAt(s, r.location)
      [] r.method = "get" /\ Len(r.path) > 2 /\ r.path[2] = "repositories" ->
            IF r.path[3] \in Ids THEN s.repositories[<<r.location, r.path[3]>>] ELSE "default"
      [] r.method = "get" /\ r.path = <<"rest", "security">> -> s.secured
      [] r.method = "get" /\ r.path = <<"rest", "security", "free-access">> -> s.freeAccess
      [] r.method = "get" /\ Len(r.path) = 4 /\ r.path[2] = "security" ->
            s.accounts[r.path[4]]

(***************************************************************************)
(* What the operations are for, by their documentation                     *)
(***************************************************************************)

\* What the server should become, if a call was made with the objects o.
AskedEffect(a, o, s) ==
    LET account == [authorities |-> o.authorities, settings |-> o.settings] IN
    CASE a.op = "deleteRepository" -> [s EXCEPT !.repositories[<<a.location, a.id>>] = Unset]
      [] a.op = "createRepository" -> [s EXCEPT !.repositories[<<a.location, a.id>>] = o.params]
      [] a.op = "toggleSecurity" -> [s EXCEPT !.secured = a.enabled]
      [] a.op = "updateFreeAccess" ->
            [s EXCEPT !.freeAccess = [enabled |-> a.enabled, account |-> account]]
      [] a.op = "createUser" /\ s.accounts[a.name] = NoAccount ->
            [s EXCEPT !.accounts[a.name] = account]
      [] a.op = "updateUser" /\ s.accounts[a.name] # NoAccount ->
            [s EXCEPT !.accounts[a.name] = account]
      [] a.op = "updateUserData" /\ s.accounts[a.name] # NoAccount ->
            [s EXCEPT !.accounts[a.name].settings = o.settings]
      [] a.op = "deleteUser" -> [s EXCEPT !.accounts[a.name] = NoAccount]
      [] OTHER -> s

\* The right result of a read at one moment.
Truth(a, s) ==
    LET exists == a.id \in IdsAt(s, a.location) IN
    CASE a.op = "getRepositoryIDs" -> IdsAt(s, a.location)
      [] a.op = "hasRepository" -> exists
      [] a.op = "getRepository" -> IF exists THEN "client" ELSE "rejected"
      [] a.op \in {"getRepositoryConfig", "downloadRepositoryConfig"} ->
            s.repositories[<<a.location, a.id>>]
      [] a.op = "getDefaultConfig" -> "default"
      [] a.op = "isSecurityEnabled" -> s.secured
      [] a.op = "getFreeAccess" -> s.freeAccess
      [] a.op = "getUser" -> s.accounts[a.name]
      [] OTHER -> "done"

(***************************************************************************)
(* Behaviour                                                               *)
(***************************************************************************)

\* What is assumed of the constants: no repository is named like a path of the server.
ConstantsOK ==
    /\ "default-config" \notin Ids
    /\ Original \in Contents
    /\ MaxOrders \in Nat /\ MaxEdits \in Nat

TypeOK ==
    /\ server.repositories \in [Places \X Ids -> Held]
    /\ server.accounts \in [Names -> [authorities : Held, settings : Held]]
    /\ server.secured \in BOOLEAN
    /\ server.freeAccess.enabled \in BOOLEAN
    /\ objects \in [params : Contents, authorities : Contents, settings : Contents]
    /\ Len(orders) <= MaxOrders
    /\ \A i \in DOMAIN orders :
        /\ orders[i].ask.op \in Operations
        /\ orders[i].at \in {"waiting", "sent", "settled", "failed"}
        /\ Len(orders[i].request) <= 1
        /\ Len(orders[i].answer) <= 1
        /\ Len(orders[i].result) <= 1
    /\ edits \in 0..MaxEdits

\* One repository on the server itself, none elsewhere, and one account.
Init ==
    \E id \in Ids, name \in Names :
        /\ server = [repositories |-> [at \in Places \X Ids |->
                                         IF at = <<Unset, id>> THEN Original ELSE Unset],
                     accounts |-> [n \in Names |->
                                     IF n = name
                                     THEN [authorities |-> Original, settings |-> Original]
                                     ELSE NoAccount],
                     secured |-> FALSE,
                     freeAccess |-> [enabled |-> FALSE, account |-> NoAccount]]
        /\ objects = [params |-> Original, authorities |-> Original, settings |-> Original]
        /\ orders = <<>>
        /\ edits = 0

\* An operation is called, up to the login of execute.  asked, edited, served and seen
\* are history: the objects at the time of the call, whether a reference was changed
\* before the request was serialized, whether the server has handled it, and the right
\* results since.
Order(a) ==
    /\ orders' = Append(orders,
           [ask |-> a, settings |-> objects.settings, at |-> "waiting",
            request |-> <<>>, answer |-> <<>>, result |-> <<>>,
            asked |-> objects, edited |-> FALSE, served |-> FALSE,
            seen |-> {Truth(a, server)}])
    /\ UNCHANGED <<server, objects, edits>>

Pending(o) == o.at \in {"waiting", "sent"}

Update(i, o) ==
    /\ orders' = [orders EXCEPT ![i] = o]
    /\ UNCHANGED <<server, objects, edits>>

\* The callback of login.
Send(i) ==
    LET o == orders[i] IN
    /\ o.at = "waiting"
    /\ Update(i, [o EXCEPT !.at = "sent", !.request = <<RequestOf(o, objects)>>])

\* External: a request is handled, also one that nobody waits for any more.
Serve(i) ==
    LET o == orders[i]
        after == Effect(o.request[1], server)
    IN /\ o.request # <<>>
       /\ server' = after
       /\ orders' = [j \in DOMAIN orders |->
              IF j = i
              THEN [o EXCEPT !.request = <<>>, !.served = TRUE,
                             !.answer = IF o.at = "sent"
                                        THEN <<Response(o.request[1], server)>> ELSE @,
                             !.seen = IF Pending(o) THEN @ \cup {Truth(o.ask, after)} ELSE @]
              ELSE [orders[j] EXCEPT
                      !.seen = IF Pending(orders[j])
                               THEN @ \cup {Truth(orders[j].ask, after)} ELSE @]]
       /\ UNCHANGED <<objects, edits>>

\* A 401: the request is executed again.
Refuse(i) ==
    /\ orders[i].at = "sent"
    /\ orders[i].request # <<>>
    /\ Update(i, [orders[i] EXCEPT !.at = "waiting", !.request = <<>>])

\* The answer arrives and the promise settles.
Receive(i) ==
    LET o == orders[i] IN
    /\ o.at = "sent"
    /\ o.answer # <<>>
    /\ Update(i, [o EXCEPT !.at = "settled", !.answer = <<>>,
                           !.result = <<ResultOf(o.ask, o.answer[1])>>])

\* The login fails, the request does, or its answer is lost.
GiveUp(i) ==
    LET o == orders[i] IN
    /\ Pending(o)
    /\ \E request \in {<<>>, o.request} :
        Update(i, [o EXCEPT !.at = "failed", !.answer = <<>>, !.request = request])

\* The application changes an object that it passed to a pending call.
Edit(field, content) ==
    /\ edits < MaxEdits
    /\ \E i \in DOMAIN orders : Pending(orders[i]) /\ field \in ObjectsOf(orders[i].ask)
    /\ objects[field] # content
    /\ edits' = edits + 1
    /\ objects' = [objects EXCEPT ![field] = content]
    /\ orders' = [i \in DOMAIN orders |->
           [orders[i] EXCEPT
              !.edited = \/ @
                         \/ /\ Pending(orders[i])
                            /\ field \in ObjectsOf(orders[i].ask)
                            /\ field # "settings"]]
    /\ UNCHANGED server

Next ==
    \/ Len(orders) < MaxOrders /\ \E a \in Calls : Order(a)
    \/ \E i \in DOMAIN orders : Send(i) \/ Serve(i) \/ Refuse(i) \/ Receive(i) \/ GiveUp(i)
    \/ \E field \in {"params", "authorities", "settings"}, content \in Contents :
          Edit(field, content)

Spec == Init /\ [][Next]_vars

----------------------------------------------------------------------------
(* Properties                                                              *)

\* When the server handles a request, it becomes what the operation is for: as called, with
\* the objects passed to it as they were then, even if the call has been repeated or given
\* up since.  Excepted are calls of which the application changed a part that stays a
\* reference.
CarriedOut(i) ==
    i \in DOMAIN orders /\ ~orders[i].served /\ orders'[i].served
        => orders[i].edited
           \/ server' = AskedEffect(orders[i].ask, orders[i].asked, server)

CarriedOutAsAsked == [][\A i \in 1..MaxOrders : CarriedOut(i)]_vars

\* The result of a call that reads was right at some moment between the call and the
\* result.  In particular getRepository, which checks first and makes a client then,
\* resolves only if the repository existed while it was pending, and rejects only if it
\* was missing.
AnsweredTruthfully ==
    \A i \in DOMAIN orders :
        orders[i].result # <<>> /\ orders[i].ask.op \notin Writes
            => orders[i].result[1] \in orders[i].seen
=============================================================================
