------------------------ MODULE Administration_proofs ------------------------
(***************************************************************************)
(* What the operations of the server clients promise, proved for any       *)
(* repositories, users, locations and contents, and any number of          *)
(* overlapping calls.                                                      *)
(***************************************************************************)
EXTENDS Administration, SequenceTheorems, TLAPS

Accounts == [authorities : Held, settings : Held]

Servers ==
    [repositories : [Places \X Ids -> Held], accounts : [Names -> Accounts],
     secured : BOOLEAN, freeAccess : [enabled : BOOLEAN, account : Accounts]]

Objects == [params : Contents, authorities : Contents, settings : Contents]

Fields == {"ask", "settings", "at", "request", "answer", "result", "asked", "edited",
           "served", "seen"}

\* An order has every field, a call that can be made, and the settings as they were then.
OrderTyped(o) ==
    /\ DOMAIN o = Fields
    /\ o.ask \in Calls
    /\ o.at \in {"waiting", "sent", "settled", "failed"}
    /\ o.asked \in Objects /\ o.settings = o.asked.settings
    /\ o.edited \in BOOLEAN /\ o.served \in BOOLEAN
    /\ Len(o.answer) <= 1 /\ Len(o.result) <= 1

\* A request not handled yet is that of the call, with objects as they were at some time:
\* when the call was made, unless it is marked as edited.  It is sent after the login.
RequestOK(o) ==
    /\ o.request = <<>> \/ \E current \in Objects : o.request = <<RequestOf(o, current)>>
    /\ o.request = <<>> \/ o.edited \/ o.request = <<RequestOf(o, o.asked)>>
    /\ o.request # <<>> => o.answer = <<>>
    /\ o.at = "waiting" => o.request = <<>> /\ o.answer = <<>>

\* The objects of a pending call are what they were when it was made, or it is marked.
ReferencesOK(o) ==
    Pending(o) /\ ~o.edited =>
        \A field \in ObjectsOf(o.ask) \ {"settings"} : objects[field] = o.asked[field]

\* What has been seen includes what is true now, and whatever the answer or the result says.
SeenOK(o) ==
    /\ Pending(o) => Truth(o.ask, server) \in o.seen
    /\ o.answer # <<>> /\ o.ask.op \notin Writes => ResultOf(o.ask, o.answer[1]) \in o.seen
    /\ o.result # <<>> /\ o.ask.op \notin Writes => o.result[1] \in o.seen

OrderOK(o) == OrderTyped(o) /\ RequestOK(o) /\ ReferencesOK(o) /\ SeenOK(o)

IInv ==
    /\ server \in Servers
    /\ objects \in Objects
    /\ edits \in 0..MaxEdits
    /\ \E S : orders \in Seq(S)
    /\ Len(orders) <= MaxOrders
    /\ \A i \in DOMAIN orders : OrderOK(orders[i])

----------------------------------------------------------------------------
(* The requests of the operations                                          *)

Reads == {"getRepositoryIDs", "hasRepository", "getRepository", "getRepositoryConfig",
          "downloadRepositoryConfig", "getUser", "getDefaultConfig", "isSecurityEnabled",
          "getFreeAccess"}

\* The operations, and the arguments that each of them has.
LEMMA CallCases ==
    ASSUME NEW a \in Calls
    PROVE  /\ a.op \in Reads \cup Writes
           /\ a.client \in {"ServerClient", "GraphDBServerClient"}
           /\ a.location \in Places /\ a.enabled \in BOOLEAN
           /\ a.client = "ServerClient" =>
                a.op \in {"getRepositoryIDs", "hasRepository", "getRepository",
                          "deleteRepository"} /\ a.location = Unset
           /\ a.op \in OnRepository => a.id \in Ids
           /\ a.op \in OnUser => a.name \in Names
           /\ a.op = "getRepository" => a.location = Unset
BY DEF Calls, Operations, Located, OnRepository, OnUser, Switches, Writes, OfServerClient, Reads

\* The path of every operation.
LEMMA Paths ==
    ASSUME NEW a \in Calls
    PROVE  LET server1 == a.client = "ServerClient" IN
           /\ a.op = "deleteRepository" =>
                Path(a) = IF server1 THEN <<"repositories", a.id>>
                                     ELSE <<"rest", "repositories", a.id>>
           /\ a.op \in {"getRepositoryIDs", "hasRepository", "getRepository"} =>
                Path(a) = IF server1 THEN <<"repositories">> ELSE <<"rest", "repositories">>
           /\ a.op \in {"createRepository", "getRepositoryConfig"} =>
                Path(a) = <<"rest", "repositories", a.id>>
           /\ a.op = "downloadRepositoryConfig" =>
                Path(a) = <<"rest", "repositories", a.id, "download-ttl">>
           /\ a.op = "getDefaultConfig" =>
                Path(a) = <<"rest", "repositories", "default-config", "free">>
           /\ a.op \in {"isSecurityEnabled", "toggleSecurity"} => Path(a) = <<"rest", "security">>
           /\ a.op \in {"getFreeAccess", "updateFreeAccess"} =>
                Path(a) = <<"rest", "security", "free-access">>
           /\ a.op \in OnUser => Path(a) = <<"rest", "security", "users", a.name>>
<1>1. CASE a.client = "ServerClient"
  BY <1>1, CallCases DEF Path, OnUser
<1>2. CASE a.client = "GraphDBServerClient"
  <2>1. CASE a.op \in {"getRepositoryIDs", "hasRepository", "getRepository"}
    BY <1>2, <2>1 DEF Path, OnUser
  <2>2. CASE a.op \in {"deleteRepository", "createRepository", "getRepositoryConfig"}
    BY <1>2, <2>2 DEF Path, OnUser
  <2>3. CASE a.op \in {"downloadRepositoryConfig", "getDefaultConfig", "isSecurityEnabled",
                       "toggleSecurity", "getFreeAccess", "updateFreeAccess"}
    BY <1>2, <2>3 DEF Path, OnUser
  <2>4. CASE a.op \in OnUser
    BY <1>2, <2>4 DEF Path, OnUser
  <2> QED BY <2>1, <2>2, <2>3, <2>4, CallCases DEF Reads, Writes, Switches, OnUser
<1> QED BY <1>1, <1>2, CallCases

\* The method of every operation.
LEMMA Methods ==
    ASSUME NEW a \in Calls
    PROVE  /\ a.op \in Reads => Method(a) = "get"
           /\ a.op \in {"deleteRepository", "deleteUser"} => Method(a) = "delete"
           /\ a.op \in {"createRepository", "updateUser"} => Method(a) = "put"
           /\ a.op = "updateUserData" => Method(a) = "patch"
           /\ a.op \in {"toggleSecurity", "updateFreeAccess", "createUser"} => Method(a) = "post"
BY DEF Method, Reads, Switches

\* No two kinds of writing requests are the same.
LEMMA WritesTold ==
    ASSUME NEW a \in Calls, NEW id, NEW n
    PROVE  /\ Method(a) = "delete" /\ Path(a) = <<"repositories", id>>
                <=> a.op = "deleteRepository" /\ a.client = "ServerClient" /\ a.id = id
           /\ Method(a) = "delete" /\ Path(a) = <<"rest", "repositories", id>>
                <=> a.op = "deleteRepository" /\ a.client # "ServerClient" /\ a.id = id
           /\ Method(a) = "put" /\ Path(a) = <<"rest", "repositories", id>>
                <=> a.op = "createRepository" /\ a.id = id
           /\ Method(a) = "post" /\ Path(a) = <<"rest", "security">> <=> a.op = "toggleSecurity"
           /\ Method(a) = "post" /\ Path(a) = <<"rest", "security", "free-access">>
                <=> a.op = "updateFreeAccess"
           /\ Method(a) = "post" /\ Path(a) = <<"rest", "security", "users", n>>
                <=> a.op = "createUser" /\ a.name = n
           /\ Method(a) = "put" /\ Path(a) = <<"rest", "security", "users", n>>
                <=> a.op = "updateUser" /\ a.name = n
           /\ Method(a) = "patch" /\ Path(a) = <<"rest", "security", "users", n>>
                <=> a.op = "updateUserData" /\ a.name = n
           /\ Method(a) = "delete" /\ Path(a) = <<"rest", "security", "users", n>>
                <=> a.op = "deleteUser" /\ a.name = n
<1>1. CASE a.op \in Reads
  BY <1>1, Methods DEF Reads
<1>2. CASE a.op = "deleteRepository"
  <2>1. Method(a) = "delete"
        /\ Path(a) = IF a.client = "ServerClient" THEN <<"repositories", a.id>>
                                                  ELSE <<"rest", "repositories", a.id>>
    BY <1>2, Methods, Paths
  <2> QED BY <1>2, <2>1
<1>3. CASE a.op = "createRepository"
  <2>1. Method(a) = "put" /\ Path(a) = <<"rest", "repositories", a.id>>
    BY <1>3, Methods, Paths
  <2> QED BY <1>3, <2>1
<1>4. CASE a.op = "toggleSecurity"
  <2>1. Method(a) = "post" /\ Path(a) = <<"rest", "security">>
    BY <1>4, Methods, Paths
  <2> QED BY <1>4, <2>1
<1>5. CASE a.op = "updateFreeAccess"
  <2>1. Method(a) = "post" /\ Path(a) = <<"rest", "security", "free-access">>
    BY <1>5, Methods, Paths
  <2> QED BY <1>5, <2>1
<1>6. CASE a.op \in {"createUser", "updateUser", "updateUserData", "deleteUser"}
  <2>1. Path(a) = <<"rest", "security", "users", a.name>>
    BY <1>6, Paths DEF OnUser
  <2>2. Method(a) = CASE a.op = "createUser" -> "post" [] a.op = "updateUser" -> "put"
                      [] a.op = "updateUserData" -> "patch" [] a.op = "deleteUser" -> "delete"
    BY <1>6, Methods
  <2> QED BY <1>6, <2>1, <2>2
<1> QED BY <1>1, <1>2, <1>3, <1>4, <1>5, <1>6, CallCases DEF Writes, Switches

\* What the call a makes of the parts of the server, with the objects in r.
RepositoriesAfter(a, r, s) ==
    [at \in Places \X Ids |->
        CASE a.op = "deleteRepository" /\ at = <<a.location, a.id>> -> Unset
          [] a.op = "createRepository" /\ at = <<a.location, a.id>> -> r.params
          [] OTHER -> s.repositories[at]]

AccountOf(r) == [authorities |-> r.authorities, settings |-> r.settings]

AccountsAfter(a, r, s) ==
    [n \in Names |->
        CASE a.op = "createUser" /\ a.name = n /\ s.accounts[n] = NoAccount -> AccountOf(r)
          [] a.op = "updateUser" /\ a.name = n /\ s.accounts[n] # NoAccount -> AccountOf(r)
          [] a.op = "updateUserData" /\ a.name = n /\ s.accounts[n] # NoAccount ->
                [s.accounts[n] EXCEPT !.settings = r.settings]
          [] a.op = "deleteUser" /\ a.name = n -> NoAccount
          [] OTHER -> s.accounts[n]]

SecuredAfter(a, s) == IF a.op = "toggleSecurity" THEN a.enabled ELSE s.secured

FreeAccessAfter(a, r, s) ==
    IF a.op = "updateFreeAccess" THEN [enabled |-> a.enabled, account |-> AccountOf(r)]
                                 ELSE s.freeAccess

\* What a request does to each part of the server.
LEMMA EffectParts ==
    ASSUME NEW o, o.ask \in Calls, NEW current, NEW s \in Servers, NEW r,
           r = RequestOf(o, current)
    PROVE  Effect(r, s) = [repositories |-> RepositoriesAfter(o.ask, r, s),
                           accounts |-> AccountsAfter(o.ask, r, s),
                           secured |-> SecuredAfter(o.ask, s),
                           freeAccess |-> FreeAccessAfter(o.ask, r, s)]
<1> DEFINE a == o.ask
           new == [authorities |-> r.authorities, settings |-> r.settings]
           Has(m, path) == r.method = m /\ r.path = path
           repositories ==
              [at \in DOMAIN s.repositories |->
                CASE at[1] = Unset /\ Has("delete", <<"repositories", at[2]>>) -> Unset
                  [] at[1] = r.location /\ Has("delete", <<"rest", "repositories", at[2]>>) -> Unset
                  [] at[1] = r.location /\ Has("put", <<"rest", "repositories", at[2]>>) -> r.params
                  [] OTHER -> s.repositories[at]]
           secured == IF Has("post", <<"rest", "security">>) THEN r.enabled ELSE s.secured
           freeAccess == IF Has("post", <<"rest", "security", "free-access">>)
                         THEN [enabled |-> r.enabled, account |-> new] ELSE s.freeAccess
           Account(n) == <<"rest", "security", "users", n>>
           accounts ==
              [n \in DOMAIN s.accounts |->
                CASE Has("post", Account(n)) /\ s.accounts[n] = NoAccount -> new
                  [] Has("put", Account(n)) /\ s.accounts[n] # NoAccount -> new
                  [] Has("patch", Account(n)) /\ s.accounts[n] # NoAccount ->
                        [s.accounts[n] EXCEPT !.settings = r.settings]
                  [] Has("delete", Account(n)) -> NoAccount
                  [] OTHER -> s.accounts[n]]
<1>1. /\ r.method = Method(a) /\ r.path = Path(a)
      /\ r.location = a.location /\ r.enabled = a.enabled
  BY DEF RequestOf, LocationParameter
<1>2. Effect(r, s) = [s EXCEPT !.repositories = repositories, !.secured = secured,
                               !.freeAccess = freeAccess, !.accounts = accounts]
  BY DEF Effect
<1> HIDE DEF a
<1>3. a \in Calls
  BY DEF a
<1>4. repositories = RepositoriesAfter(a, r, s)
  <2>1. DOMAIN s.repositories = Places \X Ids
    BY DEF Servers
  <2>2. ASSUME NEW at \in Places \X Ids
        PROVE  (CASE at[1] = Unset /\ Has("delete", <<"repositories", at[2]>>) -> Unset
                  [] at[1] = r.location /\ Has("delete", <<"rest", "repositories", at[2]>>) -> Unset
                  [] at[1] = r.location /\ Has("put", <<"rest", "repositories", at[2]>>) -> r.params
                  [] OTHER -> s.repositories[at])
             = (CASE a.op = "deleteRepository" /\ at = <<a.location, a.id>> -> Unset
                  [] a.op = "createRepository" /\ at = <<a.location, a.id>> -> r.params
                  [] OTHER -> s.repositories[at])
    <3>1. at = <<at[1], at[2]>>
      OBVIOUS
    <3>2. at = <<a.location, a.id>> <=> at[1] = a.location /\ at[2] = a.id
      BY <3>1
    <3>3. a.op \in {"deleteRepository", "createRepository"} /\ a.client = "ServerClient"
            => a.op = "deleteRepository" /\ a.location = Unset
      BY <1>3, CallCases
    <3>4. /\ Has("delete", <<"repositories", at[2]>>)
                <=> a.op = "deleteRepository" /\ a.client = "ServerClient" /\ a.id = at[2]
          /\ Has("delete", <<"rest", "repositories", at[2]>>)
                <=> a.op = "deleteRepository" /\ a.client # "ServerClient" /\ a.id = at[2]
          /\ Has("put", <<"rest", "repositories", at[2]>>)
                <=> a.op = "createRepository" /\ a.id = at[2]
      BY <1>1, <1>3, WritesTold
    <3> HIDE DEF Has
    <3> QED BY <1>1, <3>2, <3>3, <3>4
  <2> QED BY <2>1, <2>2 DEF RepositoriesAfter
<1>5. accounts = AccountsAfter(a, r, s)
  <2>1. DOMAIN s.accounts = Names
    BY DEF Servers
  <2>2. \A n :
          /\ Has("post", Account(n)) <=> a.op = "createUser" /\ a.name = n
          /\ Has("put", Account(n)) <=> a.op = "updateUser" /\ a.name = n
          /\ Has("patch", Account(n)) <=> a.op = "updateUserData" /\ a.name = n
          /\ Has("delete", Account(n)) <=> a.op = "deleteUser" /\ a.name = n
    BY <1>1, <1>3, WritesTold
  <2> HIDE DEF Has, Account
  <2> QED BY <2>1, <2>2 DEF AccountsAfter, AccountOf
<1>6. secured = SecuredAfter(a, s) /\ freeAccess = FreeAccessAfter(a, r, s)
  BY <1>1, <1>3, WritesTold DEF SecuredAfter, FreeAccessAfter, AccountOf
<1> HIDE DEF repositories, accounts, secured, freeAccess
<1>7. Effect(r, s) = [repositories |-> repositories, accounts |-> accounts,
                      secured |-> secured, freeAccess |-> freeAccess]
  <2> DEFINE e == [s EXCEPT !.repositories = repositories, !.secured = secured,
                             !.freeAccess = freeAccess, !.accounts = accounts]
  <2>1. /\ DOMAIN e = {"repositories", "accounts", "secured", "freeAccess"}
        /\ e = [x \in DOMAIN e |-> e[x]]
        /\ e.repositories = repositories /\ e.accounts = accounts
        /\ e.secured = secured /\ e.freeAccess = freeAccess
    BY DEF Servers
  <2> HIDE DEF e
  <2>2. e = [repositories |-> repositories, accounts |-> accounts,
             secured |-> secured, freeAccess |-> freeAccess]
    BY <2>1
  <2> QED BY <1>2, <2>2 DEF e
<1> QED BY <1>4, <1>5, <1>6, <1>7 DEF a

\* A request made with the objects as they were does what the call is for.
LEMMA EffectAsAsked ==
    ASSUME NEW o, o.ask \in Calls, NEW current \in Objects, o.settings = current.settings,
           NEW s \in Servers
    PROVE  Effect(RequestOf(o, current), s) = AskedEffect(o.ask, current, s)
<1> DEFINE a == o.ask
           r == RequestOf(o, current)
           account == AccountOf(current)
           repositories == RepositoriesAfter(a, r, s)
           accounts == AccountsAfter(a, r, s)
           secured == SecuredAfter(a, s)
           freeAccess == FreeAccessAfter(a, r, s)
<1> SUFFICES Effect(r, s) = AskedEffect(a, current, s)
  OBVIOUS
<1>1. Effect(r, s) = [repositories |-> repositories, accounts |-> accounts,
                      secured |-> secured, freeAccess |-> freeAccess]
  BY EffectParts
<1>2. a \in Calls
  OBVIOUS
<1>3. /\ a.op = "createRepository" => r.params = current.params
      /\ a.op \in {"updateFreeAccess", "createUser", "updateUser"} => AccountOf(r) = account
      /\ a.op = "updateUserData" => r.settings = current.settings
  <2>1. /\ a.op = "createRepository" => ObjectsOf(a) = {"params"}
        /\ a.op \in {"updateFreeAccess", "createUser", "updateUser"}
              => ObjectsOf(a) = {"authorities", "settings"}
        /\ a.op = "updateUserData" => ObjectsOf(a) = {"settings"}
    BY DEF ObjectsOf
  <2>2. r = [method |-> Method(a), path |-> Path(a), location |-> LocationParameter(a),
             enabled |-> a.enabled,
             params |-> IF "params" \in ObjectsOf(a) THEN current.params ELSE Unset,
             authorities |-> IF "authorities" \in ObjectsOf(a) THEN current.authorities ELSE Unset,
             settings |-> IF "settings" \in ObjectsOf(a) THEN current.settings ELSE Unset]
    BY DEF RequestOf, SettingsSent
  <2> QED BY <2>1, <2>2 DEF AccountOf
<1> HIDE DEF r, a, account
<1>4. /\ a.op \notin {"deleteRepository", "createRepository"} => repositories = s.repositories
      /\ a.op = "deleteRepository" =>
            repositories = [s.repositories EXCEPT ![<<a.location, a.id>>] = Unset]
      /\ a.op = "createRepository" =>
            repositories = [s.repositories EXCEPT ![<<a.location, a.id>>] = current.params]
  BY <1>3 DEF Servers, RepositoriesAfter
<1>5. /\ a.op \notin OnUser => accounts = s.accounts
      /\ a.op = "createUser" =>
            accounts = IF s.accounts[a.name] = NoAccount
                       THEN [s.accounts EXCEPT ![a.name] = account] ELSE s.accounts
      /\ a.op = "updateUser" =>
            accounts = IF s.accounts[a.name] # NoAccount
                       THEN [s.accounts EXCEPT ![a.name] = account] ELSE s.accounts
      /\ a.op = "updateUserData" =>
            accounts = IF s.accounts[a.name] # NoAccount
                       THEN [s.accounts EXCEPT ![a.name].settings = current.settings]
                       ELSE s.accounts
      /\ a.op = "deleteUser" => accounts = [s.accounts EXCEPT ![a.name] = NoAccount]
      /\ a.op = "getUser" => accounts = s.accounts
  BY <1>3 DEF Servers, OnUser, AccountsAfter
<1>6. /\ a.op # "toggleSecurity" => secured = s.secured
      /\ a.op = "toggleSecurity" => secured = a.enabled
      /\ a.op # "updateFreeAccess" => freeAccess = s.freeAccess
      /\ a.op = "updateFreeAccess" => freeAccess = [enabled |-> a.enabled, account |-> account]
  BY <1>3 DEF SecuredAfter, FreeAccessAfter
<1> HIDE DEF repositories, accounts, secured, freeAccess
<1>7. s = [repositories |-> s.repositories, accounts |-> s.accounts,
           secured |-> s.secured, freeAccess |-> s.freeAccess]
  BY DEF Servers
<1>8. CASE a.op = "deleteRepository"
  BY <1>1, <1>4, <1>5, <1>6, <1>7, <1>8 DEF AskedEffect, OnUser
<1>9. CASE a.op = "createRepository"
  BY <1>1, <1>4, <1>5, <1>6, <1>7, <1>9 DEF AskedEffect, OnUser
<1>10. CASE a.op = "toggleSecurity"
  BY <1>1, <1>4, <1>5, <1>6, <1>7, <1>10 DEF AskedEffect, OnUser
<1>11. CASE a.op = "updateFreeAccess"
  BY <1>1, <1>4, <1>5, <1>6, <1>7, <1>11 DEF AskedEffect, OnUser, account, AccountOf
<1>12. CASE a.op = "createUser"
  BY <1>1, <1>4, <1>5, <1>6, <1>7, <1>12 DEF AskedEffect, account, AccountOf
<1>13. CASE a.op = "updateUser"
  BY <1>1, <1>4, <1>5, <1>6, <1>7, <1>13 DEF AskedEffect, account, AccountOf
<1>14. CASE a.op = "updateUserData"
  BY <1>1, <1>4, <1>5, <1>6, <1>7, <1>14 DEF AskedEffect
<1>15. CASE a.op = "deleteUser"
  BY <1>1, <1>4, <1>5, <1>6, <1>7, <1>15 DEF AskedEffect
<1>16. CASE a.op \in Reads
  BY <1>1, <1>4, <1>5, <1>6, <1>7, <1>16 DEF AskedEffect, Reads, OnUser
<1> QED BY <1>2, <1>8, <1>9, <1>10, <1>11, <1>12, <1>13, <1>14, <1>15, <1>16, CallCases
       DEF Writes, Switches

\* The answer to a request that reads is the right result.
LEMMA ResponseIsTruth ==
    ASSUME ConstantsOK, NEW o, o.ask \in Calls, o.ask.op \in Reads, NEW current, NEW s
    PROVE  ResultOf(o.ask, Response(RequestOf(o, current), s)) = Truth(o.ask, s)
<1> DEFINE a == o.ask
           r == RequestOf(o, current)
<1> SUFFICES ResultOf(a, Response(r, s)) = Truth(a, s)
  OBVIOUS
<1>1. r.method = "get" /\ r.path = Path(a) /\ r.location = a.location
  BY Methods DEF RequestOf, LocationParameter
<1>2. a \in Calls /\ a.op \in Reads
  OBVIOUS
<1> HIDE DEF r, a
<1>3. CASE a.op \in {"getRepositoryIDs", "hasRepository", "getRepository"}
  <2>1. r.path = IF a.client = "ServerClient" THEN <<"repositories">>
                                             ELSE <<"rest", "repositories">>
    BY <1>1, <1>2, <1>3, Paths
  <2>2. Response(r, s) = IdsAt(s, a.location)
    <3>1. CASE a.client = "ServerClient"
      <4>1. a.location = Unset
        BY <1>2, <3>1, CallCases
      <4> QED BY <1>1, <2>1, <3>1, <4>1 DEF Response
    <3>2. CASE a.client # "ServerClient"
      <4>1. r.path # <<"repositories">>
        BY <2>1, <3>2
      <4> QED BY <1>1, <2>1, <3>2, <4>1 DEF Response
    <3> QED BY <3>1, <3>2
  <2> QED BY <1>3, <2>2 DEF ResultOf, Truth
<1>4. CASE a.op \in {"getRepositoryConfig", "downloadRepositoryConfig"}
  <2>1. r.path \in {<<"rest", "repositories", a.id>>,
                    <<"rest", "repositories", a.id, "download-ttl">>} /\ a.id \in Ids
    BY <1>1, <1>2, <1>4, Paths, CallCases DEF OnRepository
  <2>2. /\ Len(r.path) > 2 /\ r.path[2] = "repositories" /\ r.path[3] = a.id
        /\ r.path # <<"repositories">> /\ r.path # <<"rest", "repositories">>
    <3>1. CASE r.path = <<"rest", "repositories", a.id>>
      BY <3>1
    <3>2. CASE r.path = <<"rest", "repositories", a.id, "download-ttl">>
      BY <3>2
    <3> QED BY <2>1, <3>1, <3>2
  <2>3. Response(r, s) = s.repositories[<<a.location, a.id>>]
    BY <1>1, <2>1, <2>2 DEF Response
  <2> QED BY <1>4, <2>3 DEF ResultOf, Truth
<1>5. CASE a.op = "getDefaultConfig"
  <2>1. r.path = <<"rest", "repositories", "default-config", "free">>
    BY <1>1, <1>2, <1>5, Paths
  <2>2. /\ Len(r.path) > 2 /\ r.path[2] = "repositories" /\ r.path[3] = "default-config"
        /\ r.path # <<"repositories">> /\ r.path # <<"rest", "repositories">>
    BY <2>1
  <2>3. Response(r, s) = "default"
    BY <1>1, <2>2 DEF Response, ConstantsOK
  <2> QED BY <1>5, <2>3 DEF ResultOf, Truth
<1>6. CASE a.op = "isSecurityEnabled"
  <2>1. r.path = <<"rest", "security">>
    BY <1>1, <1>2, <1>6, Paths
  <2>2. /\ r.path # <<"repositories">> /\ r.path # <<"rest", "repositories">>
        /\ ~(Len(r.path) > 2)
    BY <2>1
  <2>3. Response(r, s) = s.secured
    BY <1>1, <2>1, <2>2 DEF Response
  <2> QED BY <1>6, <2>3 DEF ResultOf, Truth
<1>7. CASE a.op = "getFreeAccess"
  <2>1. r.path = <<"rest", "security", "free-access">>
    BY <1>1, <1>2, <1>7, Paths
  <2>2. /\ r.path # <<"repositories">> /\ r.path # <<"rest", "repositories">>
        /\ r.path[2] # "repositories" /\ r.path # <<"rest", "security">>
    BY <2>1
  <2>3. Response(r, s) = s.freeAccess
    BY <1>1, <2>1, <2>2 DEF Response
  <2> QED BY <1>7, <2>3 DEF ResultOf, Truth
<1>8. CASE a.op = "getUser"
  <2>1. r.path = <<"rest", "security", "users", a.name>>
    BY <1>1, <1>2, <1>8, Paths DEF OnUser
  <2>2. /\ r.path # <<"repositories">> /\ r.path # <<"rest", "repositories">>
        /\ r.path[2] = "security" /\ Len(r.path) = 4 /\ r.path[4] = a.name
        /\ r.path # <<"rest", "security">> /\ r.path # <<"rest", "security", "free-access">>
    BY <2>1
  <2>3. Response(r, s) = s.accounts[a.name]
    BY <1>1, <2>2 DEF Response
  <2> QED BY <1>8, <2>3 DEF ResultOf, Truth
<1> QED BY <1>2, <1>3, <1>4, <1>5, <1>6, <1>7, <1>8 DEF Reads

\* Handling a request leaves a server.
LEMMA EffectTyped ==
    ASSUME NEW o, o.ask \in Calls, o.settings \in Contents, NEW current \in Objects,
           NEW s \in Servers
    PROVE  Effect(RequestOf(o, current), s) \in Servers
<1> DEFINE a == o.ask
           r == RequestOf(o, current)
<1> SUFFICES Effect(r, s) \in Servers
  OBVIOUS
<1>1. r.params \in Held /\ AccountOf(r) \in Accounts /\ r.settings \in Held
  BY DEF RequestOf, SettingsSent, Objects, Held, Accounts, AccountOf
<1>2. a.enabled \in BOOLEAN
  BY CallCases
<1>3. Unset \in Held /\ NoAccount \in Accounts
  BY DEF Held, NoAccount, Accounts
<1>4. \A n \in Names : s.accounts[n] \in Accounts
                        /\ [s.accounts[n] EXCEPT !.settings = r.settings] \in Accounts
  BY <1>1 DEF Servers, Accounts
<1>5. Effect(r, s) = [repositories |-> RepositoriesAfter(a, r, s),
                      accounts |-> AccountsAfter(a, r, s),
                      secured |-> SecuredAfter(a, s), freeAccess |-> FreeAccessAfter(a, r, s)]
  BY EffectParts
<1> HIDE DEF r, a
<1>6. RepositoriesAfter(a, r, s) \in [Places \X Ids -> Held]
  BY <1>1, <1>3 DEF Servers, RepositoriesAfter
<1>7. AccountsAfter(a, r, s) \in [Names -> Accounts]
  BY <1>1, <1>3, <1>4 DEF Servers, AccountsAfter
<1>8. /\ SecuredAfter(a, s) \in BOOLEAN
      /\ FreeAccessAfter(a, r, s) \in [enabled : BOOLEAN, account : Accounts]
  BY <1>1, <1>2 DEF Servers, SecuredAfter, FreeAccessAfter
<1> QED BY <1>5, <1>6, <1>7, <1>8 DEF Servers

----------------------------------------------------------------------------
(* Steps                                                                   *)

\* A function on 1..n is a sequence of length n.
LEMMA FunctionIsSeq ==
    ASSUME NEW n \in Nat, NEW f, f = [j \in 1..n |-> f[j]]
    PROVE  (\E S : f \in Seq(S)) /\ Len(f) = n
<1> DEFINE S == {f[j] : j \in 1..n}
<1>1. f \in [1..n -> S]
  OBVIOUS
<1> HIDE DEF S
<1>2. f \in Seq(S) /\ Len(f) = n
  BY <1>1
<1> QED BY <1>2

\* The calls are numbered from 1.
LEMMA OrdersAre ==
    ASSUME IInv
    PROVE  Len(orders) \in Nat /\ DOMAIN orders = 1..Len(orders)
BY LenProperties DEF IInv

\* At first no call has been made.
LEMMA InitIInv == ConstantsOK /\ Init => IInv
<1> SUFFICES ASSUME ConstantsOK, Init PROVE IInv
  OBVIOUS
<1>1. Original \in Contents /\ Original \in Held /\ Unset \in Held /\ NoAccount \in Accounts
      /\ [authorities |-> Original, settings |-> Original] \in Accounts
  BY DEF ConstantsOK, Held, Accounts, NoAccount
<1>2. server \in Servers
  BY <1>1 DEF Init, Servers
<1>3. objects \in Objects /\ edits \in 0..MaxEdits
  BY <1>1 DEF Init, Objects, ConstantsOK
<1>4. orders = <<>> /\ <<>> \in Seq({})
  BY DEF Init
<1> QED BY <1>2, <1>3, <1>4 DEF IInv, ConstantsOK

\* A new call has the objects as they are, has sent nothing, and has seen what is true now.
LEMMA OrderKeeps ==
    ASSUME ConstantsOK, IInv, Len(orders) < MaxOrders, NEW a \in Calls, Order(a)
    PROVE  IInv'
<1> DEFINE o == [ask |-> a, settings |-> objects.settings, at |-> "waiting",
                 request |-> <<>>, answer |-> <<>>, result |-> <<>>,
                 asked |-> objects, edited |-> FALSE, served |-> FALSE,
                 seen |-> {Truth(a, server)}]
<1>1. OrderOK(o)
  BY DEF OrderOK, OrderTyped, RequestOK, ReferencesOK, SeenOK, IInv, Fields, Pending
<1>2. orders' = Append(orders, o) /\ UNCHANGED <<server, objects, edits>>
  BY DEF Order
<1> HIDE DEF o
<1>3. PICK S : orders \in Seq(S)
  BY DEF IInv
<1>4. /\ orders' \in Seq(S \cup {o}) /\ Len(orders') = Len(orders) + 1
      /\ \A j \in DOMAIN orders' : orders'[j] = o \/ (j \in DOMAIN orders /\ orders'[j] = orders[j])
  <2>1. orders \in Seq(S \cup {o})
    BY <1>3, SeqMonotonic
  <2> QED BY <1>2, <2>1
<1>5. \A j \in DOMAIN orders' : OrderOK(orders'[j])
  BY <1>1, <1>4 DEF IInv
<1>6. \A j \in DOMAIN orders' : OrderOK(orders[j])'
  BY <1>2, <1>5 DEF OrderOK, OrderTyped, RequestOK, ReferencesOK, SeenOK, Pending
<1>7. Len(orders') <= MaxOrders
  BY <1>4, OrdersAre DEF ConstantsOK
<1> QED BY <1>2, <1>4, <1>6, <1>7 DEF IInv

\* A step of one call keeps the invariant if the call is as it should be afterwards.
LEMMA UpdateKeeps ==
    ASSUME IInv, NEW i \in DOMAIN orders, NEW o, OrderOK(o), Update(i, o)
    PROVE  IInv'
<1>1. orders' = [orders EXCEPT ![i] = o] /\ UNCHANGED <<server, objects, edits>>
  BY DEF Update
<1>2. PICK S : orders \in Seq(S)
  BY DEF IInv
<1>3. /\ orders' \in Seq(S \cup {o}) /\ Len(orders') = Len(orders)
      /\ \A j \in DOMAIN orders' : orders'[j] = o \/ (j \in DOMAIN orders /\ orders'[j] = orders[j])
  <2>1. orders \in Seq(S \cup {o}) /\ i \in 1..Len(orders)
    BY <1>2, SeqMonotonic
  <2> QED BY <1>1, <2>1, ExceptSeq
<1>4. \A j \in DOMAIN orders' : OrderOK(orders'[j])
  BY <1>3 DEF IInv
<1>5. \A j \in DOMAIN orders' : OrderOK(orders[j])'
  BY <1>1, <1>4 DEF OrderOK, OrderTyped, RequestOK, ReferencesOK, SeenOK, Pending
<1> QED BY <1>1, <1>3, <1>5 DEF IInv

\* Every call is as it should be.
LEMMA OrderIs == ASSUME IInv, NEW i \in DOMAIN orders PROVE OrderOK(orders[i])
BY DEF IInv

\* The request is made of the objects as they are now, which is as they were unless edited.
LEMMA SendKeeps == ASSUME IInv, NEW i \in DOMAIN orders, Send(i) PROVE IInv'
<1> DEFINE o == orders[i]
           sent == [o EXCEPT !.at = "sent", !.request = <<RequestOf(o, objects)>>]
<1>1. OrderOK(o) /\ o.at = "waiting" /\ Update(i, sent)
  BY OrderIs DEF Send
<1> HIDE DEF o
<1>2. /\ DOMAIN sent = Fields /\ sent.at = "sent" /\ sent.request = <<RequestOf(o, objects)>>
      /\ sent.ask = o.ask /\ sent.settings = o.settings /\ sent.answer = o.answer
      /\ sent.result = o.result /\ sent.asked = o.asked /\ sent.edited = o.edited
      /\ sent.served = o.served /\ sent.seen = o.seen
  BY <1>1 DEF OrderOK, OrderTyped, Fields
<1> HIDE DEF sent
<1>3. \A current : RequestOf(sent, current) = RequestOf(o, current)
  BY <1>2 DEF RequestOf, SettingsSent
<1>4. ~o.edited => RequestOf(o, objects) = RequestOf(o, o.asked)
  BY <1>1 DEF OrderOK, ReferencesOK, Pending, RequestOf, SettingsSent
<1>5. RequestOK(sent)
  <2>1. objects \in Objects /\ sent.answer = <<>> /\ sent.request # <<>>
    BY <1>1, <1>2 DEF OrderOK, RequestOK, IInv
  <2>2. sent.request = <<RequestOf(sent, objects)>>
    BY <1>2, <1>3
  <2>3. ~sent.edited => sent.request = <<RequestOf(sent, sent.asked)>>
    BY <1>2, <1>3, <1>4
  <2> QED BY <1>2, <2>1, <2>2, <2>3 DEF RequestOK
<1>6. OrderTyped(sent) /\ ReferencesOK(sent) /\ SeenOK(sent)
  BY <1>1, <1>2 DEF OrderOK, OrderTyped, ReferencesOK, SeenOK, Pending
<1> QED BY <1>1, <1>5, <1>6, UpdateKeeps DEF OrderOK

\* A refused call is made again, with its edits still marked.
LEMMA RefuseKeeps == ASSUME IInv, NEW i \in DOMAIN orders, Refuse(i) PROVE IInv'
<1> DEFINE o == orders[i]
           refused == [o EXCEPT !.at = "waiting", !.request = <<>>]
<1>1. OrderOK(o) /\ o.at = "sent" /\ o.request # <<>> /\ Update(i, refused)
  BY OrderIs DEF Refuse
<1> HIDE DEF o
<1>2. /\ DOMAIN refused = Fields /\ refused.at = "waiting" /\ refused.request = <<>>
      /\ refused.ask = o.ask /\ refused.settings = o.settings /\ refused.answer = o.answer
      /\ refused.result = o.result /\ refused.asked = o.asked /\ refused.edited = o.edited
      /\ refused.served = o.served /\ refused.seen = o.seen
  BY <1>1 DEF OrderOK, OrderTyped, Fields
<1> HIDE DEF refused
<1>3. OrderOK(refused)
  BY <1>1, <1>2 DEF OrderOK, OrderTyped, RequestOK, ReferencesOK, SeenOK, Pending
<1> QED BY <1>1, <1>3, UpdateKeeps

\* The result of a call is what its answer says, which it has seen.
LEMMA ReceiveKeeps == ASSUME IInv, NEW i \in DOMAIN orders, Receive(i) PROVE IInv'
<1> DEFINE o == orders[i]
           result == <<ResultOf(o.ask, o.answer[1])>>
           settled == [o EXCEPT !.at = "settled", !.answer = <<>>, !.result = result]
<1>1. OrderOK(o) /\ o.at = "sent" /\ o.answer # <<>> /\ Update(i, settled)
  BY OrderIs DEF Receive
<1>2. result # <<>> /\ Len(result) <= 1 /\ result[1] = ResultOf(o.ask, o.answer[1])
  OBVIOUS
<1> HIDE DEF o, result
<1>3. /\ DOMAIN settled = Fields /\ settled.at = "settled" /\ settled.request = o.request
      /\ settled.ask = o.ask /\ settled.settings = o.settings /\ settled.answer = <<>>
      /\ settled.result = result /\ settled.asked = o.asked /\ settled.edited = o.edited
      /\ settled.served = o.served /\ settled.seen = o.seen
  BY <1>1 DEF OrderOK, OrderTyped, Fields
<1> HIDE DEF settled
<1>4. \A current : RequestOf(settled, current) = RequestOf(o, current)
  BY <1>3 DEF RequestOf, SettingsSent
<1>5. OrderTyped(settled) /\ RequestOK(settled) /\ ReferencesOK(settled)
  BY <1>1, <1>2, <1>3, <1>4 DEF OrderOK, OrderTyped, RequestOK, ReferencesOK, Pending
<1>6. SeenOK(settled)
  BY <1>1, <1>2, <1>3 DEF OrderOK, SeenOK, Pending
<1> QED BY <1>1, <1>5, <1>6, UpdateKeeps DEF OrderOK

\* A call given up reports nothing, though its request may still be handled.
LEMMA GiveUpKeeps == ASSUME IInv, NEW i \in DOMAIN orders, GiveUp(i) PROVE IInv'
<1> DEFINE o == orders[i]
<1>1. PICK request \in {<<>>, o.request} :
        Update(i, [o EXCEPT !.at = "failed", !.answer = <<>>, !.request = request])
  BY DEF GiveUp
<1> DEFINE failed == [o EXCEPT !.at = "failed", !.answer = <<>>, !.request = request]
<1>2. OrderOK(o)
  BY OrderIs
<1> HIDE DEF o
<1>3. /\ DOMAIN failed = Fields /\ failed.at = "failed" /\ failed.request = request
      /\ failed.ask = o.ask /\ failed.settings = o.settings /\ failed.answer = <<>>
      /\ failed.result = o.result /\ failed.asked = o.asked /\ failed.edited = o.edited
      /\ failed.served = o.served /\ failed.seen = o.seen
  BY <1>2 DEF OrderOK, OrderTyped, Fields
<1>4. Update(i, failed)
  BY <1>1
<1> HIDE DEF failed
<1>5. \A current : RequestOf(failed, current) = RequestOf(o, current)
  BY <1>3 DEF RequestOf, SettingsSent
<1>6. RequestOK(failed)
  <2>1. CASE request = <<>>
    BY <1>3, <2>1 DEF RequestOK
  <2>2. CASE request = o.request
    BY <1>2, <1>3, <1>5, <2>2 DEF OrderOK, RequestOK
  <2> QED BY <2>1, <2>2
<1>7. OrderTyped(failed) /\ ReferencesOK(failed) /\ SeenOK(failed)
  BY <1>2, <1>3 DEF OrderOK, OrderTyped, ReferencesOK, SeenOK, Pending
<1> QED BY <1>4, <1>6, <1>7, UpdateKeeps DEF OrderOK

\* Only the orders' marks change, and those only for the objects that change.
LEMMA EditKeeps ==
    ASSUME ConstantsOK, IInv, NEW field \in {"params", "authorities", "settings"},
           NEW content \in Contents, Edit(field, content)
    PROVE  IInv'
<1> DEFINE edited(j) == [orders[j] EXCEPT
              !.edited = \/ @
                         \/ /\ Pending(orders[j])
                            /\ field \in ObjectsOf(orders[j].ask)
                            /\ field # "settings"]
<1>1. /\ orders' = [j \in 1..Len(orders) |-> edited(j)] /\ server' = server
      /\ objects' = [objects EXCEPT ![field] = content] /\ edits' = edits + 1
      /\ edits < MaxEdits
  BY OrdersAre DEF Edit
<1>2. objects' \in Objects /\ edits' \in 0..MaxEdits
  BY <1>1 DEF IInv, Objects, ConstantsOK
<1>3. (\E S : orders' \in Seq(S)) /\ Len(orders') = Len(orders)
  BY <1>1, OrdersAre, FunctionIsSeq
<1>4. ASSUME NEW j \in DOMAIN orders PROVE OrderOK(orders[j])'
  <2> DEFINE o == orders[j]
             e == orders'[j]
  <2>1. OrderOK(o)
    BY OrderIs
  <2>2. e = edited(j)
    BY <1>1, OrdersAre
  <2>3. /\ DOMAIN e = Fields /\ e.at = o.at /\ e.request = o.request
        /\ e.ask = o.ask /\ e.settings = o.settings /\ e.answer = o.answer
        /\ e.result = o.result /\ e.asked = o.asked /\ e.served = o.served /\ e.seen = o.seen
    BY <2>1, <2>2 DEF OrderOK, OrderTyped, Fields
  <2>4. e.edited = (o.edited \/ (Pending(o) /\ field \in ObjectsOf(o.ask) /\ field # "settings"))
    BY <2>1, <2>2 DEF OrderOK, OrderTyped, Fields
  <2> HIDE DEF o, e
  <2>5. \A current : RequestOf(e, current) = RequestOf(o, current)
    BY <2>3 DEF RequestOf, SettingsSent
  <2>6. e.edited \in BOOLEAN /\ (~e.edited => ~o.edited)
    BY <2>1, <2>4 DEF OrderOK, OrderTyped, Pending
  <2>7. OrderTyped(e) /\ RequestOK(e)
    BY <2>1, <2>3, <2>5, <2>6 DEF OrderOK, OrderTyped, RequestOK
  <2>8. SeenOK(e)
    BY <2>1, <2>3 DEF OrderOK, SeenOK, Pending
  <2>9. ASSUME Pending(e), ~e.edited, NEW f \in ObjectsOf(e.ask) \ {"settings"}
        PROVE  objects'[f] = e.asked[f]
    <3>1. Pending(o) /\ ~o.edited /\ f # field /\ f \in ObjectsOf(o.ask) \ {"settings"}
      BY <2>3, <2>4, <2>6, <2>9 DEF Pending
    <3>2. f \in {"params", "authorities"}
      BY <3>1 DEF ObjectsOf
    <3>3. objects'[f] = objects[f]
      BY <1>1, <3>1, <3>2 DEF IInv, Objects
    <3> QED BY <2>1, <2>3, <3>1, <3>3 DEF OrderOK, ReferencesOK
  <2> QED BY <1>1, <2>7, <2>8, <2>9
          DEF e, OrderOK, OrderTyped, RequestOK, ReferencesOK, SeenOK, Pending
<1>5. DOMAIN orders' = DOMAIN orders
  BY <1>1, OrdersAre
<1> QED BY <1>1, <1>2, <1>3, <1>4, <1>5 DEF IInv

\* The server answers with what is true, and every pending call sees what has become of it.
LEMMA ServeKeeps ==
    ASSUME ConstantsOK, IInv, NEW i \in DOMAIN orders, Serve(i)
    PROVE  IInv'
<1> DEFINE o == orders[i]
           after == Effect(o.request[1], server)
           answer == <<Response(o.request[1], server)>>
           served == [o EXCEPT !.request = <<>>, !.served = TRUE,
                               !.answer = IF o.at = "sent" THEN answer ELSE @,
                               !.seen = IF Pending(o) THEN @ \cup {Truth(o.ask, after)} ELSE @]
           other(j) == [orders[j] EXCEPT
                         !.seen = IF Pending(orders[j])
                                  THEN @ \cup {Truth(orders[j].ask, after)} ELSE @]
<1>1. /\ orders' = [j \in 1..Len(orders) |-> IF j = i THEN served ELSE other(j)]
      /\ server' = after /\ objects' = objects /\ edits' = edits /\ o.request # <<>>
  BY OrdersAre DEF Serve
<1>2. OrderOK(o)
  BY OrderIs
<1>3. PICK current \in Objects : o.request = <<RequestOf(o, current)>>
  BY <1>1, <1>2 DEF OrderOK, RequestOK
<1>4. o.request[1] = RequestOf(o, current)
  BY <1>3
<1>5. after \in Servers
  BY <1>2, <1>4, EffectTyped DEF OrderOK, OrderTyped, IInv, Objects
<1>6. (\E S : orders' \in Seq(S)) /\ Len(orders') = Len(orders) /\ DOMAIN orders' = DOMAIN orders
  <2>1. (\E S : orders' \in Seq(S)) /\ Len(orders') = Len(orders)
    BY <1>1, OrdersAre, FunctionIsSeq
  <2> QED BY <1>1, <2>1, OrdersAre
<1>7. OrderOK(orders[i])'
  <2>1. orders'[i] = served
    BY <1>1, OrdersAre
  <2>2. o.ask.op \notin Writes => ResultOf(o.ask, answer[1]) = Truth(o.ask, server)
    <3>1. o.ask \in Calls /\ (o.ask.op \notin Writes => o.ask.op \in Reads)
      BY <1>2, CallCases DEF OrderOK, OrderTyped
    <3> QED BY <1>4, <3>1, ResponseIsTruth
  <2>3. Len(answer) <= 1 /\ answer # <<>>
    OBVIOUS
  <2> HIDE DEF o, after, answer
  <2>4. /\ DOMAIN served = Fields /\ served.at = o.at /\ served.request = <<>>
        /\ served.ask = o.ask /\ served.settings = o.settings
        /\ served.answer = (IF o.at = "sent" THEN answer ELSE o.answer)
        /\ served.result = o.result /\ served.asked = o.asked /\ served.edited = o.edited
        /\ served.served = TRUE
        /\ served.seen = (IF Pending(o) THEN o.seen \cup {Truth(o.ask, after)} ELSE o.seen)
    BY <1>2 DEF OrderOK, OrderTyped, Fields
  <2>5. OrderTyped(served) /\ RequestOK(served)
    BY <1>2, <2>3, <2>4 DEF OrderOK, OrderTyped, RequestOK
  <2>6. ReferencesOK(served)
    BY <1>2, <2>4 DEF OrderOK, ReferencesOK, Pending
  <2>7. /\ Pending(served) => Truth(served.ask, after) \in served.seen
        /\ served.answer # <<>> /\ served.ask.op \notin Writes
              => ResultOf(served.ask, served.answer[1]) \in served.seen
        /\ served.result # <<>> /\ served.ask.op \notin Writes => served.result[1] \in served.seen
    BY <1>2, <2>2, <2>4 DEF OrderOK, SeenOK, Pending
  <2> HIDE DEF served
  <2> QED BY <1>1, <2>1, <2>5, <2>6, <2>7
          DEF OrderOK, OrderTyped, RequestOK, ReferencesOK, SeenOK, Pending
<1>8. ASSUME NEW j \in DOMAIN orders, j # i PROVE OrderOK(orders[j])'
  <2> DEFINE p == orders[j]
             e == other(j)
  <2>1. orders'[j] = e
    BY <1>1, <1>8, OrdersAre
  <2>2. OrderOK(p)
    BY OrderIs
  <2> HIDE DEF p, after
  <2>3. /\ DOMAIN e = Fields /\ e.at = p.at /\ e.request = p.request
        /\ e.ask = p.ask /\ e.settings = p.settings /\ e.answer = p.answer
        /\ e.result = p.result /\ e.asked = p.asked /\ e.edited = p.edited /\ e.served = p.served
        /\ e.seen = (IF Pending(p) THEN p.seen \cup {Truth(p.ask, after)} ELSE p.seen)
    BY <2>2 DEF p, OrderOK, OrderTyped, Fields
  <2> HIDE DEF e
  <2>4. \A c : RequestOf(e, c) = RequestOf(p, c)
    BY <2>3 DEF RequestOf, SettingsSent
  <2>5. OrderTyped(e) /\ RequestOK(e) /\ ReferencesOK(e)
    BY <2>2, <2>3, <2>4 DEF OrderOK, OrderTyped, RequestOK, ReferencesOK, Pending
  <2>6. /\ Pending(e) => Truth(e.ask, after) \in e.seen
        /\ e.answer # <<>> /\ e.ask.op \notin Writes => ResultOf(e.ask, e.answer[1]) \in e.seen
        /\ e.result # <<>> /\ e.ask.op \notin Writes => e.result[1] \in e.seen
    BY <2>2, <2>3 DEF OrderOK, SeenOK, Pending
  <2> QED BY <1>1, <2>1, <2>5, <2>6
          DEF OrderOK, OrderTyped, RequestOK, ReferencesOK, SeenOK, Pending
<1> QED BY <1>1, <1>5, <1>6, <1>7, <1>8 DEF IInv

----------------------------------------------------------------------------
(* Theorems                                                                *)

\* Every step of a call, of the server or of the application preserves the invariant.
THEOREM NextPreserves == ConstantsOK /\ IInv /\ [Next]_vars => IInv'
<1> SUFFICES ASSUME ConstantsOK, IInv, [Next]_vars PROVE IInv'
  OBVIOUS
<1>1. CASE Len(orders) < MaxOrders /\ \E a \in Calls : Order(a)
  BY <1>1, OrderKeeps
<1>2. CASE \E i \in DOMAIN orders : Send(i) \/ Serve(i) \/ Refuse(i) \/ Receive(i) \/ GiveUp(i)
  BY <1>2, SendKeeps, ServeKeeps, RefuseKeeps, ReceiveKeeps, GiveUpKeeps
<1>3. CASE \E field \in {"params", "authorities", "settings"}, content \in Contents :
              Edit(field, content)
  BY <1>3, EditKeeps
<1>4. CASE UNCHANGED vars
  BY <1>4 DEF vars, IInv, OrderOK, OrderTyped, RequestOK, ReferencesOK, SeenOK, Pending
<1> QED BY <1>1, <1>2, <1>3, <1>4 DEF Next

\* The invariant gives every variable its type, and every result of a call that reads was
\* right while the call was pending.
LEMMA IInvTyped == ASSUME IInv PROVE TypeOK /\ AnsweredTruthfully
<1>1. /\ server.repositories \in [Places \X Ids -> Held]
      /\ server.accounts \in [Names -> [authorities : Held, settings : Held]]
      /\ server.secured \in BOOLEAN /\ server.freeAccess.enabled \in BOOLEAN
      /\ objects \in [params : Contents, authorities : Contents, settings : Contents]
  BY DEF IInv, Servers, Accounts, Objects
<1>2. ASSUME NEW i \in DOMAIN orders
      PROVE  /\ orders[i].ask.op \in Operations
             /\ orders[i].at \in {"waiting", "sent", "settled", "failed"}
             /\ Len(orders[i].request) <= 1
             /\ Len(orders[i].answer) <= 1
             /\ Len(orders[i].result) <= 1
  <2> DEFINE o == orders[i]
  <2>1. OrderOK(o)
    BY OrderIs
  <2> HIDE DEF o
  <2>2. o.ask.op \in Operations
    BY <2>1 DEF OrderOK, OrderTyped, Calls
  <2>3. Len(o.request) <= 1
    <3>1. o.request = <<>> \/ \E r : o.request = <<r>>
      BY <2>1 DEF OrderOK, RequestOK
    <3>2. ASSUME NEW r, o.request = <<r>> PROVE Len(o.request) <= 1
      BY <3>2
    <3>3. CASE o.request = <<>>
      BY <3>3
    <3> QED BY <3>1, <3>2, <3>3
  <2> QED BY <2>1, <2>2, <2>3 DEF o, OrderOK, OrderTyped
<1>3. AnsweredTruthfully
  BY OrderIs DEF AnsweredTruthfully, OrderOK, SeenOK
<1> QED BY <1>1, <1>2, <1>3 DEF TypeOK, IInv

\* Only the server's handling marks a call as served.
LEMMA ServingStep ==
    ASSUME IInv, [Next]_vars, NEW i \in DOMAIN orders, ~orders[i].served, orders'[i].served
    PROVE  Serve(i)
<1>1. /\ i \in 1..Len(orders) /\ Len(orders) \in Nat /\ DOMAIN orders = 1..Len(orders)
      /\ \A j \in DOMAIN orders : DOMAIN orders[j] = Fields
  BY OrdersAre, OrderIs DEF OrderOK, OrderTyped
<1>2. ASSUME NEW j \in DOMAIN orders, NEW o, Update(j, o), o.served = orders[j].served
      PROVE  FALSE
  BY <1>1, <1>2 DEF Update
<1>3. ASSUME NEW a, Order(a) PROVE FALSE
  <2>1. \E S : orders \in Seq(S)
    BY DEF IInv
  <2> QED BY <1>1, <1>3, <2>1 DEF Order
<1>4. ASSUME NEW j \in DOMAIN orders, Send(j) PROVE FALSE
  BY <1>1, <1>2, <1>4 DEF Send, Fields
<1>5. ASSUME NEW j \in DOMAIN orders, Serve(j) PROVE j = i
  BY <1>1, <1>5 DEF Serve, Fields
<1>6. ASSUME NEW j \in DOMAIN orders, Refuse(j) PROVE FALSE
  BY <1>1, <1>2, <1>6 DEF Refuse, Fields
<1>7. ASSUME NEW j \in DOMAIN orders, Receive(j) PROVE FALSE
  BY <1>1, <1>2, <1>7 DEF Receive, Fields
<1>8. ASSUME NEW j \in DOMAIN orders, GiveUp(j) PROVE FALSE
  BY <1>1, <1>2, <1>8 DEF GiveUp, Fields
<1>9. ASSUME NEW field, NEW content, Edit(field, content) PROVE FALSE
  BY <1>1, <1>9 DEF Edit, Fields
<1>10. ~UNCHANGED vars
  BY DEF vars
<1> QED BY <1>3, <1>4, <1>5, <1>6, <1>7, <1>8, <1>9, <1>10 DEF Next

\* The server becomes what a call is for when it handles its request.
LEMMA CarriedOutStep ==
    ASSUME ConstantsOK, IInv, [Next]_vars, NEW i
    PROVE  CarriedOut(i)
<1> SUFFICES ASSUME i \in DOMAIN orders, ~orders[i].served, orders'[i].served,
                    ~orders[i].edited
             PROVE  server' = AskedEffect(orders[i].ask, orders[i].asked, server)
  <2>1. i \in DOMAIN orders => orders[i].edited \in BOOLEAN
    BY OrderIs DEF OrderOK, OrderTyped
  <2> QED BY <2>1 DEF CarriedOut
<1> DEFINE o == orders[i]
<1>1. Serve(i) /\ OrderOK(o)
  BY ServingStep, OrderIs
<1>2. o.request = <<RequestOf(o, o.asked)>> /\ server' = Effect(o.request[1], server)
  BY <1>1 DEF Serve, OrderOK, RequestOK
<1>3. o.ask \in Calls /\ o.asked \in Objects /\ o.settings = o.asked.settings
  BY <1>1 DEF OrderOK, OrderTyped
<1>4. server' = Effect(RequestOf(o, o.asked), server)
  BY <1>2
<1> QED BY <1>3, <1>4, EffectAsAsked DEF IInv
=============================================================================
