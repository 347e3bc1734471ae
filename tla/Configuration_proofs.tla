------------------------- MODULE Configuration_proofs -------------------------
(***************************************************************************)
(* What a client keeps of its configuration, proved for any                *)
(* configurations, objects shared between them, credentials, and numbers   *)
(* of clients.                                                             *)
(***************************************************************************)
EXTENDS Configuration, SequenceTheorems, TLAPS

CredentialsOrNone == Credentials \cup {None}

ConfigRecords ==
    [headers : HeadersObjects, endpoints : Arrays \cup {None}, base : Endpoints, waits : Waits,
     credentials : CredentialsOrNone, keepAlive : BOOLEAN]

Urls == Seq(Endpoints \cup {TransactionUrl})

Requests ==
    [headers : HeaderMaps, endpoints : Urls, timeout : Timeouts \cup {DefaultTimeout},
     token : CredentialsOrNone]

Clients ==
    [kind : {"repository", "transaction", "server"}, config : Configs,
     headers : HeadersObjects \cup {None}, endpoints : Urls, base : Endpoints, waits : Waits,
     credentials : CredentialsOrNone, user : Users,
     at : {"idle", "login", "resume", "sent"}, call : {"read", "write", "begin"},
     own : OwnHeaders, login : CredentialsOrNone, captured : Users,
     header : CredentialsOrNone, request : Requests, promised : Urls,
     had : SUBSET CredentialsOrNone, shared : BOOLEAN]

ConfigInv ==
    /\ config \in [Configs -> ConfigRecords]
    /\ \A c \in RepositoryConfigs : config[c].endpoints \in Arrays
    /\ headers \in [HeadersObjects -> HeaderMaps]
    /\ list \in [Arrays -> Seq(Endpoints)]
    /\ meant \in [Configs -> [headers : HeaderMaps, endpoints : Seq(Endpoints)]]
    /\ writers \in [HeadersObjects \cup Arrays -> SUBSET Configs]
    /\ steps \in [settings : 0..MaxSettings, sends : 0..MaxSends]

\* An object holds what its configuration means, until it is changed through another one.
MeantInv ==
    /\ \A c \in Configs :
        writers[config[c].headers] \subseteq {c} => headers[config[c].headers] = meant[c].headers
    /\ \A c \in RepositoryConfigs :
        writers[config[c].endpoints] \subseteq {c}
            => list[config[c].endpoints] = meant[c].endpoints

\* A client keeps what it was made with, and only one of a repository begins transactions.
KeptOK(k) ==
    /\ k.call = "begin" => k.kind = "repository"
    /\ k.config \in IF k.kind = "server" THEN ServerConfigs ELSE RepositoryConfigs
    /\ k.kind = "server" <=> k.headers = None
    /\ k.endpoints # <<>>
    /\ k.shared \/ k.endpoints = k.promised

\* The credentials of a client, its token, and a token on its way are of credentials it
\* had; only the call that logs in remembers a login, and takes the token from there.
TokensOK(k) ==
    /\ k.login \in k.had \cup {None}
    /\ k.header \in k.had \cup {None}
    /\ k.user \in k.had \cup {None, Cleared}
    /\ k.captured \in k.had \cup {None, Cleared}
    /\ k.at \in {"idle", "sent"} => k.login = None
    /\ k.at = "resume" /\ k.login # None => k.captured = k.login

ClientOK(k) == k \in Clients /\ KeptOK(k) /\ TokensOK(k)

\* The credentials with which a client would log in.
HadInv == \A i \in DOMAIN clients : CredentialsOf(clients[i]) \in clients[i].had

ClientsInv ==
    /\ clients \in Seq(Clients)
    /\ Len(clients) <= MaxClients
    /\ \A i \in DOMAIN clients : ClientOK(clients[i])

IInv == ConfigInv /\ MeantInv /\ ClientsInv /\ HadInv

----------------------------------------------------------------------------
(* The operators of the model                                              *)

\* What a client starts with has the types of headers and requests.
LEMMA NoHeadersTyped ==
    /\ NoHeaders \in HeaderMaps
    /\ OwnHeaders \subseteq HeaderMaps
    /\ NoRequest \in Requests
<1>1. NoHeaders \in HeaderMaps /\ OwnHeaders \subseteq HeaderMaps
  BY DEF NoHeaders, OwnHeaders, HeaderMaps
<1>2. <<>> \in Urls
  BY DEF Urls
<1> QED BY <1>1, <1>2 DEF NoRequest, Requests, CredentialsOrNone

\* The headers of a request are headers.
LEMMA OverTyped ==
    ASSUME NEW own \in HeaderMaps, NEW default \in HeaderMaps
    PROVE  Over(own, default) \in HeaderMaps
BY DEF Over, HeaderMaps

\* Setting a timeout keeps the type of the pair.
LEMMA WaitsTyped ==
    ASSUME NEW w \in Waits, NEW timeout \in Timeouts
    PROVE  /\ [w EXCEPT !.read = timeout] \in Waits
           /\ [w EXCEPT !.write = timeout] \in Waits
           /\ [read |-> timeout, write |-> timeout] \in Waits
BY DEF Waits

\* A function on 1..n is a sequence of length n.
LEMMA FunctionIsSeq ==
    ASSUME NEW S, NEW n \in Nat, NEW f \in [1..n -> S]
    PROVE  f \in Seq(S) /\ Len(f) = n
OBVIOUS

\* At first there are no clients, and every configuration has its own objects.
LEMMA InitIInv == ConstantsOK /\ Init => IInv
<1> SUFFICES ASSUME ConstantsOK, Init PROVE IInv
  OBVIOUS
<1>1. ConfigInv
  <2>1. \A c \in Configs : config[c] \in ConfigRecords
    BY DEF Init, ConstantsOK, ConfigRecords, Configs, HeadersObjects, Arrays, Waits,
           CredentialsOrNone
  <2>2. headers \in [HeadersObjects -> HeaderMaps]
    BY DEF Init, HeaderMaps, NoHeaders
  <2>3. list \in [Arrays -> Seq(Endpoints)]
    <3>1. <<>> \in Seq(Endpoints) /\ <<FirstEndpoint>> \in Seq(Endpoints)
      BY DEF ConstantsOK
    <3> QED BY <3>1 DEF Init
  <2>4. meant \in [Configs -> [headers : HeaderMaps, endpoints : Seq(Endpoints)]]
    BY NoHeadersTyped DEF Init
  <2>5. /\ config \in [Configs -> ConfigRecords]
        /\ \A c \in RepositoryConfigs : config[c].endpoints = c
    BY <2>1 DEF Init, Configs
  <2>6. /\ writers \in [HeadersObjects \cup Arrays -> SUBSET Configs]
        /\ steps \in [settings : 0..MaxSettings, sends : 0..MaxSends]
    BY DEF Init, ConstantsOK
  <2> QED BY <2>2, <2>3, <2>4, <2>5, <2>6 DEF ConfigInv, Arrays
<1>2. MeantInv
  BY DEF Init, MeantInv, ConstantsOK, Configs, HeadersObjects, Arrays
<1>3. ClientsInv /\ HadInv
  BY DEF Init, ClientsInv, HadInv, ConstantsOK
<1> QED BY <1>1, <1>2, <1>3 DEF IInv

----------------------------------------------------------------------------
(* Setters                                                                 *)

\* A setter stays within the bound.
LEMMA SettingTyped ==
    ASSUME ConstantsOK, ConfigInv, Setting
    PROVE  steps' \in [settings : 0..MaxSettings, sends : 0..MaxSends]
BY DEF ConstantsOK, ConfigInv, Setting

\* Clients that stay the same stay well-formed, while no credentials change.
LEMMA ClientsStay ==
    ASSUME ClientsInv, HadInv, UNCHANGED clients,
           \A c \in Configs : config'[c].credentials = config[c].credentials
    PROVE  ClientsInv' /\ HadInv'
<1>1. ClientsInv'
  BY DEF ClientsInv, ClientOK, KeptOK, TokensOK
<1>2. ASSUME NEW i \in DOMAIN clients
      PROVE  CredentialsOf(clients[i])' = CredentialsOf(clients[i])
  BY <1>2 DEF ClientsInv, ClientOK, Clients, CredentialsOf
<1> QED BY <1>1, <1>2 DEF HadInv

\* setHeaders gives a configuration another object, and leaves clients the one they have.
LEMMA SetHeadersKeeps ==
    ASSUME ConstantsOK, IInv, NEW c \in Configs, NEW h \in GivenHeaders, SetHeaders(c, h)
    PROVE  IInv'
<1> USE DEF IInv
<1>1. h \in HeadersObjects /\ headers[h] \in HeaderMaps
  BY DEF ConfigInv, HeadersObjects
<1>2. /\ config' \in [Configs -> ConfigRecords]
      /\ \A d \in Configs : /\ config'[d].credentials = config[d].credentials
                            /\ config'[d].endpoints = config[d].endpoints
                            /\ config'[d].headers = IF d = c THEN h ELSE config[d].headers
  BY <1>1 DEF SetHeaders, ConfigInv, ConfigRecords
<1>3. /\ meant' \in [Configs -> [headers : HeaderMaps, endpoints : Seq(Endpoints)]]
      /\ \A d \in Configs : /\ meant'[d].endpoints = meant[d].endpoints
                            /\ meant'[d].headers = IF d = c THEN headers[h] ELSE meant[d].headers
  BY <1>1 DEF SetHeaders, ConfigInv
<1>4. ConfigInv'
  BY <1>2, <1>3, SettingTyped DEF SetHeaders, ConfigInv, Configs
<1>5. MeantInv'
  BY <1>2, <1>3 DEF SetHeaders, MeantInv, Configs
<1>6. ClientsInv' /\ HadInv'
  BY <1>2, ClientsStay DEF SetHeaders
<1> QED BY <1>4, <1>5, <1>6

\* setLocation writes into the object, and marks it as written by the configuration.
LEMMA SetLocationKeeps ==
    ASSUME ConstantsOK, IInv, NEW c \in RepositoryConfigs, NEW location \in Locations,
           SetLocation(c, location)
    PROVE  IInv'
<1> USE DEF IInv
<1> DEFINE h == config[c].headers
<1>1. c \in Configs /\ h \in HeadersObjects
  BY DEF ConfigInv, Configs, ConfigRecords
<1>2. /\ headers' \in [HeadersObjects -> HeaderMaps]
      /\ \A g \in HeadersObjects :
            headers'[g] = IF g = h THEN [headers[g] EXCEPT !.location = location]
                                   ELSE headers[g]
  BY <1>1 DEF SetLocation, ConfigInv, HeaderMaps
<1>3. /\ meant' \in [Configs -> [headers : HeaderMaps, endpoints : Seq(Endpoints)]]
      /\ \A d \in Configs :
            /\ meant'[d].endpoints = meant[d].endpoints
            /\ meant'[d].headers = IF d = c THEN [meant[d].headers EXCEPT !.location = location]
                                            ELSE meant[d].headers
  BY <1>1 DEF SetLocation, ConfigInv, HeaderMaps
<1>4. /\ writers' \in [HeadersObjects \cup Arrays -> SUBSET Configs]
      /\ \A g \in HeadersObjects \cup Arrays :
            writers'[g] = IF g = h THEN writers[g] \cup {c} ELSE writers[g]
  BY <1>1 DEF SetLocation, ConfigInv
<1>5. ConfigInv'
  BY <1>2, <1>3, <1>4, SettingTyped DEF SetLocation, ConfigInv
<1>6. MeantInv'
  <2>1. config' = config /\ list' = list
    BY DEF SetLocation
  <2>2. ASSUME NEW d \in Configs, writers'[config[d].headers] \subseteq {d}
        PROVE  headers'[config[d].headers] = meant'[d].headers
    <3>1. config[d].headers \in HeadersObjects
      BY DEF ConfigInv, ConfigRecords
    <3>2. CASE config[d].headers # h
      <4>1. d # c /\ writers[config[d].headers] \subseteq {d}
        BY <1>4, <2>2, <3>1, <3>2
      <4> QED BY <1>2, <1>3, <3>1, <3>2, <4>1 DEF MeantInv
    <3>3. CASE config[d].headers = h
      <4>1. d = c /\ writers[h] \subseteq {c}
        BY <1>1, <1>4, <2>2, <3>3
      <4> QED BY <1>1, <1>2, <1>3, <3>3, <4>1 DEF MeantInv
    <3> QED BY <3>2, <3>3
  <2>3. ASSUME NEW d \in RepositoryConfigs, writers'[config[d].endpoints] \subseteq {d}
        PROVE  list[config[d].endpoints] = meant'[d].endpoints
    BY <1>3, <1>4, <2>3 DEF MeantInv, ConfigInv, Configs
  <2> QED BY <2>1, <2>2, <2>3 DEF MeantInv
<1>7. ClientsInv' /\ HadInv'
  BY ClientsStay DEF SetLocation
<1> QED BY <1>5, <1>6, <1>7

\* setEndpoints gives a configuration another array; clients keep a copy.
LEMMA SetEndpointsKeeps ==
    ASSUME ConstantsOK, IInv, NEW c \in RepositoryConfigs, NEW a \in Lists, SetEndpoints(c, a)
    PROVE  IInv'
<1> USE DEF IInv
<1>1. c \in Configs /\ a \in Arrays /\ list[a] \in Seq(Endpoints)
  BY DEF ConfigInv, Arrays, Configs
<1>2. /\ config' \in [Configs -> ConfigRecords]
      /\ \A d \in Configs : /\ config'[d].credentials = config[d].credentials
                            /\ config'[d].headers = config[d].headers
                            /\ config'[d].endpoints = IF d = c THEN a ELSE config[d].endpoints
  BY <1>1 DEF SetEndpoints, ConfigInv, ConfigRecords
<1>3. /\ meant' \in [Configs -> [headers : HeaderMaps, endpoints : Seq(Endpoints)]]
      /\ \A d \in Configs : /\ meant'[d].headers = meant[d].headers
                            /\ meant'[d].endpoints = IF d = c THEN list[a] ELSE meant[d].endpoints
  BY <1>1 DEF SetEndpoints, ConfigInv
<1>4. ConfigInv'
  BY <1>1, <1>2, <1>3, SettingTyped DEF SetEndpoints, ConfigInv, Configs
<1>5. MeantInv'
  BY <1>2, <1>3 DEF SetEndpoints, MeantInv, Configs
<1>6. ClientsInv' /\ HadInv'
  BY <1>2, ClientsStay DEF SetEndpoints
<1> QED BY <1>4, <1>5, <1>6

\* addEndpoint writes into the array, and marks it likewise.
LEMMA AddEndpointKeeps ==
    ASSUME ConstantsOK, IInv, NEW c \in RepositoryConfigs, NEW endpoint \in Endpoints,
           AddEndpoint(c, endpoint)
    PROVE  IInv'
<1> USE DEF IInv
<1> DEFINE a == config[c].endpoints
<1>1. c \in Configs /\ a \in Arrays
  BY DEF ConfigInv, Configs
<1>2. \A s \in Seq(Endpoints) : Append(s, endpoint) \in Seq(Endpoints)
  OBVIOUS
<1>3. /\ list' \in [Arrays -> Seq(Endpoints)]
      /\ \A b \in Arrays : list'[b] = IF b = a THEN Append(list[b], endpoint) ELSE list[b]
  BY <1>1, <1>2 DEF AddEndpoint, ConfigInv
<1>4. /\ meant' \in [Configs -> [headers : HeaderMaps, endpoints : Seq(Endpoints)]]
      /\ \A d \in Configs :
            /\ meant'[d].headers = meant[d].headers
            /\ meant'[d].endpoints = IF d = c THEN Append(meant[d].endpoints, endpoint)
                                              ELSE meant[d].endpoints
  BY <1>1, <1>2 DEF AddEndpoint, ConfigInv
<1>5. /\ writers' \in [HeadersObjects \cup Arrays -> SUBSET Configs]
      /\ \A g \in HeadersObjects \cup Arrays :
            writers'[g] = IF g = a THEN writers[g] \cup {c} ELSE writers[g]
  BY <1>1 DEF AddEndpoint, ConfigInv
<1>6. ConfigInv'
  BY <1>3, <1>4, <1>5, SettingTyped DEF AddEndpoint, ConfigInv
<1>7. MeantInv'
  <2>1. config' = config /\ headers' = headers
    BY DEF AddEndpoint
  <2>2. ASSUME NEW d \in Configs, writers'[config[d].headers] \subseteq {d}
        PROVE  headers[config[d].headers] = meant'[d].headers
    <3>1. config[d].headers \in HeadersObjects
      BY DEF ConfigInv, ConfigRecords
    <3> QED BY <1>4, <1>5, <2>2, <3>1 DEF MeantInv
  <2>3. ASSUME NEW d \in RepositoryConfigs, writers'[config[d].endpoints] \subseteq {d}
        PROVE  list'[config[d].endpoints] = meant'[d].endpoints
    <3>1. config[d].endpoints \in Arrays /\ d \in Configs
      BY DEF ConfigInv, Configs
    <3>2. CASE config[d].endpoints # a
      <4>1. d # c /\ writers[config[d].endpoints] \subseteq {d}
        BY <1>5, <2>3, <3>1, <3>2
      <4> QED BY <1>3, <1>4, <3>1, <3>2, <4>1 DEF MeantInv
    <3>3. CASE config[d].endpoints = a
      <4>1. d = c /\ writers[a] \subseteq {c}
        BY <1>1, <1>5, <2>3, <3>3
      <4>2. list[a] = meant[c].endpoints
        BY <4>1 DEF MeantInv
      <4>3. list'[a] = Append(list[a], endpoint)
        BY <1>1, <1>3
      <4>4. meant'[c].endpoints = Append(meant[c].endpoints, endpoint)
        BY <1>1, <1>4
      <4> QED BY <3>3, <4>1, <4>2, <4>3, <4>4
    <3> QED BY <3>2, <3>3
  <2> QED BY <2>1, <2>2, <2>3 DEF MeantInv
<1>8. ClientsInv' /\ HadInv'
  BY ClientsStay DEF AddEndpoint
<1> QED BY <1>6, <1>7, <1>8

\* The setters of plain values keep the objects that a configuration refers to.
LEMMA SetFieldKeeps ==
    ASSUME ConstantsOK, IInv, NEW c \in Configs, NEW fields \in ConfigRecords,
           fields.headers = config[c].headers, fields.endpoints = config[c].endpoints,
           SetField(c, fields)
    PROVE  ConfigInv' /\ MeantInv'
<1> USE DEF IInv
<1>1. /\ config' \in [Configs -> ConfigRecords]
      /\ \A d \in Configs : /\ config'[d].headers = config[d].headers
                            /\ config'[d].endpoints = config[d].endpoints
  BY DEF SetField, ConfigInv
<1>2. UNCHANGED <<headers, list, meant, writers>>
  BY DEF SetField
<1>3. ConfigInv'
  BY <1>1, <1>2, SettingTyped DEF SetField, ConfigInv, Configs
<1>4. MeantInv'
  BY <1>1, <1>2 DEF MeantInv, Configs
<1> QED BY <1>3, <1>4

\* ... and those other than the authentication keep the credentials.
LEMMA SetPlainFieldKeeps ==
    ASSUME ConstantsOK, IInv, NEW c \in Configs, NEW fields \in ConfigRecords,
           fields.headers = config[c].headers, fields.endpoints = config[c].endpoints,
           fields.credentials = config[c].credentials,
           SetField(c, fields), UNCHANGED clients
    PROVE  IInv'
<1>1. \A d \in Configs : config'[d].credentials = config[d].credentials
  BY DEF SetField, IInv, ConfigInv
<1> QED BY <1>1, SetFieldKeeps, ClientsStay DEF IInv

\* The clients of a configuration have had the credentials that it is switched to.
LEMMA SwitchKeeps ==
    ASSUME ConstantsOK, IInv, NEW c \in Configs, NEW credentials \in CredentialsOrNone,
           SwitchAuthentication(c, credentials)
    PROVE  IInv'
<1> USE DEF IInv
<1> DEFINE fields == [config[c] EXCEPT !.credentials = credentials]
<1>1. /\ fields \in ConfigRecords
      /\ fields.headers = config[c].headers /\ fields.endpoints = config[c].endpoints
  BY DEF ConfigInv, ConfigRecords
<1>2. ConfigInv' /\ MeantInv'
  BY <1>1, SetFieldKeeps DEF SwitchAuthentication
<1>3. \A d \in Configs :
        config'[d].credentials = IF d = c THEN credentials ELSE config[d].credentials
  BY DEF SwitchAuthentication, SetField, ConfigInv, ConfigRecords
<1> DEFINE switched(i) == clients[i].config = c /\ clients[i].kind # "transaction"
           k(i) == IF switched(i) THEN [clients[i] EXCEPT !.had = @ \cup {credentials}]
                                  ELSE clients[i]
<1>4. clients' = [i \in DOMAIN clients |-> k(i)]
  BY DEF SwitchAuthentication
<1>5. ASSUME NEW i \in DOMAIN clients
      PROVE  /\ ClientOK(k(i))
             /\ k(i).config = clients[i].config /\ k(i).kind = clients[i].kind
             /\ k(i).credentials = clients[i].credentials
             /\ clients[i].had \subseteq k(i).had
             /\ switched(i) => credentials \in k(i).had
  <2>1. ClientOK(clients[i])
    BY DEF ClientsInv
  <2>2. CASE switched(i)
    <3>1. k(i) \in Clients
      BY <2>1, <2>2 DEF ClientOK, Clients
    <3>2. k(i).had = clients[i].had \cup {credentials}
      BY <2>1, <2>2 DEF ClientOK, Clients
    <3> QED BY <2>1, <2>2, <3>1, <3>2 DEF ClientOK, Clients, KeptOK, TokensOK
  <2>3. CASE ~switched(i)
    BY <2>1, <2>3
  <2> QED BY <2>2, <2>3
<1>6. ClientsInv'
  <2>1. \A i \in DOMAIN clients : k(i) \in Clients
    BY <1>5 DEF ClientOK
  <2>2. clients' \in Seq(Clients) /\ Len(clients') = Len(clients)
    <3>1. Len(clients) \in Nat /\ DOMAIN clients = 1..Len(clients)
      BY LenProperties DEF ClientsInv
    <3> HIDE DEF k
    <3>2. clients' \in [1..Len(clients) -> Clients]
      BY <1>4, <2>1, <3>1
    <3> QED BY <3>1, <3>2, FunctionIsSeq
  <2> QED BY <1>4, <1>5, <2>2 DEF ClientsInv
<1>7. HadInv'
  <2> SUFFICES ASSUME NEW i \in DOMAIN clients
               PROVE  CredentialsOf(clients[i])' \in k(i).had
    BY <1>4 DEF HadInv
  <2>1. CredentialsOf(clients[i]) \in clients[i].had /\ clients[i] \in Clients
    BY DEF HadInv, ClientsInv, ClientOK
  <2>2. /\ clients'[i].kind = clients[i].kind /\ clients'[i].config = clients[i].config
        /\ clients'[i].credentials = clients[i].credentials
    BY <1>4, <1>5
  <2>3. CASE switched(i)
    <3>1. CredentialsOf(clients[i])' = credentials
      BY <1>3, <2>1, <2>2, <2>3 DEF CredentialsOf, Clients
    <3> QED BY <1>5, <2>3, <3>1
  <2>4. CASE ~switched(i)
    <3>1. CredentialsOf(clients[i])' = CredentialsOf(clients[i])
      BY <1>3, <2>1, <2>2, <2>4 DEF CredentialsOf, Clients
    <3> QED BY <1>5, <2>1, <3>1
  <2> QED BY <2>3, <2>4
<1> QED BY <1>2, <1>6, <1>7

\* All the setters together.
LEMMA SetterKeeps == ASSUME ConstantsOK, IInv, Setter PROVE IInv'
<1>1. CASE \E c \in Configs, h \in GivenHeaders : SetHeaders(c, h)
  BY <1>1, SetHeadersKeeps
<1>2. CASE \E c \in Configs, endpoint \in Endpoints : SetEndpoint(c, endpoint)
  <2> PICK c \in Configs, endpoint \in Endpoints : SetEndpoint(c, endpoint)
    BY <1>2
  <2> DEFINE fields == [config[c] EXCEPT !.base = endpoint]
  <2>1. /\ fields \in ConfigRecords /\ fields.credentials = config[c].credentials
        /\ fields.headers = config[c].headers /\ fields.endpoints = config[c].endpoints
    BY DEF IInv, ConfigInv, ConfigRecords
  <2> QED BY <2>1, SetPlainFieldKeeps DEF SetEndpoint
<1>3. CASE \E c \in Configs, keepAlive \in BOOLEAN : SetKeepAlive(c, keepAlive)
  <2> PICK c \in Configs, keepAlive \in BOOLEAN : SetKeepAlive(c, keepAlive)
    BY <1>3
  <2> DEFINE fields == [config[c] EXCEPT !.keepAlive = keepAlive]
  <2>1. /\ fields \in ConfigRecords /\ fields.credentials = config[c].credentials
        /\ fields.headers = config[c].headers /\ fields.endpoints = config[c].endpoints
    BY DEF IInv, ConfigInv, ConfigRecords
  <2> QED BY <2>1, SetPlainFieldKeeps DEF SetKeepAlive
<1>4. CASE \E c \in Configs, credentials \in Credentials \cup {None} :
              SwitchAuthentication(c, credentials)
  BY <1>4, SwitchKeeps DEF CredentialsOrNone
<1>5. CASE \E c \in RepositoryConfigs, location \in Locations : SetLocation(c, location)
  BY <1>5, SetLocationKeeps
<1>6. CASE \E c \in RepositoryConfigs, a \in Lists : SetEndpoints(c, a)
  BY <1>6, SetEndpointsKeeps
<1>7. CASE \E c \in RepositoryConfigs, endpoint \in Endpoints : AddEndpoint(c, endpoint)
  BY <1>7, AddEndpointKeeps
<1>8. CASE \E c \in RepositoryConfigs, timeout \in Timeouts : SetReadTimeout(c, timeout)
  <2> PICK c \in RepositoryConfigs, timeout \in Timeouts : SetReadTimeout(c, timeout)
    BY <1>8
  <2> DEFINE fields == [config[c] EXCEPT !.waits.read = timeout]
  <2>1. c \in Configs /\ config[c] \in ConfigRecords
    BY DEF IInv, ConfigInv, Configs
  <2>2. /\ fields \in ConfigRecords /\ fields.credentials = config[c].credentials
        /\ fields.headers = config[c].headers /\ fields.endpoints = config[c].endpoints
    <3> DEFINE waits == [config[c].waits EXCEPT !.read = timeout]
    <3>1. config[c].waits \in Waits
      BY <2>1 DEF ConfigRecords
    <3>2. waits \in Waits
      BY <3>1, WaitsTyped
    <3>3. fields = [config[c] EXCEPT !.waits = waits]
      BY <2>1 DEF ConfigRecords
    <3> HIDE DEF waits, fields
    <3> QED BY <2>1, <3>2, <3>3 DEF ConfigRecords
  <2> QED BY <2>1, <2>2, SetPlainFieldKeeps DEF SetReadTimeout
<1>9. CASE \E c \in RepositoryConfigs, timeout \in Timeouts : SetWriteTimeout(c, timeout)
  <2> PICK c \in RepositoryConfigs, timeout \in Timeouts : SetWriteTimeout(c, timeout)
    BY <1>9
  <2> DEFINE fields == [config[c] EXCEPT !.waits.write = timeout]
  <2>1. c \in Configs /\ config[c] \in ConfigRecords
    BY DEF IInv, ConfigInv, Configs
  <2>2. /\ fields \in ConfigRecords /\ fields.credentials = config[c].credentials
        /\ fields.headers = config[c].headers /\ fields.endpoints = config[c].endpoints
    <3> DEFINE waits == [config[c].waits EXCEPT !.write = timeout]
    <3>1. config[c].waits \in Waits
      BY <2>1 DEF ConfigRecords
    <3>2. waits \in Waits
      BY <3>1, WaitsTyped
    <3>3. fields = [config[c] EXCEPT !.waits = waits]
      BY <2>1 DEF ConfigRecords
    <3> HIDE DEF waits, fields
    <3> QED BY <2>1, <3>2, <3>3 DEF ConfigRecords
  <2> QED BY <2>1, <2>2, SetPlainFieldKeeps DEF SetWriteTimeout
<1>10. CASE \E c \in ServerConfigs, timeout \in Timeouts : SetTimeout(c, timeout)
  <2> PICK c \in ServerConfigs, timeout \in Timeouts : SetTimeout(c, timeout)
    BY <1>10
  <2> DEFINE fields == [config[c] EXCEPT !.waits = [read |-> timeout, write |-> timeout]]
  <2>1. /\ c \in Configs
        /\ fields \in ConfigRecords /\ fields.credentials = config[c].credentials
        /\ fields.headers = config[c].headers /\ fields.endpoints = config[c].endpoints
    BY DEF IInv, ConfigInv, ConfigRecords, Waits, Configs
  <2> QED BY <2>1, SetPlainFieldKeeps DEF SetTimeout
<1> QED BY <1>1, <1>2, <1>3, <1>4, <1>5, <1>6, <1>7, <1>8, <1>9, <1>10 DEF Setter

----------------------------------------------------------------------------
(* Clients                                                                 *)

Fine(k) == ClientOK(k) /\ CredentialsOf(k) \in k.had

FineSeq(s) == s \in Seq(Clients) /\ \A j \in DOMAIN s : Fine(s[j])

\* Under the invariant the clients are a sequence of fine ones.
LEMMA FineClients == ASSUME IInv PROVE FineSeq(clients)
BY DEF IInv, ClientsInv, HadInv, FineSeq, Fine

\* A step that changes only clients keeps the invariant if they are fine afterwards.
LEMMA ClientsChange ==
    ASSUME ConstantsOK, IInv, NEW s, FineSeq(s), Len(s) <= MaxClients, clients' = s,
           UNCHANGED <<config, headers, list, meant, writers>>,
           steps' \in [settings : 0..MaxSettings, sends : 0..MaxSends]
    PROVE  IInv'
<1>1. ConfigInv' /\ MeantInv'
  BY DEF IInv, ConfigInv, MeantInv
<1>2. ClientsInv'
  BY DEF ClientsInv, FineSeq, Fine
<1>3. HadInv'
  BY DEF HadInv, FineSeq, Fine, CredentialsOf
<1> QED BY <1>1, <1>2, <1>3 DEF IInv

\* Replacing one client by a fine one leaves all of them fine.
LEMMA FineUpdate ==
    ASSUME NEW s, FineSeq(s), NEW i \in DOMAIN s, NEW k, Fine(k)
    PROVE  FineSeq([s EXCEPT ![i] = k]) /\ Len([s EXCEPT ![i] = k]) = Len(s)
<1>1. k \in Clients /\ s \in Seq(Clients) /\ i \in 1..Len(s)
  BY DEF FineSeq, Fine, ClientOK
<1>2. /\ [s EXCEPT ![i] = k] \in Seq(Clients)
      /\ Len([s EXCEPT ![i] = k]) = Len(s)
      /\ \A j \in 1..Len(s) : [s EXCEPT ![i] = k][j] = IF j = i THEN k ELSE s[j]
  BY <1>1, ExceptSeq
<1> QED BY <1>1, <1>2 DEF FineSeq

\* So does adding a fine one.
LEMMA FineAppend ==
    ASSUME NEW s, FineSeq(s), NEW k, Fine(k)
    PROVE  FineSeq(Append(s, k)) /\ Len(Append(s, k)) = Len(s) + 1
BY DEF FineSeq, Fine, ClientOK

\* A step of a client keeps the invariant if the client is fine afterwards.
LEMMA UpdateKeeps ==
    ASSUME ConstantsOK, IInv, NEW i \in DOMAIN clients, NEW k, Fine(k), Update(i, k)
    PROVE  IInv'
<1> DEFINE s == [clients EXCEPT ![i] = k]
<1>1. FineSeq(s) /\ Len(s) <= MaxClients
  BY FineClients, FineUpdate DEF IInv, ClientsInv
<1>2. /\ clients' = s /\ UNCHANGED <<config, headers, list, meant, writers>>
      /\ steps' \in [settings : 0..MaxSettings, sends : 0..MaxSends]
  BY DEF Update, IInv, ConfigInv
<1> QED BY <1>1, <1>2, ClientsChange

\* So does making a client that is fine.
LEMMA MadeKeeps ==
    ASSUME ConstantsOK, IInv, NEW k, Fine(k), Made(k)
    PROVE  IInv'
<1> DEFINE s == Append(clients, k)
<1>1. FineSeq(s) /\ Len(s) <= MaxClients
  <2>1. Len(clients) \in Nat /\ Len(clients) < MaxClients
    BY DEF IInv, ClientsInv, Made
  <2> QED BY <2>1, FineClients, FineAppend DEF ConstantsOK
<1>2. /\ clients' = s /\ UNCHANGED <<config, headers, list, meant, writers>>
      /\ steps' \in [settings : 0..MaxSettings, sends : 0..MaxSends]
  BY DEF Made, IInv, ConfigInv
<1> QED BY <1>1, <1>2, ClientsChange

\* A new client: it has the credentials of its configuration.
LEMMA NewClientTyped ==
    ASSUME ConstantsOK, IInv, NEW kind \in {"repository", "transaction", "server"},
           NEW c \in Configs
    PROVE  LET k == NewClient(kind, c) IN
           /\ k \in Clients
           /\ k.kind = kind /\ k.config = c /\ k.headers # None
           /\ k.endpoints # <<>> /\ k.promised = k.endpoints
           /\ k.had = {config[c].credentials} /\ k.at = "idle" /\ k.call = "read"
           /\ k.login = None /\ k.header = None /\ k.user = None /\ k.captured = None
<1> DEFINE k == NewClient(kind, c)
<1>1. /\ config[c] \in ConfigRecords
      /\ config[c].credentials \in CredentialsOrNone
  BY DEF IInv, ConfigInv, ConfigRecords
<1>2. <<config[c].base>> \in Urls /\ <<config[c].base>> # <<>>
  BY <1>1 DEF ConfigRecords, Urls
<1>3. k \in Clients
  BY <1>1, <1>2, NoHeadersTyped
     DEF NewClient, Clients, ConfigRecords, CredentialsOrNone, Users, OwnHeaders
<1>4. k.headers # None
  BY <1>1 DEF NewClient, ConfigRecords, ConstantsOK
<1>5. /\ k.kind = kind /\ k.config = c /\ k.endpoints = <<config[c].base>>
      /\ k.promised = k.endpoints /\ k.had = {config[c].credentials}
      /\ k.login = None /\ k.header = None /\ k.user = None /\ k.captured = None
      /\ k.at = "idle" /\ k.call = "read"
  BY DEF NewClient
<1> HIDE DEF k
<1>6. k.endpoints # <<>>
  BY <1>2, <1>5
<1> QED BY <1>3, <1>4, <1>5, <1>6 DEF k

\* A new repository client copies what its configuration means.
LEMMA CreateRepositoryClientKeeps ==
    ASSUME ConstantsOK, IInv, NEW c \in RepositoryConfigs, CreateRepositoryClient(c)
    PROVE  IInv'
<1> DEFINE a == config[c].endpoints
           k == NewClient("repository", c)
           shared == ~(writers[a] \subseteq {c})
           made == [k EXCEPT !.endpoints = list[a], !.promised = meant[c].endpoints,
                             !.shared = shared]
<1>1. c \in Configs /\ a \in Arrays
  BY DEF IInv, ConfigInv, Configs
<1>2. /\ list[a] \in Urls /\ meant[c].endpoints \in Urls /\ list[a] # <<>>
      /\ shared \in BOOLEAN /\ (shared \/ list[a] = meant[c].endpoints)
  <2>1. list[a] \in Seq(Endpoints) /\ meant[c].endpoints \in Seq(Endpoints)
    BY <1>1 DEF IInv, ConfigInv
  <2>2. list[a] \in Urls /\ meant[c].endpoints \in Urls
    BY <2>1, SeqMonotonic DEF Urls
  <2> QED BY <2>2 DEF CreateRepositoryClient, IInv, MeantInv
<1>3. /\ k \in Clients /\ k.kind = "repository" /\ k.config = c /\ k.headers # None
      /\ k.had = {config[c].credentials} /\ k.at = "idle" /\ k.call = "read"
      /\ k.login = None /\ k.header = None /\ k.user = None /\ k.captured = None
  BY <1>1, NewClientTyped
<1>4. Made(made)
  BY DEF CreateRepositoryClient
<1> HIDE DEF k, shared, a
<1>5. ClientOK(made)
  BY <1>2, <1>3 DEF Clients, ClientOK, KeptOK, TokensOK
<1>6. CredentialsOf(made) \in made.had
  BY <1>3 DEF Clients, CredentialsOf
<1> QED BY <1>4, <1>5, <1>6, MadeKeeps DEF Fine

\* A new server client shares no headers with its configuration.
LEMMA CreateServerClientKeeps ==
    ASSUME ConstantsOK, IInv, NEW c \in ServerConfigs, CreateServerClient(c)
    PROVE  IInv'
<1> DEFINE k == NewClient("server", c)
           made == [k EXCEPT !.headers = None]
<1>1. /\ k \in Clients /\ k.kind = "server" /\ k.config = c
      /\ k.endpoints # <<>> /\ k.promised = k.endpoints
      /\ k.had = {config[c].credentials} /\ k.at = "idle" /\ k.call = "read"
      /\ k.login = None /\ k.header = None /\ k.user = None /\ k.captured = None
  BY NewClientTyped DEF Configs
<1>2. Made(made)
  BY DEF CreateServerClient
<1> HIDE DEF k
<1>3. ClientOK(made)
  BY <1>1 DEF Clients, ClientOK, KeptOK, TokensOK
<1>4. CredentialsOf(made) \in made.had
  BY <1>1 DEF Clients, CredentialsOf
<1> QED BY <1>2, <1>3, <1>4, MadeKeeps DEF Fine

\* A transactional client has the credentials that its parent has when it is made.
LEMMA TransactionFine ==
    ASSUME ConstantsOK, IInv, NEW c \in RepositoryConfigs
    PROVE  Fine(TransactionOf(c))
<1> DEFINE k == NewClient("transaction", c)
           made == [k EXCEPT !.endpoints = <<TransactionUrl>>, !.promised = <<TransactionUrl>>,
                             !.credentials = config[c].credentials]
<1>1. /\ k \in Clients /\ k.kind = "transaction" /\ k.config = c /\ k.headers # None
      /\ k.had = {config[c].credentials} /\ k.at = "idle" /\ k.call = "read"
      /\ k.login = None /\ k.header = None /\ k.user = None /\ k.captured = None
  BY NewClientTyped DEF Configs
<1>2. config[c].credentials \in CredentialsOrNone
  BY DEF IInv, ConfigInv, ConfigRecords, Configs
<1>3. <<TransactionUrl>> \in Urls /\ <<TransactionUrl>> # <<>>
  BY DEF Urls
<1> HIDE DEF k
<1>4. ClientOK(made)
  BY <1>1, <1>2, <1>3 DEF Clients, ClientOK, KeptOK, TokensOK
<1>5. CredentialsOf(made) \in made.had
  BY <1>1 DEF Clients, CredentialsOf
<1>6. TransactionOf(c) = made
  BY DEF TransactionOf, k
<1> QED BY <1>4, <1>5, <1>6 DEF Fine

\* A client between two calls has forgotten the login and what it captured.
LEMMA IdleFine == ASSUME NEW k, Fine(k) PROVE Fine(Idle(k)) /\ Idle(k).login = None
<1>1. k \in Clients
  BY DEF Fine, ClientOK
<1>2. Idle(k) \in Clients
  BY <1>1, NoHeadersTyped DEF Idle, Clients, CredentialsOrNone, Users, OwnHeaders
<1>3. /\ Idle(k).config = k.config /\ Idle(k).kind = k.kind /\ Idle(k).had = k.had
      /\ Idle(k).credentials = k.credentials /\ Idle(k).headers = k.headers
      /\ Idle(k).endpoints = k.endpoints /\ Idle(k).promised = k.promised
      /\ Idle(k).shared = k.shared /\ Idle(k).user = k.user
      /\ Idle(k).at = "idle" /\ Idle(k).call = "read" /\ Idle(k).login = None
      /\ Idle(k).captured = None
      /\ Idle(k).header = None
  BY <1>1 DEF Idle, Clients
<1>4. KeptOK(Idle(k)) /\ TokensOK(Idle(k)) /\ CredentialsOf(Idle(k)) = CredentialsOf(k)
  BY <1>3 DEF Fine, ClientOK, KeptOK, TokensOK, CredentialsOf
<1> QED BY <1>2, <1>3, <1>4 DEF Fine, ClientOK

\* A login is made with the credentials of the client, unless there is a token to be used.
LEMMA LoginFine ==
    ASSUME IInv, NEW k, Fine(k), k.login = None
    PROVE  Fine(Login(k))
<1>1. k \in Clients /\ KeptOK(k) /\ TokensOK(k) /\ CredentialsOf(k) \in k.had
  BY DEF Fine, ClientOK
<1>2. CASE CredentialsOf(k) # None /\ k.user \notin Credentials
  <2> DEFINE l == [k EXCEPT !.at = "login", !.login = CredentialsOf(k), !.request = NoRequest]
  <2>1. l \in Clients
    BY <1>1, NoHeadersTyped DEF Clients
  <2>2. /\ l.config = k.config /\ l.kind = k.kind /\ l.call = k.call /\ l.had = k.had
        /\ l.credentials = k.credentials /\ l.headers = k.headers
        /\ l.endpoints = k.endpoints /\ l.promised = k.promised /\ l.shared = k.shared
        /\ l.user = k.user /\ l.captured = k.captured /\ l.header = k.header
        /\ l.at = "login" /\ l.login = CredentialsOf(k)
    BY <1>1 DEF Clients
  <2> HIDE DEF l
  <2>3. KeptOK(l) /\ TokensOK(l) /\ CredentialsOf(l) = CredentialsOf(k)
    BY <1>1, <2>2 DEF KeptOK, TokensOK, CredentialsOf
  <2>4. Fine(l)
    BY <1>1, <2>1, <2>2, <2>3 DEF Fine, ClientOK
  <2> QED BY <1>2, <2>4 DEF Login, l
<1>3. CASE ~(CredentialsOf(k) # None /\ k.user \notin Credentials)
  <2> DEFINE l == [k EXCEPT !.at = "resume", !.captured = k.user, !.request = NoRequest]
  <2>1. l \in Clients
    BY <1>1, NoHeadersTyped DEF Clients
  <2>2. /\ l.config = k.config /\ l.kind = k.kind /\ l.call = k.call /\ l.had = k.had
        /\ l.credentials = k.credentials /\ l.headers = k.headers
        /\ l.endpoints = k.endpoints /\ l.promised = k.promised /\ l.shared = k.shared
        /\ l.user = k.user /\ l.captured = k.user /\ l.header = k.header
        /\ l.at = "resume" /\ l.login = None
    BY <1>1 DEF Clients
  <2> HIDE DEF l
  <2>3. KeptOK(l) /\ TokensOK(l) /\ CredentialsOf(l) = CredentialsOf(k)
    BY <1>1, <2>2 DEF KeptOK, TokensOK, CredentialsOf
  <2>4. Fine(l)
    BY <1>1, <2>1, <2>2, <2>3 DEF Fine, ClientOK
  <2> QED BY <1>3, <2>4 DEF Login, l
<1> QED BY <1>2, <1>3

\* A call logs in, or resumes with the token of the client.
LEMMA CallKeeps ==
    ASSUME ConstantsOK, IInv, NEW i \in DOMAIN clients,
           NEW call \in {"read", "write", "begin"}, NEW own \in OwnHeaders, Call(i, call, own)
    PROVE  IInv'
<1> DEFINE k == clients[i]
           l == [k EXCEPT !.call = call, !.own = own]
<1>1. Fine(k) /\ k \in Clients /\ k.at = "idle"
      /\ (call = "begin" => k.kind = "repository")
  BY FineClients DEF FineSeq, Fine, ClientOK, Call
<1> HIDE DEF k
<1>2. l \in Clients
  BY <1>1 DEF Clients
<1>3. /\ l.config = k.config /\ l.kind = k.kind /\ l.call = call /\ l.had = k.had
      /\ l.credentials = k.credentials /\ l.headers = k.headers
      /\ l.endpoints = k.endpoints /\ l.promised = k.promised /\ l.shared = k.shared
      /\ l.user = k.user /\ l.captured = k.captured /\ l.header = k.header
      /\ l.at = k.at /\ l.login = k.login
  BY <1>1 DEF Clients
<1>4. Update(i, Login(l))
  BY DEF Call, k
<1> HIDE DEF l
<1>5. Fine(l) /\ l.login = None
  BY <1>1, <1>2, <1>3 DEF Fine, ClientOK, KeptOK, TokensOK, CredentialsOf
<1> QED BY <1>4, <1>5, LoginFine, UpdateKeeps

\* A login captures a token of the credentials it was made with.
LEMMA LoginSucceedsKeeps ==
    ASSUME ConstantsOK, IInv, NEW i \in DOMAIN clients, LoginSucceeds(i)
    PROVE  IInv'
<1> DEFINE k == clients[i]
           l == [k EXCEPT !.at = "resume", !.captured = TokenFrom(k)]
<1>1. Fine(k) /\ k \in Clients /\ k.at = "login"
  BY FineClients DEF FineSeq, Fine, ClientOK, LoginSucceeds
<1>2. Update(i, l)
  BY DEF LoginSucceeds
<1> HIDE DEF k
<1>3. l \in Clients
  BY <1>1 DEF Clients, TokenFrom, CredentialsOrNone, Users
<1>4. /\ l.config = k.config /\ l.kind = k.kind /\ l.call = k.call /\ l.had = k.had
      /\ l.credentials = k.credentials /\ l.headers = k.headers
      /\ l.endpoints = k.endpoints /\ l.promised = k.promised /\ l.shared = k.shared
      /\ l.user = k.user /\ l.captured = k.login /\ l.header = k.header
      /\ l.at = "resume" /\ l.login = k.login
  BY <1>1 DEF Clients, TokenFrom
<1> HIDE DEF l
<1>5. Fine(l)
  BY <1>1, <1>3, <1>4 DEF Fine, ClientOK, KeptOK, TokensOK, CredentialsOf
<1> QED BY <1>2, <1>5, UpdateKeeps

\* The token of the request is of credentials that the client had.
LEMMA HeaderOfTyped ==
    ASSUME ConstantsOK, NEW k, Fine(k)
    PROVE  HeaderOf(k) \in k.had \cup {None} /\ HeaderOf(k) \in CredentialsOrNone
BY DEF HeaderOf, Fine, ClientOK, TokensOK, Clients, CredentialsOrNone, Users, ConstantsOK

\* A request carries a token the client had, which stays in its builder.
LEMMA SendKeeps ==
    ASSUME ConstantsOK, IInv, NEW i \in DOMAIN clients, Send(i)
    PROVE  IInv'
<1> DEFINE k == clients[i]
           request == [headers |-> HeadersOf(k), endpoints |-> EndpointsOf(k),
                       timeout |-> TimeoutOf(k), token |-> HeaderOf(k)]
           l == [k EXCEPT !.at = "sent", !.user = k.captured, !.captured = None,
                          !.login = None, !.header = HeaderOf(k), !.request = request]
<1>1. Fine(k) /\ k \in Clients /\ k.at = "resume"
  BY FineClients DEF FineSeq, Fine, ClientOK, Send
<1>2. /\ clients' = [clients EXCEPT ![i] = l]
      /\ UNCHANGED <<config, headers, list, meant, writers>>
      /\ steps' \in [settings : 0..MaxSettings, sends : 0..MaxSends]
  BY DEF Send, IInv, ConfigInv, ConstantsOK
<1> HIDE DEF k
<1>3. HeaderOf(k) \in k.had \cup {None} /\ HeaderOf(k) \in CredentialsOrNone
  BY <1>1, HeaderOfTyped
<1>4. request \in Requests
  <2>1. HeadersOf(k) \in HeaderMaps
    <3>1. k.own \in HeaderMaps /\ (k.headers = None \/ headers[k.headers] \in HeaderMaps)
      BY <1>1, NoHeadersTyped DEF Clients, IInv, ConfigInv
    <3> QED BY <3>1, OverTyped DEF HeadersOf
  <2>2. TimeoutOf(k) \in Timeouts \cup {DefaultTimeout}
    BY <1>1 DEF TimeoutOf, Clients, Waits
  <2>3. EndpointsOf(k) \in Urls
    BY <1>1 DEF EndpointsOf, Clients
  <2> QED BY <1>3, <2>1, <2>2, <2>3 DEF Requests
<1> HIDE DEF request
<1>5. l \in Clients
  BY <1>1, <1>3, <1>4 DEF Clients, CredentialsOrNone, Users
<1>6. /\ l.config = k.config /\ l.kind = k.kind /\ l.call = k.call /\ l.had = k.had
      /\ l.credentials = k.credentials /\ l.headers = k.headers
      /\ l.endpoints = k.endpoints /\ l.promised = k.promised /\ l.shared = k.shared
      /\ l.user = k.captured /\ l.captured = None /\ l.header = HeaderOf(k)
      /\ l.at = "sent" /\ l.login = None
  BY <1>1 DEF Clients
<1> HIDE DEF l
<1>7. Fine(l)
  BY <1>1, <1>3, <1>5, <1>6 DEF Fine, ClientOK, KeptOK, TokensOK, CredentialsOf
<1>8. FineSeq([clients EXCEPT ![i] = l]) /\ Len([clients EXCEPT ![i] = l]) <= MaxClients
  BY <1>7, FineClients, FineUpdate DEF IInv, ClientsInv
<1> QED BY <1>2, <1>8, ClientsChange

\* A transactional client inherits from its parent, and has one endpoint.
LEMMA BeginAnsweredKeeps ==
    ASSUME ConstantsOK, IInv, NEW i \in DOMAIN clients, BeginAnswered(i)
    PROVE  IInv'
<1> DEFINE k == clients[i]
           idle == [clients EXCEPT ![i] = Idle(k)]
           s == Append(idle, TransactionOf(k.config))
<1>1. Fine(k) /\ k.config \in RepositoryConfigs
  BY FineClients DEF FineSeq, Fine, ClientOK, KeptOK, BeginAnswered
<1>2. FineSeq(idle) /\ Len(idle) = Len(clients)
  BY <1>1, FineClients, IdleFine, FineUpdate
<1>3. Fine(TransactionOf(k.config))
  BY <1>1, TransactionFine
<1>4. Len(clients) \in Nat /\ Len(clients) < MaxClients
  BY DEF IInv, ClientsInv, BeginAnswered
<1>5. /\ clients' = s /\ UNCHANGED <<config, headers, list, meant, writers>>
      /\ steps' \in [settings : 0..MaxSettings, sends : 0..MaxSends]
  BY DEF BeginAnswered, IInv, ConfigInv
<1> HIDE DEF idle
<1>6. FineSeq(s) /\ Len(s) <= MaxClients
  BY <1>2, <1>3, <1>4, FineAppend DEF ConstantsOK
<1> QED BY <1>5, <1>6, ClientsChange

\* After a 401 the token is cleared, and a login starts or the call is over.
LEMMA RefusedKeeps ==
    ASSUME ConstantsOK, IInv, NEW i \in DOMAIN clients, Refused(i)
    PROVE  IInv'
<1> DEFINE k == clients[i]
           l == [k EXCEPT !.user = Cleared]
<1>1. Fine(k) /\ k \in Clients /\ k.at = "sent"
  BY FineClients DEF FineSeq, Fine, ClientOK, Refused
<1>2. Update(i, Idle(k)) \/ Update(i, Login(k)) \/ Update(i, Login(l))
  BY DEF Refused
<1> HIDE DEF k
<1>3. l \in Clients
  BY <1>1 DEF Clients, Users
<1>4. /\ l.config = k.config /\ l.kind = k.kind /\ l.call = k.call /\ l.had = k.had
      /\ l.credentials = k.credentials /\ l.headers = k.headers
      /\ l.endpoints = k.endpoints /\ l.promised = k.promised /\ l.shared = k.shared
      /\ l.user = Cleared /\ l.captured = k.captured /\ l.header = k.header
      /\ l.at = k.at /\ l.login = k.login
  BY <1>1 DEF Clients
<1> HIDE DEF l
<1>5. Fine(l) /\ l.login = None /\ k.login = None
  BY <1>1, <1>3, <1>4 DEF Fine, ClientOK, KeptOK, TokensOK, CredentialsOf
<1>6. Fine(Idle(k)) /\ Fine(Login(k)) /\ Fine(Login(l))
  BY <1>1, <1>5, IdleFine, LoginFine
<1> QED BY <1>2, <1>6, UpdateKeeps

----------------------------------------------------------------------------
(* Theorems                                                                *)

\* A call that is over leaves its client idle.
LEMMA SettleKeeps ==
    ASSUME ConstantsOK, IInv, NEW i \in DOMAIN clients, Settle(i)
    PROVE  IInv'
<1>1. Fine(clients[i])
  BY FineClients DEF FineSeq
<1> QED BY <1>1, IdleFine, UpdateKeeps DEF Settle

\* Every step of a setter or of a client preserves the invariant.
THEOREM NextPreserves == ConstantsOK /\ IInv /\ [Next]_vars => IInv'
<1> SUFFICES ASSUME ConstantsOK, IInv, [Next]_vars PROVE IInv'
  OBVIOUS
<1>1. CASE Setter
  BY <1>1, SetterKeeps
<1>2. CASE \E c \in RepositoryConfigs : CreateRepositoryClient(c)
  BY <1>2, CreateRepositoryClientKeeps
<1>3. CASE \E c \in ServerConfigs : CreateServerClient(c)
  BY <1>3, CreateServerClientKeeps
<1>4. CASE \E i \in DOMAIN clients :
              \E call \in {"read", "write", "begin"}, own \in OwnHeaders : Call(i, call, own)
  BY <1>4, CallKeeps
<1>5. CASE \E i \in DOMAIN clients : LoginSucceeds(i)
  BY <1>5, LoginSucceedsKeeps
<1>6. CASE \E i \in DOMAIN clients : Send(i)
  BY <1>6, SendKeeps
<1>7. CASE \E i \in DOMAIN clients : Settle(i)
  BY <1>7, SettleKeeps
<1>8. CASE \E i \in DOMAIN clients : BeginAnswered(i)
  BY <1>8, BeginAnsweredKeeps
<1>9. CASE \E i \in DOMAIN clients : Refused(i)
  BY <1>9, RefusedKeeps
<1>10. CASE UNCHANGED vars
  <2>1. steps' \in [settings : 0..MaxSettings, sends : 0..MaxSends] /\ Len(clients) <= MaxClients
    BY <1>10 DEF vars, IInv, ConfigInv, ClientsInv
  <2> QED BY <1>10, <2>1, FineClients, ClientsChange DEF vars
<1> QED BY <1>1, <1>2, <1>3, <1>4, <1>5, <1>6, <1>7, <1>8, <1>9, <1>10 DEF Next

\* The invariant gives every variable its type.
LEMMA IInvTyped == ASSUME IInv PROVE TypeOK
<1>1. \A c \in Configs :
        /\ config[c].headers \in HeadersObjects
        /\ config[c].endpoints \in Arrays \cup {None}
        /\ config[c].base \in Endpoints
        /\ config[c].waits \in Waits
        /\ config[c].credentials \in Credentials \cup {None}
        /\ config[c].keepAlive \in BOOLEAN
  BY DEF IInv, ConfigInv, ConfigRecords, CredentialsOrNone
<1>2. ASSUME NEW i \in DOMAIN clients PROVE IsClient(clients[i])
  BY DEF IInv, ClientsInv, ClientOK, KeptOK, Clients, Requests, Urls, CredentialsOrNone, IsClient
<1> QED BY <1>1, <1>2 DEF TypeOK, IInv, ConfigInv, ClientsInv

\* Only the callback of login sends.
LEMMA NotSentBy ==
    ASSUME IInv, NEW i \in DOMAIN clients, clients[i].at = "resume",
           \/ UNCHANGED clients
           \/ \E k : clients' = Append(clients, k)
           \/ \E j \in DOMAIN clients : \E k :
                k.at # "sent" /\ clients' = [clients EXCEPT ![j] = k]
    PROVE  clients'[i].at # "sent"
<1>1. clients \in Seq(Clients) /\ i \in 1..Len(clients)
  BY DEF IInv, ClientsInv
<1> QED BY <1>1

\* Neither the end of a call nor a login sends a request.
LEMMA AtAfter ==
    ASSUME NEW k \in Clients
    PROVE  Idle(k).at = "idle" /\ Login(k).at \in {"login", "resume"}
<1>1. Idle(k).at = "idle"
  BY DEF Idle, Clients
<1>2. Login(k).at \in {"login", "resume"}
  BY DEF Login, Clients
<1> QED BY <1>1, <1>2

\* Only Send sends a request.
LEMMA SendingStep ==
    ASSUME ConstantsOK, IInv, Next, NEW i, Sends(i)
    PROVE  Send(i)
<1>1. i \in DOMAIN clients /\ clients[i].at = "resume" /\ clients'[i].at = "sent"
  BY DEF Sends
<1>2. \A j \in DOMAIN clients : clients[j] \in Clients
  BY FineClients DEF FineSeq, Fine, ClientOK
<1>3. ~Setter
  <2>1. ASSUME NEW c, NEW credentials, SwitchAuthentication(c, credentials) PROVE FALSE
    <3>1. clients'[i].at = clients[i].at
      BY <1>1, <1>2, <2>1 DEF SwitchAuthentication, Clients
    <3> QED BY <1>1, <3>1
  <2>2. ASSUME UNCHANGED clients PROVE FALSE
    BY <1>1, <2>2
  <2> QED BY <2>1, <2>2 DEF Setter, SetHeaders, SetLocation, SetEndpoints, AddEndpoint, SetEndpoint,
            SetReadTimeout, SetWriteTimeout, SetTimeout, SetKeepAlive
<1>4. ~\E c \in RepositoryConfigs : CreateRepositoryClient(c)
  BY <1>1, NotSentBy DEF CreateRepositoryClient, Made
<1>5. ~\E c \in ServerConfigs : CreateServerClient(c)
  BY <1>1, NotSentBy DEF CreateServerClient, Made
<1>6. ASSUME NEW j \in DOMAIN clients, NEW call \in {"read", "write", "begin"},
             NEW own \in OwnHeaders, Call(j, call, own)
      PROVE  FALSE
  <2> DEFINE k == clients[j]
             l == [k EXCEPT !.call = call, !.own = own]
  <2>1. clients' = [clients EXCEPT ![j] = Login(l)]
    BY <1>6 DEF Call, Update
  <2>2. k \in Clients
    BY <1>2
  <2> HIDE DEF k
  <2>3. l \in Clients
    BY <2>2 DEF Clients
  <2> HIDE DEF l
  <2> QED BY <1>1, <2>1, <2>3, NotSentBy, AtAfter
<1>7. ASSUME NEW j \in DOMAIN clients, LoginSucceeds(j) PROVE FALSE
  <2> DEFINE l == [clients[j] EXCEPT !.at = "resume", !.captured = TokenFrom(clients[j])]
  <2>1. l.at = "resume"
    BY <1>2 DEF Clients
  <2>2. clients' = [clients EXCEPT ![j] = l]
    BY <1>7 DEF LoginSucceeds, Update
  <2> HIDE DEF l
  <2> QED BY <1>1, <2>1, <2>2, NotSentBy
<1>8. ASSUME NEW j \in DOMAIN clients, Send(j) PROVE Send(i)
  <2>1. j = i
    BY <1>1, <1>8 DEF Send
  <2> QED BY <1>8, <2>1
<1>9. ASSUME NEW j \in DOMAIN clients, Settle(j) PROVE FALSE
  BY <1>1, <1>2, <1>9, NotSentBy, AtAfter DEF Settle, Update
<1>10. ASSUME NEW j \in DOMAIN clients, BeginAnswered(j) PROVE FALSE
  <2> DEFINE idle == [clients EXCEPT ![j] = Idle(clients[j])]
  <2>1. idle[i].at # "sent" /\ idle \in Seq(Clients) /\ Len(idle) = Len(clients)
    <3>1. Fine(Idle(clients[j])) /\ Idle(clients[j]).at = "idle"
      BY <1>2, FineClients, IdleFine, AtAfter DEF FineSeq
    <3>2. FineSeq(idle) /\ Len(idle) = Len(clients)
      BY <3>1, FineClients, FineUpdate
    <3> QED BY <1>1, <1>2, <3>1, <3>2 DEF FineSeq
  <2>2. clients' = Append(idle, TransactionOf(clients[j].config))
    BY <1>10 DEF BeginAnswered
  <2>3. i \in 1..Len(clients)
    BY <1>1 DEF IInv, ClientsInv
  <2> HIDE DEF idle
  <2> QED BY <1>1, <2>1, <2>2, <2>3
<1>11. ASSUME NEW j \in DOMAIN clients, Refused(j) PROVE FALSE
  <2> DEFINE l == [clients[j] EXCEPT !.user = Cleared]
  <2>1. l \in Clients
    BY <1>2 DEF Clients, Users
  <2>2. \/ Update(j, Idle(clients[j])) \/ Update(j, Login(clients[j])) \/ Update(j, Login(l))
    BY <1>11 DEF Refused
  <2> QED BY <1>1, <1>2, <2>1, <2>2, NotSentBy, AtAfter DEF Update
<1> QED BY <1>3, <1>4, <1>5, <1>6, <1>7, <1>8, <1>9, <1>10, <1>11 DEF Next

\* A request goes where its client was promised, and carries the headers its configuration
\* means, whatever is shared, or that of a server client its own ones only
\* (base-repository-client.js:80-89, http-client.js:62-65, server.js:46-53).
LEMMA ConfigurationReachesStep ==
    ASSUME ConstantsOK, IInv, [Next]_vars, NEW i
    PROVE  ConfigurationReaches(i)
<1> SUFFICES ASSUME Sends(i) PROVE ConfigurationReaches(i)
  BY DEF ConfigurationReaches
<1>1. Next /\ i \in DOMAIN clients
  BY DEF vars, Sends
<1>2. Send(i)
  BY <1>1, SendingStep
<1> DEFINE k == clients[i]
           r == clients'[i].request
<1>3. k \in Clients /\ KeptOK(k)
  BY <1>1, FineClients DEF FineSeq, Fine, ClientOK
<1>4. r.endpoints = k.endpoints /\ r.headers = HeadersOf(k)
  BY <1>1, <1>2, <1>3 DEF Send, EndpointsOf, Clients
<1>5. ASSUME k.kind # "server", SameHeaders(k), writers[k.headers] \subseteq {k.config}
      PROVE  r.headers = Over(k.own, meant[k.config].headers)
  <2>1. k.headers # None /\ headers[k.headers] = meant[k.config].headers
    BY <1>3, <1>5 DEF KeptOK, Clients, SameHeaders, IInv, MeantInv
  <2> QED BY <1>4, <2>1 DEF HeadersOf
<1>6. k.kind = "server" => r.headers = k.own
  BY <1>3, <1>4 DEF KeptOK, HeadersOf
<1> QED BY <1>3, <1>4, <1>5, <1>6 DEF ConfigurationReaches, KeptOK

\* A request carries the token of credentials that its client had, after a login of those
\* it logged in with (base-repository-client.js:80-89, auth service's login).
LEMMA LoggedInStep ==
    ASSUME ConstantsOK, IInv, [Next]_vars, NEW i
    PROVE  LoggedIn(i)
<1> SUFFICES ASSUME Sends(i) PROVE LoggedIn(i)
  BY DEF LoggedIn
<1>1. Next /\ i \in DOMAIN clients
  BY DEF vars, Sends
<1>2. Send(i)
  BY <1>1, SendingStep
<1> DEFINE k == clients[i]
<1>3. Fine(k) /\ k \in Clients /\ TokensOK(k) /\ k.at = "resume"
  BY <1>1, <1>2, FineClients DEF FineSeq, Fine, ClientOK, Send
<1>4. clients'[i].request.token = HeaderOf(k)
  BY <1>1, <1>2, <1>3 DEF Send, Clients
<1>5. k.login # None => HeaderOf(k) = k.login
  BY <1>3 DEF TokensOK, HeaderOf, Clients, CredentialsOrNone
<1> QED BY <1>3, <1>4, <1>5, HeaderOfTyped DEF LoggedIn

\* The location of a configuration arrives as long as the headers object of the client has
\* not been written through any other configuration.
LEMMA LocationStep ==
    ASSUME ConstantsOK, IInv, [Next]_vars, NEW i,
           writers[clients[i].headers] \subseteq {clients[i].config}
    PROVE  LocationArrives(i)
<1> DEFINE k == clients[i]
           headersMeant == meant[k.config].headers
<1> SUFFICES ASSUME Sends(i), k.kind # "server", SameHeaders(k)
             PROVE  clients'[i].request.headers.location = headersMeant.location
  BY DEF LocationArrives
<1>1. clients'[i].request.headers = Over(k.own, headersMeant)
  BY ConfigurationReachesStep DEF ConfigurationReaches
<1>2. k.own \in OwnHeaders
  BY FineClients DEF Sends, FineSeq, Fine, ClientOK, Clients
<1>3. "location" \in DOMAIN k.own /\ k.own.location = None
  BY <1>2 DEF OwnHeaders, NoHeaders
<1> HIDE DEF k, headersMeant
<1>4. Over(k.own, headersMeant)["location"] = headersMeant["location"]
  BY <1>3 DEF Over
<1> QED BY <1>1, <1>4 DEF k, headersMeant
=============================================================================
