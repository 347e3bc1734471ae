---------------------------- MODULE Session_proofs ----------------------------
(***************************************************************************)
(* What Session promises, proved for every value of its constants that     *)
(* meets its assumptions.  Of its seven parts, those of payloads, texts    *)
(* and parsers have their invariants in Services_proofs, and the others in *)
(* proof modules of their own, which are instantiated here.                *)
(***************************************************************************)
EXTENDS Services_proofs

CP == INSTANCE Configuration_proofs
AP == INSTANCE Administration_proofs
NP == INSTANCE Namespaces_proofs

(***************************************************************************)
(* The instances of the proof modules are about the same parts as those of *)
(* Session: definition by definition, they say the same.                   *)
(***************************************************************************)

\* The instance of Configuration_proofs is about the configuring part.
LEMMA SameConfiguring ==
    /\ CP!ConstantsOK = Configuring!ConstantsOK
    /\ CP!Init = Configuring!Init
    /\ [CP!Next]_(CP!vars) = [Configuring!Next]_(Configuring!vars)
    /\ CP!TypeOK = Configuring!TypeOK
    /\ \A i : CP!ConfigurationReaches(i) = Configuring!ConfigurationReaches(i)
    /\ \A i : CP!LoggedIn(i) = Configuring!LoggedIn(i)
    /\ \A i : CP!LocationArrives(i) = Configuring!LocationArrives(i)
BY DEF CP!vars, Configuring!vars, CP!Configs, Configuring!Configs, CP!HeadersObjects,
       Configuring!HeadersObjects, CP!Arrays, Configuring!Arrays, CP!Credentials,
       Configuring!Credentials, CP!None, Configuring!None, CP!Cleared, Configuring!Cleared,
       CP!TransactionUrl, Configuring!TransactionUrl, CP!DefaultTimeout,
       Configuring!DefaultTimeout, CP!Waits, Configuring!Waits, CP!NoHeaders,
       Configuring!NoHeaders, CP!HeaderMaps, Configuring!HeaderMaps, CP!ConstantsOK,
       Configuring!ConstantsOK, CP!OwnHeaders, Configuring!OwnHeaders, CP!Users,
       Configuring!Users, CP!NoRequest, Configuring!NoRequest, CP!IsClient,
       Configuring!IsClient, CP!TypeOK, Configuring!TypeOK, CP!Init, Configuring!Init,
       CP!Setting, Configuring!Setting, CP!SetHeaders, Configuring!SetHeaders, CP!SetLocation,
       Configuring!SetLocation, CP!SetEndpoints, Configuring!SetEndpoints, CP!AddEndpoint,
       Configuring!AddEndpoint, CP!SetField, Configuring!SetField, CP!SetEndpoint,
       Configuring!SetEndpoint, CP!SetReadTimeout, Configuring!SetReadTimeout,
       CP!SetWriteTimeout, Configuring!SetWriteTimeout, CP!SetTimeout, Configuring!SetTimeout,
       CP!SetKeepAlive, Configuring!SetKeepAlive, CP!SwitchAuthentication,
       Configuring!SwitchAuthentication, CP!Setter, Configuring!Setter, CP!NewClient,
       Configuring!NewClient, CP!Made, Configuring!Made, CP!CreateRepositoryClient,
       Configuring!CreateRepositoryClient, CP!CreateServerClient,
       Configuring!CreateServerClient, CP!TransactionOf, Configuring!TransactionOf,
       CP!CredentialsOf, Configuring!CredentialsOf, CP!KeepAlive, Configuring!KeepAlive,
       CP!Login, Configuring!Login, CP!Idle, Configuring!Idle, CP!Update, Configuring!Update,
       CP!Call, Configuring!Call, CP!TokenFrom, Configuring!TokenFrom, CP!LoginSucceeds,
       Configuring!LoginSucceeds, CP!EndpointsOf, Configuring!EndpointsOf, CP!TimeoutOf,
       Configuring!TimeoutOf, CP!Over, Configuring!Over, CP!HeadersOf, Configuring!HeadersOf,
       CP!HeaderOf, Configuring!HeaderOf, CP!Send, Configuring!Send, CP!Settle,
       Configuring!Settle, CP!BeginAnswered, Configuring!BeginAnswered, CP!Refused,
       Configuring!Refused, CP!Next, Configuring!Next, CP!Sends, Configuring!Sends,
       CP!SameHeaders, Configuring!SameHeaders, CP!ConfigurationReaches,
       Configuring!ConfigurationReaches, CP!LoggedIn, Configuring!LoggedIn, CP!LocationArrives,
       Configuring!LocationArrives

\* The instance of Administration_proofs is about the administering part.
LEMMA SameAdministering ==
    /\ AP!ConstantsOK = Administering!ConstantsOK
    /\ AP!Init = Administering!Init
    /\ [AP!Next]_(AP!vars) = [Administering!Next]_(Administering!vars)
    /\ AP!TypeOK = Administering!TypeOK
    /\ AP!AnsweredTruthfully = Administering!AnsweredTruthfully
    /\ \A i : AP!CarriedOut(i) = Administering!CarriedOut(i)
BY DEF AP!vars, Administering!vars, AP!Unset, Administering!Unset, AP!Held, Administering!Held,
       AP!Places, Administering!Places, AP!NoAccount, Administering!NoAccount, AP!Located,
       Administering!Located, AP!OnRepository, Administering!OnRepository, AP!OnUser,
       Administering!OnUser, AP!Switches, Administering!Switches, AP!Writes,
       Administering!Writes, AP!OfServerClient, Administering!OfServerClient, AP!Operations,
       Administering!Operations, AP!Calls, Administering!Calls, AP!Method,
       Administering!Method, AP!Path, Administering!Path, AP!ObjectsOf,
       Administering!ObjectsOf, AP!LocationParameter, Administering!LocationParameter,
       AP!SettingsSent, Administering!SettingsSent, AP!RequestOf, Administering!RequestOf,
       AP!ResultOf, Administering!ResultOf, AP!IdsAt, Administering!IdsAt, AP!Effect,
       Administering!Effect, AP!Response, Administering!Response, AP!AskedEffect,
       Administering!AskedEffect, AP!Truth, Administering!Truth, AP!ConstantsOK,
       Administering!ConstantsOK, AP!TypeOK, Administering!TypeOK, AP!Init, Administering!Init,
       AP!Order, Administering!Order, AP!Pending, Administering!Pending, AP!Update,
       Administering!Update, AP!Send, Administering!Send, AP!Serve, Administering!Serve,
       AP!Refuse, Administering!Refuse, AP!Receive, Administering!Receive, AP!GiveUp,
       Administering!GiveUp, AP!Edit, Administering!Edit, AP!Next, Administering!Next,
       AP!CarriedOut, Administering!CarriedOut, AP!AnsweredTruthfully,
       Administering!AnsweredTruthfully

\* The instance of Namespaces_proofs is about the naming part.
LEMMA SameNaming ==
    /\ NP!ConstantsOK = Naming!ConstantsOK
    /\ NP!Init = Naming!Init
    /\ [NP!Next]_(NP!vars) = [Naming!Next]_(Naming!vars)
    /\ NP!TypeOK = Naming!TypeOK
BY DEF NP!vars, Naming!vars, NP!ConstantsOK, Naming!ConstantsOK, NP!Undeclared,
       Naming!Undeclared, NP!Operations, Naming!Operations, NP!TypeOK, Naming!TypeOK, NP!Init,
       Naming!Init, NP!PrefixGiven, Naming!PrefixGiven, NP!NamespaceGiven,
       Naming!NamespaceGiven, NP!PathOf, Naming!PathOf, NP!GetNamespaces, Naming!GetNamespaces,
       NP!GetNamespace, Naming!GetNamespace, NP!SaveNamespace, Naming!SaveNamespace,
       NP!DeleteNamespace, Naming!DeleteNamespace, NP!DeleteNamespaces,
       Naming!DeleteNamespaces, NP!Collection, Naming!Collection, NP!Effect, Naming!Effect,
       NP!Response, Naming!Response, NP!Lookup, Naming!Lookup, NP!Serve, Naming!Serve,
       NP!Receive, Naming!Receive, NP!GiveUp, Naming!GiveUp, NP!Next, Naming!Next

\* The assumptions that the instantiated theorems make are those of Session.
LEMMA Assumptions == CP!ConstantsOK /\ AP!ConstantsOK /\ NP!ConstantsOK
BY ConfiguringAssumption, AdministeringAssumption, NamingAssumption,
   SameConfiguring, SameAdministering, SameNaming

(***************************************************************************)
(* The parts together                                                      *)
(***************************************************************************)

\* Every part keeps its invariant, the one that runs and those that stay as they began.
SessionInv ==
    /\ part \in Parts
    /\ ReadingInv
    /\ WritingInv
    /\ AskingInv
    /\ MatchingInv
    /\ CP!IInv
    /\ AP!IInv
    /\ NP!IInv

\* A step of Session is a step of one part, and leaves the variables of all others alone.
LEMMA StepOfParts ==
    ASSUME [Next]_vars
    PROVE  /\ part' = part
           /\ [Reading!Next]_(Reading!vars)
           /\ [Writing!Next]_(Writing!vars)
           /\ [Asking!Next]_(Asking!vars)
           /\ [Matching!Next]_(Matching!vars)
           /\ [Configuring!Next]_(Configuring!vars)
           /\ [Administering!Next]_(Administering!vars)
           /\ [Naming!Next]_(Naming!vars)
<1> DEFINE Keep ==
      /\ part' = part
      /\ UNCHANGED readVars \/ Reading!Next
      /\ UNCHANGED writeVars \/ Writing!Next
      /\ UNCHANGED askVars \/ Asking!Next
      /\ UNCHANGED termVars \/ Matching!Next
      /\ UNCHANGED configVars \/ Configuring!Next
      /\ UNCHANGED adminVars \/ Administering!Next
      /\ UNCHANGED nameVars \/ Naming!Next
<1> SUFFICES Keep
  BY DEF Keep, readVars, writeVars, askVars, termVars, configVars, adminVars, nameVars,
     Reading!vars, Writing!vars, Asking!vars, Matching!vars, Configuring!vars,
     Administering!vars, Naming!vars
<1>1. CASE UNCHANGED vars
  BY <1>1 DEF vars
<1>2. CASE Next
  BY <1>2 DEF Next, Read, Write, Ask, Match, Configure, Administer, Name
<1> QED BY <1>1, <1>2

\* Every part begins within its invariant.
LEMMA SessionInit == Init => SessionInv
<1> SUFFICES ASSUME Init PROVE SessionInv
  OBVIOUS
<1>1. /\ part \in Parts /\ Reading!Init /\ Writing!Init /\ Asking!Init /\ Matching!Init
      /\ Configuring!Init /\ Administering!Init /\ Naming!Init
  BY DEF Init
<1>2. CP!IInv
  BY <1>1, Assumptions, SameConfiguring, CP!InitIInv
<1>3. AP!IInv
  BY <1>1, Assumptions, SameAdministering, AP!InitIInv
<1>4. NP!IInv
  BY <1>1, Assumptions, SameNaming, NP!InitHolds
<1> QED BY <1>1, <1>2, <1>3, <1>4, ReadingInit, WritingInit, AskingInit, MatchingInit
        DEF SessionInv

\* The part that runs keeps its invariant, and the others stay as they are.
LEMMA SessionNext == SessionInv /\ [Next]_vars => SessionInv'
<1> SUFFICES ASSUME SessionInv, [Next]_vars PROVE SessionInv'
  OBVIOUS
<1>1. part' \in Parts
  BY StepOfParts DEF SessionInv
<1>2. ReadingInv'
  BY StepOfParts, ReadingNext DEF SessionInv
<1>3. WritingInv'
  BY StepOfParts, WritingNext DEF SessionInv
<1>4. AskingInv'
  BY StepOfParts, AskingNext DEF SessionInv
<1>5. MatchingInv'
  BY StepOfParts, MatchingNext DEF SessionInv
<1>6. CP!IInv'
  <2>1. [CP!Next]_(CP!vars)
    BY StepOfParts, SameConfiguring
  <2> QED BY <2>1, Assumptions, CP!NextPreserves DEF SessionInv
<1>7. AP!IInv'
  <2>1. [AP!Next]_(AP!vars)
    BY StepOfParts, SameAdministering
  <2> QED BY <2>1, Assumptions, AP!NextPreserves DEF SessionInv
<1>8. NP!IInv'
  <2>1. [NP!Next]_(NP!vars)
    BY StepOfParts, SameNaming
  <2> QED BY <2>1, Assumptions, NP!NextPreserves DEF SessionInv
<1> QED BY <1>1, <1>2, <1>3, <1>4, <1>5, <1>6, <1>7, <1>8 DEF SessionInv

\* The invariants include the types of all variables.
LEMMA SessionTyped == SessionInv => TypeOK
<1> SUFFICES ASSUME SessionInv PROVE TypeOK
  OBVIOUS
<1>1. Reading!TypeOK /\ Writing!TypeOK /\ Asking!TypeOK /\ Matching!TypeOK
  BY ReadingTyped, WritingTyped, AskingTyped, MatchingTyped DEF SessionInv
<1>2. Configuring!TypeOK
  BY SameConfiguring, CP!IInvTyped DEF SessionInv
<1>3. Administering!TypeOK
  BY SameAdministering, AP!IInvTyped DEF SessionInv
<1>4. Naming!TypeOK
  BY SameNaming, NP!IInvTyped DEF SessionInv
<1> QED BY <1>1, <1>2, <1>3, <1>4, PartsAssumption DEF TypeOK, SessionInv

(***************************************************************************)
(* Theorems                                                                *)
(***************************************************************************)

\* The inductive invariant of the whole, for any numbers of calls, payload objects,
\* configurations, clients and prefixes.
THEOREM Invariant == Spec => []SessionInv
BY SessionInit, SessionNext, PTL DEF Spec

\* Every variable of the part that runs stays in its type.
THEOREM TypeCorrect == Spec => []TypeOK
BY Invariant, SessionTyped, PTL

\* A call resolves with the parser and the data it asked for, however many others overlap
\* with it and share its payload (statements-service.js:54-67, query-service.js:120-131).
THEOREM ResultCorrect == Spec => []ResultAsRequested
<1>1. SessionInv => ResultAsRequested
  BY DEF SessionInv, ReadingInv, ResultAsRequested
<1> QED BY <1>1, Invariant, PTL

\* However often a request is sent, it is understood as the operation that the application
\* asked for, with the text and the parameters that the payload had at that time, whatever
\* the payload was used for before or is used for meanwhile.  Left out are uploads outside of
\* transactions, forms with an array, and parameters whose array the application has changed
\* since the call, because setPostRequestPayload copies the parameters shallowly
\* (query-service.js:80-104).
THEOREM UnderstoodCorrect == Spec => []UnderstoodAsMeant
<1>1. SessionInv => UnderstoodAsMeant
  BY AskingTyped DEF SessionInv, UnderstoodAsMeant
<1> QED BY <1>1, Invariant, PTL

\* The result of a call that reads was right at some moment while the call was pending
\* (server-client.js:58-73).
THEOREM AnsweredCorrect == Spec => []AnsweredTruthfully
<1>1. SessionInv => AnsweredTruthfully
  BY SameAdministering, AP!IInvTyped DEF SessionInv, AnsweredTruthfully
<1> QED BY <1>1, Invariant, PTL

\* An add stores what was described when it was called, in the contexts set by then
\* (statements-service.js:93-117).
THEOREM AddedCorrect == Spec => AddedAsDescribed
<1> DEFINE Added == \A r \in wire :
         Writing!Handled(r) /\ r.described.objects # {} /\ ~r.described.leftover
           => store' = store \cup Writing!Promised(r)
<1>1. ASSUME SessionInv, [Next]_vars PROVE Added
  BY <1>1, StepOfParts, AddedStep DEF SessionInv, Describes
<1>2. SessionInv /\ [Next]_vars => [Added]_(Writing!vars)
  BY <1>1
<1> QED BY <1>2, Invariant, PTL DEF Spec, AddedAsDescribed, Writing!AddedAsDescribed

\* Writing, overwriting and deleting in given contexts leaves every other graph alone
\* (statements-service.js:158).
THEOREM RestrictedCorrect == Spec => RestrictedToContext
<1> DEFINE Restricted == \A r \in wire :
         Writing!Handled(r) /\ r.restriction # {}
           => \A g \in (Graphs \cup {Writing!DefaultGraph}) \ r.restriction :
                {q \in store' : q.graph = g} = {q \in store : q.graph = g}
<1>1. ASSUME SessionInv, [Next]_vars PROVE Restricted
  BY <1>1, StepOfParts, RestrictedStep DEF SessionInv
<1>2. SessionInv /\ [Next]_vars => [Restricted]_(Writing!vars)
  BY <1>1
<1> QED BY <1>2, Invariant, PTL DEF Spec, RestrictedToContext, Writing!RestrictedToContext

\* add and addQuads leave everything that is stored where it is
\* (statements-service.js:202-225).
THEOREM OnlyAddsCorrect == Spec => AddOnlyAdds
<1>1. SessionInv /\ [Next]_vars => [Writing!OnlyAdds({"add", "addQuads"})]_(Writing!vars)
  BY StepOfParts, OnlyAddsStep DEF SessionInv
<1> QED BY <1>1, Invariant, PTL DEF Spec, AddOnlyAdds, Writing!AddOnlyAdds

\* Reading, counting and deleting is about exactly the statements that the texts stand for,
\* unless one of them names a blank node, and what is added under plain texts is there under
\* the same ones (term-converter.js:132-166).
THEOREM MatchesCorrect == Spec => MatchesAsDenoted
<1> DEFINE Matches == Matched /\ (last'.op = "add" /\ PlainTexts(last') => AddedUnder(last'))
<1>1. SessionInv /\ [Next]_vars => [Matches]_(Matching!vars)
  BY StepOfParts, MatchingStep DEF SessionInv
<1>2. SessionInv /\ [Next]_vars =>
        [/\ last'.op \in {"get", "getSize"} /\ Matching!WithoutBlanks(last')
               => last'.found = Matching!Denoted(last')
         /\ last'.op = "deleteStatements" /\ Matching!WithoutBlanks(last')
               => statements' = statements \ Matching!Denoted(last')
         /\ last'.op = "add"
            /\ (\A t \in {last'.subject, last'.predicate} \cup last'.contexts : t.form = "iri")
            /\ last'.object.form \in {"iri", "literal"}
               => \A c \in last'.contexts
                             \cup (IF last'.contexts = {} THEN {Matching!Default} ELSE {}) :
                  \E s \in statements' :
                      /\ Matching!Denotes(last'.subject, s.subject)
                      /\ Matching!Denotes(last'.predicate, s.predicate)
                      /\ Matching!Denotes(last'.object, s.object)
                      /\ Matching!Denotes(c, s.graph)]_(Matching!vars)
  BY <1>1 DEF Matched, PlainTexts, AddedUnder
<1> QED BY <1>2, Invariant, PTL DEF Spec, MatchesAsDenoted, Matching!MatchesAsDenoted

\* A request goes where its client's endpoints pointed.  It carries the headers of its
\* configuration if its client is a repository client or a transactional one, and those of
\* the request alone if it is a server client
\* (base-repository-client.js:80-89, http-client.js:62-65, server.js:46-53).
THEOREM ConfigurationReachesCorrect == Spec => ConfigurationReachesRequests
<1> DEFINE Reaches == \A i \in 1..MaxClients : Configuring!ConfigurationReaches(i)
<1>1. ASSUME SessionInv, [Next]_vars PROVE Reaches
  <2>1. [CP!Next]_(CP!vars)
    BY <1>1, StepOfParts, SameConfiguring
  <2>2. \A i : CP!ConfigurationReaches(i)
    BY <1>1, <2>1, Assumptions, CP!ConfigurationReachesStep DEF SessionInv
  <2> QED BY <2>2, SameConfiguring
<1>2. SessionInv /\ [Next]_vars => [Reaches]_(Configuring!vars)
  BY <1>1
<1> QED BY <1>2, Invariant, PTL
        DEF Spec, ConfigurationReachesRequests, Configuring!ConfigurationReachesRequests

\* What README.md:412-419 says of locations holds for every client whose headers object has not
\* been written through another configuration; Session_Location shows that it fails otherwise.
THEOREM LocationCorrect ==
    Spec => [][\A i \in 1..MaxClients :
                  writers[clients[i].headers] \subseteq {clients[i].config}
                     => Configuring!LocationArrives(i)]_configVars
<1> DEFINE Arrives == \A i \in 1..MaxClients :
                  writers[clients[i].headers] \subseteq {clients[i].config}
                     => Configuring!LocationArrives(i)
<1>1. ASSUME SessionInv, [Next]_vars PROVE Arrives
  <2>1. [CP!Next]_(CP!vars)
    BY <1>1, StepOfParts, SameConfiguring
  <2>2. \A i : writers[clients[i].headers] \subseteq {clients[i].config}
                  => CP!LocationArrives(i)
    BY <1>1, <2>1, Assumptions, CP!LocationStep DEF SessionInv
  <2> QED BY <2>2, SameConfiguring
<1>2. SessionInv /\ [Next]_vars => [Arrives]_configVars
  BY <1>1
<1> QED BY <1>2, Invariant, PTL DEF Spec

\* A request carries no token but one of credentials that its client was configured with
\* (authentication-service.js:34-45).
THEOREM LoggedInCorrect == Spec => LoggedInAsConfigured
<1> DEFINE LoggedInAll == \A i \in 1..MaxClients : Configuring!LoggedIn(i)
<1>1. ASSUME SessionInv, [Next]_vars PROVE LoggedInAll
  <2>1. [CP!Next]_(CP!vars)
    BY <1>1, StepOfParts, SameConfiguring
  <2>2. \A i : CP!LoggedIn(i)
    BY <1>1, <2>1, Assumptions, CP!LoggedInStep DEF SessionInv
  <2> QED BY <2>2, SameConfiguring
<1>2. SessionInv /\ [Next]_vars => [LoggedInAll]_(Configuring!vars)
  BY <1>1
<1> QED BY <1>2, Invariant, PTL
        DEF Spec, LoggedInAsConfigured, Configuring!LoggedInAsConfigured

\* When a server handles a request it becomes what the operation was for when it was called
\* (graphdb-server-client.js:107-392).
THEOREM CarriedOutCorrect == Spec => CarriedOutAsAsked
<1> DEFINE CarriedOutAll == \A i \in 1..MaxOrders : Administering!CarriedOut(i)
<1>1. ASSUME SessionInv, [Next]_vars PROVE CarriedOutAll
  <2>1. [AP!Next]_(AP!vars)
    BY <1>1, StepOfParts, SameAdministering
  <2>2. \A i : AP!CarriedOut(i)
    BY <1>1, <2>1, Assumptions, AP!CarriedOutStep DEF SessionInv
  <2> QED BY <2>2, SameAdministering
<1>2. SessionInv /\ [Next]_vars => [CarriedOutAll]_(Administering!vars)
  BY <1>1
<1> QED BY <1>2, Invariant, PTL
        DEF Spec, CarriedOutAsAsked, Administering!CarriedOutAsAsked

\* The namespaces of a repository change as one of the calls asked
\* (namespace-service.js:146-150).
THEOREM NamedCorrect == Spec => NamespaceAsAsked
<1> DEFINE Named == declared' # declared =>
         \E i \in DOMAIN lookups :
            /\ lookups[i].request # <<>> /\ lookups'[i].request = <<>>
            /\ \/ lookups[i].op = "deleteNamespaces"
               \/ /\ lookups[i].op = "saveNamespace"
                  /\ declared' = [declared EXCEPT ![lookups[i].prefix] = lookups[i].data]
               \/ /\ lookups[i].op = "deleteNamespace"
                  /\ declared' = [declared EXCEPT ![lookups[i].prefix] = Naming!Undeclared]
<1>1. ASSUME SessionInv, [Next]_vars PROVE Named
  <2>1. [NP!Next]_(NP!vars)
    BY <1>1, StepOfParts, SameNaming
  <2>2. NP!Undeclared = Naming!Undeclared
    BY DEF NP!Undeclared, Naming!Undeclared
  <2> QED BY <1>1, <2>1, <2>2, Assumptions, NP!AskedStep DEF SessionInv
<1>2. SessionInv /\ [Next]_vars => [Named]_(Naming!vars)
  BY <1>1
<1> QED BY <1>2, Invariant, PTL DEF Spec, NamespaceAsAsked, Naming!NamespaceAsAsked
=============================================================================
