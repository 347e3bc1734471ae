# A TLA+ model of graphdb.js

graphdb.js is a JavaScript client for GraphDB/RDF4J servers.  This directory
holds TLA+ models of the parts of it in which calls interleave, requests are
repeated, answers get lost and tokens expire; TLC configurations that check them
on small instances; and TLAPS proofs of every safety property that they check.  Source paths below are
relative to the repository's root.

## Inventory

The library runs on one JavaScript thread.  Concurrency comes from promises: an
application makes several API calls before the first has settled, and their
callbacks interleave.  Components:

| Component | State it keeps | Operations | Hard behaviour |
|---|---|---|---|
| Repository client execution (`src/repository/base-repository-client.js`, `src/util/iterable.js`) | `user`, shared by all calls; per call an iterator over the endpoints and a request builder | `execute`, `retryExecution`, `decorateRequestConfig` | failover after lost answers, login before and in the middle of a failover, 401s of one call that clear the user of another |
| Authentication (`src/service/authentication-service.js`, `src/auth/user.js`, `src/security/*`) | the token of each `User` | `login`, `logout`, `clearToken` | tokens that expire on the server; a basic token that is the same after every login |
| Server clients (`src/server/*`) | `user` | `execute`, `logout`, the REST operations on repositories, users, security and free access | a repeated execution after a 401, with a catch handler that also sees login errors; check and creation in `getRepository`; objects of the application that are serialized after the login |
| Transactions (`src/service/transaction-service.js`, `src/transaction/*`) | `active` | `beginTransaction`, writes, `commit`, `rollback` | operations that overlap with the end; begin requests that reach several endpoints |
| HTTP client, request builder (`src/http/*`, `src/service/service-request.js`) | default timeouts; method, headers, parameters, body of a request | setters, `request` | a builder is reused by every attempt of a call |
| Client configuration (`src/http/client-config.js`, `src/repository/repository-client-config.js`, `src/server/server-client-config.js`) | endpoints, headers, timeouts, location, authentication, `keepAlive` | setters | objects shared between configurations and the clients made from them; settings that are read once and settings that are read every time |
| `RDFRepositoryClient` and services (`src/repository/rdf-repository-client.js`, `src/service/*`) | none of their own | statements, queries, namespaces, upload, download | a stream as request body; a parser looked up when the response arrives |
| Parsers (`src/parser/*`) | the registered parsers | `register`, `get`, `parse` | replacement of a parser between request and response |
| Statement payloads, terms (`src/repository/*-payload.js`, `src/model/term-converter.js`) | the fields of a payload | setters, conversions | leftovers of earlier setters; one conversion for adding and another for filters, with blank texts as wildcards |
| Query payloads (`src/query/*`) | query type, response type, parameters | setters, validation | the order of setters |
| Logging, utilities | - | - | none |

What makes the components correct:

- *Execution*: endpoints are tried in order, none skipped and none ahead of its
  turn; an endpoint is never given a call again after it had an effect; a call
  resolves only with the answer to a request that was carried out and fails only
  when everything was tried; a request is never repeated with a refused token;
  every call settles.
- *Server clients*: the same, with one endpoint.
- *Transactions*: a commit that succeeds keeps every write reported as
  successful; no two ends succeed; a failure status means no effect; after the end
  the client accepts nothing.
- *REST operations*: each changes the server as it was called to, with the objects as they
  were then; the result of a read was right at some moment while the call was pending.
- *Configuration*: a client goes to the endpoints it was made with and sends the
  headers set last; a token is one of the credentials the configuration has had.
- *Terms*: reading and deleting are about exactly the statements that the texts name.
- *Namespaces*: the operations on one prefix leave all others alone.
- *Parsers, payloads*: the result depends only on the last value set, and on the registry
  at the time the documentation says.

## Modules

```
Failover  <-- refinement --  RepositoryClient  <-- RepositoryClient_proofs
   ^                               ^
   |                               +-- MCRepositoryClient  (RC_*.cfg)
   +-------- refinement --  Server <-- MCServer, Server_proofs  (Server_*.cfg)
                            Transaction <-- MCTransaction, Transaction_proofs  (Tx_*.cfg)

Responses      --+
Statements     --|
Requests       --|
Terms          --+-- INSTANCE --> Session <-- MCSession    (Session_*.cfg)
Configuration  --|                   ^
Administration --|                   +-- Services_proofs <-- Session_proofs
Namespaces     --+                                                |
   ^                                                              |
   +-- Configuration_proofs, Administration_proofs,               |
       Namespaces_proofs   <-------------------------- INSTANCE --+
```

The first group is about execution: whether a request is sent, where, with which token,
and how often.  The second is about data: what the requests and results of a client
are, how settings reach them, and what becomes of them on a server.  There a
request may be given up, lost or repeated, but why and how often is the first group's
subject.

**`Failover`** is what an API call promises, with no login, no wire and no token:
a call starts at the first endpoint, may advance to the next, may take effect at most
once at each endpoint it has reached, resolves only if the current endpoint carried it
out, and may be rejected.

**`RepositoryClient`** is one repository client with any set of calls.  An action is
one synchronous piece of the code:

| Action | Code |
|---|---|
| `Execute` | `execute` and the synchronous start of `retryExecution`: first endpoint, `login(config, this.user)` |
| `LoginSucceeds`, `LoginFails` | the answer to the login request; a failed login rejects the call, because the catch handler belongs to the request inside the callback of `login` |
| `Send` | the `.then` callback of `login`: `setLoggedUser`, `decorateRequestConfig`, `httpClient.request` |
| `Receive`, `Timeout`, `ConnectionFails` | the `.then` and `.catch` handlers of the request; `HandleError` is the catch handler, with `RetrySameEndpoint` and `ClearTokenThrows` (401 and `keepAlive`), `RetryNextEndpoint` and `GiveUp` |
| `Serve`, `Expire` (external) | an endpoint handles a request; the server revokes a token |

`user` is `this.user`; User objects are named by the number of the login that made
them, and `cleared` is the set of those on which `clearToken` was called.  `captured`
is the value a pending login promise resolves to: it is read before the promise is
awaited and written to `this.user` after it, which is where the calls interfere.  A
request stays in `wire` after the call has given it up, so that endpoints carry out
requests nobody waits for.  `outcome`, `refused` and `applied` are history variables
for the properties.

**`Server`** is the executor of `ServerClient` and `GraphDBServerClient`
(`src/server/server.js`), with the same conventions and one endpoint.  It has a
`Logout`, and its `HandleError` also handles login errors and does not clear a token.  The
variable `setting` holds the configuration (authentication, `keepAlive`, whether the
password is right, how many tokens may be revoked); it is chosen at the start and never
changes, so that one run covers several configurations.

**`Transaction`** is `beginTransaction` over `N` endpoints (`Begin...`) and the
transactional client it returns.  A begin request whose login fails rejects; one that is
answered with 401 is sent again if the *parent's* `keepAlive` says so.  An operation is
called (`Call`, which reads `active`), logs in, is sent (`Send`, which does not), and
settles (`Settle`, where a commit or rollback clears `active`).  Login is reduced to
"succeeds or fails" here.  On the server an endpoint's transaction is open, committed or
rolled back, and any operation in a transaction that is not open fails.  A transaction may
stay open with nobody left to end it: after a begin request that was given up, and after
an end that was rejected, since that clears `active` as well (`StrandedOnlyAfterFailure`).

**`Responses`** is `get` and `query`.  A call (`Get`, `Query`) fixes the `Accept` header
and whether the response is to be a stream; the callback (`Receive`) reads the payload
object and the parser registry again.  In between, the application changes payloads
(`SetResponseType`, `SetQueryType`, `SetQuery`) and registers parsers
(`RegisterParser`).  `asked` is history: what a call was asked for, and whether its payload
or parser was `disturbed` while it was pending.

**`Statements`** is the writing side: the setters of one `AddStatementPayload`, the quads and
the context parameter made of it (`Add`) or given to `AddQuads`, `PutQuads`, `Upload`
and `DeleteStatements`, and a repository that handles the requests in any order
(`Serve`).  A value is reduced to its JavaScript type, whether it is integral, and
whether it is truthy: all that `detectLiteralType` and `hasNullArguments` look at.
`described` is history: the literal of the last `setObjectLiteral`, and whether an earlier
language was left over in the payload.

**`Requests`** is what the services ask the server for: method, path, parameters and body, in
the repository and, rewritten by `decorateServiceRequest` (`Decorated`), in a
transaction.  `QueryRequest` is `setPostRequestPayload` with its two encodings.  Its copy of
the parameters is shallow: a request has the strings of the payload, but refers to its
arrays, `arrays` being what is in them.  A form is serialized in the call, a URL by `Send`,
which happens after the login and as often as the request is repeated; in between the
application edits its arrays (`EditArray`).  `Understood` is the server's reading of what
it has `received` (SPARQL protocol and RDF4J's endpoints), defined independently of how the
request was built.

**`Terms`** is `TermConverter` and the calls that use it.  A text is the form it has (IRI,
already encoded, blank node, variable, literal, empty) and the name in it.  Adding turns
texts into terms (`ToTerm`, `ToObject`, `ToQuads`), filtering into N-Triples values
(`ToNTripleValue`, `ToNTripleValues`); the repository is a set of statements written in
the same way, of which `Add`, `Get` (also `download`), `GetSize`, `DeleteStatements` and
`DeleteAllStatements` add, return or remove some.  `Denotes` is the reference
definition: what a text stands for, a blank node being itself.

**`Configuration`** has `RepositoryClientConfig` and `ServerClientConfig` objects with all their
setters, and the clients made from them.  Headers objects and endpoint arrays are
references: `config[c].headers` names an object of `headers`, `setHeaders` puts another
there, `setLocation` changes it in place.  A client takes its endpoints and
timeouts when it is made (`CreateRepositoryClient`, `CreateServerClient`,
and `BeginAnswered` for a transactional one), shares the headers object, and reads
authentication and `keepAlive` at every call (`Call`, `LoginSucceeds`, `Send`, `Refused`).  A
server client takes no headers from its configuration at all.  Setters may come at
any time, also while a login or a request is pending.  `meant` is history: what a
configuration would hold if setters copied their arguments; `writers` and `shared` tell
where the application itself shared an object and changed it.

**`Administration`** is every operation of `ServerClient` and `GraphDBServerClient`.  `Order` is
the call, `Send` the serialization of its request after the login, `Refuse` a 401 that
repeats it; `Serve` is the server, whose state is its repositories by location, its
accounts, security and free access.  `RequestOf` translates what each operation sends, `ResultOf`
what it makes of the answer; `AskedEffect` and `Truth` say independently what
it is for.  `Edit` changes an object of the application that a pending call refers to:
the params of a `RepositoryConfig`, an array of authorities, an `AppSettings`.

**`Namespaces`** is `NamespaceService`: requests whose path ends with a prefix, handled in any order by
a repository in which a path without a prefix is that of all namespaces.

**`Session`** puts these seven together.  They share no variable, so every reachable state of
the whole is a combination of reachable states of the parts, and nothing would be gained by
interleaving them: a behaviour follows the one that `part` names.

Operators whose comment starts with "Slip:" are not part of the model: each is the next
definition with a plausible programming mistake in it.  Substituted for the original
they make a property fail, which shows that the property depends on that piece of code.

### Abstractions

- Two callbacks that are both ready run in either order.  The microtask queue is more
  regular; the model has more behaviours.
- All endpoints accept the same tokens.  A token is refused only if it is not valid.
- Only a success has an effect.  An endpoint that answers 401, 503 or another error
  has not carried the request out.
- Timeouts may fire at any time while a request is out.  A timeout may leave the request
  on the wire or not.
- An application that calls `clearToken` on `getLoggedUser()` itself is not modelled.  Changes to
  the configuration of a live client are modelled in `Configuration`, where one call is under way
  at a time; in `RepositoryClient`, `Server` and `Transaction` the settings do not change.
- Configurations with an authentication type carry a user name and a password.
- Names, queries and response bodies are values without structure.
- In `Statements`, subject and predicate are set and the same everywhere, contexts are not
  blank, and deletion is by context only.  In `Requests`, `baseURI` and the statement
  patterns of `get` and `download` are left out; they are the subject of `Terms`.  Setters
  that throw change nothing and are left out.
- In `Terms`, contexts for adding are not blank, and predicates are not blank nodes, for which
  there is nothing valid to become.  A request with data that cannot be parsed fails.
- In `Configuration`, a setter that sets what is set already is left out, and a repository
  client has one attempt: the endpoints of a request are the list that failover would go
  through.  Nothing in the library reads `defaultRDFMimeType`.
- In `Administration`, passwords are left out, since they travel like the name of a user; ids and
  names are not blank; an object is edited only while a pending call refers to it, as
  otherwise nothing can tell.

## Runs

| Run | Instance | Question |
|---|---|---|
| `RC_Gdb` | 2 calls, 2 endpoints, GDB tokens, 1 revocation, fair | all safety properties of the client; refinement of `Failover`; does every call settle? |
| `RC_Upload` (violated) | 1 upload, 2 endpoints | is a resolved upload complete? |
| `Server_Sound` | 2 calls, 2 logouts, fair; `keepAlive` with the right password and no expiry, or no `keepAlive` with anything | safety, refinement of `Failover`, does every call settle? |
| `Server_Expiry` (violated) | 2 calls, 1 revocation | is the token refreshed after a 401? |
| `Server_WrongPassword` (violated) | 1 call, wrong credentials, fair | does every call settle? |
| `Tx_Sound` | 2 endpoints, 2 writes, commit, rollback, 1 refusal, fair | all safety properties of a transaction; ends deactivate the client |
| `Tx_KeepAlive` (violated) | 1 write, 1 commit, no `keepAlive`, fair | is `keepAlive` respected? |
| `Session_Sound` | reading: 1 get, 1 query, 3 parsers; writing: 3 setters, 2 requests, 4 values; asking: 2 payloads, 1 array, 3 changes, 2 requests; matching: 2 calls on 4 statements, texts of every form; configuring: 2 repository and 1 server configuration, 2 setters, 2 clients, 2 requests; administering: 2 calls, 1 edit, 1 location; naming: 2 calls, 2 prefixes | are requests snapshots, do they mean what was called, do results, stored statements, namespaces and the server's state become what was asked for, do settings reach the requests? |
| `Session_Location` (violated) | the configuring part: 2 repository configurations, 1 client, 5 setters, 2 locations | is a location sent by the clients it was set for? |
| `Session_Blank` (violated) | the matching part | are statements about a blank node deleted? |
| `Session_Headers` (violated) | the configuring part | do the headers of a server client arrive? |
| `Session_Graphs` (violated) | the asking part | do all graphs of an update arrive? |

*Bounds.*  Two calls are the least in which one call's 401 clears the user of another
or its late callback overwrites it.  Two endpoints have a first and a last one and one retry.  One
revocation lets a token expire under both calls; without a bound no call need ever settle,
since each fresh token could be revoked before its request arrives.  In a transaction, two writes allow one to be confirmed and the
other not when the commit is called; one commit and one rollback are the ends that can
overlap, and two endpoints leave one for an orphaned transaction.  In a session, one get
and one query suffice because a call changes neither payloads nor the registry; three
setters can leave something of a literal behind, overwrite it and change it again while
a request is pending; where a payload has no leftovers, as in asking, two setters before a
call (the query and an array for a parameter) and one change while it is pending are enough;
two requests are the least that overlap, or of which the first can spoil the second.  Two
configurations are the least that can share an object.  Two setters can change an array before and after a client is made from it, or switch
credentials once before and once during a login; two clients are a repository
client and its transaction, or two that share headers; the location takes five setters, since both
configurations are given the headers object and one endpoint before each of them is
given a location.  Two overlapping calls of a server client can be a deletion within a
`getRepository`; two conversions are an addition and the deletion or reading of
what was added.  The runs of `RepositoryClient` have credentials, so that a 401 finds a user to
clear; a client without them, whose `this.user.clearToken()` throws (`ClearTokenThrows`), and
more than two endpoints are left to the proofs, which are about every kind of
authentication and any number of endpoints.  The proofs have none of these bounds: what they
establish holds for any number of calls, endpoints, operations, logouts and revocations, and in
`Session` for any payload objects, configurations, texts, contents, prefixes and setters.

`Session_*` does not check deadlock: a session stops when its calls and setters are used up.

*Fairness.*  `FairSpec` is weak fairness of the steps of each call.  Promise callbacks
do run.  A request is answered or times out: `RepositoryClientConfig` and
`ServerClientConfig` have timeouts of ten seconds by default, which `HttpClient` puts into
every request.  The login request of a *repository* client is sent through an
`HttpClient` without timeouts (`base-repository-client.js:42-44`), so that logins are
answered or fail is an assumption about the network there.  No fairness is assumed of the
application, of logouts, of the servers or of revocations.

### What the runs show

Every safety property of the repository client holds, also the delicate one: after a 401 the
code clears `this.user`, whichever user that is by then, but it never repeats a request with a
token that its endpoint has refused (`FreshTokenAfterRefusal`), and with credentials
`this.user.clearToken()` never meets an undefined user (`TypeErrorWithoutCredentials`). `Server`
promises less: even where no token expires and the password is right, a request can be repeated
as it was refused, without a token, if the user is logged out before it is sent and another
user, whom an overlapping call logged in, before it is sent again. That takes two logouts and
three calls, one more than `Server_Sound` has; `RefusedAgainOnlyAfterLogouts` says that it takes
no less, and its proof that this is so for any number of calls. A call of a repository client
can have effects at several endpoints, but only where an answer was lost (`EffectAtMostOnce`).

Eight documented claims do not hold:

1. `Server_Expiry`: nothing clears the token in `Server.execute` after a 401, so the next
   execution sends the refused token again, contrary to the comment at `server.js:94`
   and to the README.  The unit test calls `logout()` in its mock, which hides it.
2. `Server_WrongPassword`: the catch handler of `Server.execute` also receives the 401 of a
   login, and repeats it for ever.  The same happens to a client without credentials, with
   the default `keepAlive`, on a secured server.
3. `Session_Location`: `setLocation` writes into the headers object that `setHeaders` was
   given, so two configurations with the same headers object have one location, the last one
   set through either.
4. `RC_Upload`: a retried upload sends the rest of a stream the first request consumed.
5. `Tx_KeepAlive`: `keepAlive` is not copied to the transactional client.
6. `Session_Graphs`: in the form encoding several graphs of an update are sent as one, joined
   by commas.
7. `Session_Headers`: `setHeaders` of a `ServerClientConfig` has no effect, because
   `initHttpClient` (`server.js:46-53`) does not pass the headers on, though
   `client-config.js:27` and `README.md:137-143` say so.
8. `Session_Blank`: a blank node in a filter becomes `<_:b>`, which matches nothing, though
   values in N-Triples are not converted according to `statements-service.js:234-235`.

Observations that no run is devoted to:

- After a logout the next call logs in before it is sent, so that it does not fail with 401
  without `keepAlive`, as the comment on `logout` has it (`server.js:105-110`).
- The repository's README has an ASK query with `BOOLEAN_RESULT` and `SparqlJsonResultParser` resolve to a
  boolean (lines 519-535, 837-838).  It resolves to a stream: the parser is registered for
  SPARQL results in JSON and not found under `text/boolean`.
- The default graphs and named graphs of an update are sent as they are after the login, and
  again after a 401, not as they were when `update` was called: the copy of the parameters
  (`query-service.js:88`) is shallow, and `getDefaultGraphs()` hands out the array itself.
  `UnderstoodAsMeant` excepts the parameters of which the application edits the array.
- A commit or rollback that fails clears `active`, as one that succeeds does
  (`transactional-repository-client.js:306-309`, `324-327`).  The transaction on the server may
  still be open, and its client rejects every further attempt to end it.
- `disableAuthentication` and changed credentials take effect only once the token of the user is
  cleared (`authentication-service.js:83-87`); until then the earlier token is sent.
- `getRepository` of `GraphDBServerClient` looks for the repository on the server itself, never
  at a location (line 88).  An empty location is sent as `?location=`.
- `objectToJson` makes `{}` of a missing object, so an update of a password alone carries empty
  application settings.  `downloadRepositoryConfig` does not check its id.
- Authorities and params changed between a call and the end of its login are sent changed;
  application settings are not (`CarriedOutAsAsked` excepts the former).
- A text for adding is not recognised as encoded: `<http://a>` becomes a named node with brackets in
  its name, which no parser accepts, though the same text can be filtered with.
- `deleteStatements` with an array of contexts that are all blank sends no context, which is a
  wildcard: it deletes everywhere.
- A namespace that is a `NamedNode` is saved without a check that it is not blank, and the
  empty prefix can be neither read nor deleted by itself.
- The properties of `Statements` leave out literals described while an earlier language was
  still in the payload: `setObjectLiteral` does not reset it (`add-statement-payload.js:78-89`)
  and the conversion prefers a language to a data type (`term-converter.js:53-61`).
- The literals `0` and `false` count as missing arguments and cannot be added
  (`common-utils.js:15`).
- `query` asks for a stream whatever the parser reads (`query-service.js:51`); `get` asks the parser.
- `upload` is a PUT and replaces what is stored, as `README.md:540` says and
  `upload-service.js:18-19` denies ("Executes a POST request"); in a transaction it adds.
- `active` is cleared when a commit is answered and not, as the class comment of
  `TransactionalRepositoryClient` says (lines 22-23), when it is invoked.

## Proofs

`RepositoryClient_proofs` proves, for every set of calls, every number of endpoints,
every kind of authentication and any number of revocations, that `Spec` implies the
seven invariants of `RC_Gdb` and its refinement property `ImplementsFailover`.  The assumptions are `NAssumption`
(the constructor rejects an empty list of endpoints) and `ConfigAssumption` (the
constants have their types).

None of the properties is inductive.  The inductive invariant `IInv`, checked by
TLC before it was proved, adds what the code relies on silently:

- `Shape`: which variables of a call are in use at each of its places;
- `WireInv`: a request on the wire has had no effect, is the only one of its call at
  that endpoint, and either its call waits for it with the same token or has left the endpoint
  with "no response" as the outcome.  `EffectAtMostOnce` rests on it;
- `AppliedInv`: an effect is being reported, was reported, or belongs to an endpoint that was
  given up.  `ResolvedMeansApplied` rests on it;
- `UserInv`: with credentials, a call resumes from login with a user, and `this.user` is
  defined while a request is out.  `TypeErrorWithoutCredentials` rests on it;
- `TokenInv`: a refused token is not valid any more, and the user a refused call resumes with
  is fresh, uncleared, not `this.user`, and captured by no other call, so that nobody can clear it before it
  is used.  `FreshTokenAfterRefusal` rests on it.

`UploadCorrect` says what remains of the claim that `RC_Upload` refutes: an upload that resolves at
the first endpoint, without having been refused there, was whole.  Its own invariant is `BodyInv`:
in such a first try only one request reads the body.

Each action has a lemma for each group of conjuncts; `Invariant` puts them together, the
corollaries project, and `Refinement` maps the initial state and each step to a step
of `Failover` or a stutter.

`Server_proofs` proves, from `SettingsAssumption` (the constants have their types), that
`Server` is a `Failover` with one endpoint, whatever the settings. The invariant `CallInv`
relates the place of a call, its request and its answer to its effect: a request on the wire has
had none, and a call that is executed again was told of none. `RefusedAgainCorrect` assumes
`SoundSettings` as well (with `keepAlive` there are credentials, they are right and no token
expires), without which `Server_Expiry` refutes it. It needs that every issued token is valid,
so that only a request without one is refused (`TokenOK`), and that the user a call resumes with
had a token when its login resolved, so that each request without one has a logout of its own
(`LogoutOK`).

`Transaction_proofs` proves all safety properties of `Transaction` from `TransactionAssumption`
(there is an endpoint, and no operation is both a commit and a rollback). The invariant says
that an endpoint given up on lies behind the current one (`BeginInv`), so that a late begin
request cannot touch the transaction of the client; that the endpoint's transaction holds a
write if the client knows of it, is being told of it, or has lost the answer, and in no other
case (`WriteInv`); that what was resolved when an operation was called is still there
(`EarlierInv`); that the end the client knows of is how the transaction ended, and the only
one (`EndInv`); and that the client is inactive only if an end has settled (`ActiveInv`), on
which `StrandedCorrect` rests: an end that was answered "ok" has closed the transaction, so
that one which is open and cannot be ended has an end that was rejected.

`Namespaces_proofs` proves `NamespaceAsAsked` from `ConstantsOK` (the blank name is not a
prefix, and there is a namespace). Its invariant is that a request that has not been handled is
still the one its call was made with, and that a call about one prefix is about a prefix that is
not blank, whose path is therefore not the one of the whole collection.

### Session

`Session_proofs` proves the type invariant of `Session`, its three other invariants and its eight
action properties, for all values of its constants that meet the seven assumptions `ReadingAssumption` to
`NamingAssumption` (one `ConstantsOK` per part) and `PartsAssumption` (only the seven parts are
considered).  Every `ConstantsOK` gives types to the constants and says that values
with different roles differ, such as an array and the value of a parameter that is not set.
Four of its clauses say more: an application has no parameter called
`action`, `query` or `update`, which are the names of the fields that requests have anyway
(`Requests`); a value that is no array is one string at most (`Requests`); the repository
starts with statements that can be parsed (`Terms`); and no prefix is blank (`Namespaces`), while calls with a blank prefix are still made.

A step of `Session` is a step of one part and leaves the others alone (`StepOfParts`), so the
conjunction `SessionInv` of the seven invariants is inductive as soon as each of them
is.  The state properties are part of these or follow from them, the action properties follow
from them for each step.  TLC found no counterexample to the seven invariants on the instance of `Session_Sound`
(all but the clauses `\E S : ... \in Seq(S)`, which it cannot evaluate).

Reading, writing, matching and asking are proved in `Services_proofs`:

- `ReadingInv`: a pending call has a payload of its own class with a response type, and as
  long as it is undisturbed, payload and registry still say what they said when it was made.  That
  is what makes the second reading in the callback harmless (`ReceivePreserves`); the work is
  in showing that every setter and registration marks exactly the calls whose answer it
  could change (`DisturbMarks`, `SetterPreserves`, `RegisterPreserves`).
- `WritingInv`: while a literal counts as described it is the object of the payload
  (`StatementInv`), so that the quads of an add are the promised ones; a request has the
  method of its operation and the contexts it was made with (`RequestOK`).  `AddedStep`,
  `RestrictedStep` and `OnlyAddsStep` take the rest from `EffectOfRequest`, what the repository
  does for each method.
- `MatchingInv`: everything stored can be parsed, which a request with anything else in it fails
  to change.  The rest is about the operators: a text is converted to the value it denotes
  (`ConvertedMatches`, `ContextsMatch`), so filtering selects what is denoted
  (`FilteredIsDenoted`), and the conversion for adding agrees with the one for filtering
  (`AddedUnderStep`).  Filters with blank nodes are excepted, as `Session_Blank` shows they must be.
- `AskingInv`: a payload has only parameters of its class and a content type it can
  have (`PreparedInv`); a request that was made would be understood as meant if it were sent
  now, and what was received of it was (`IsMade`, `MadeOK`).  The proof follows a
  request through both encodings and the rewriting for a transaction: `ActionUnderstood`,
  `RepeatedParams`, `SplitParams`, `SerializedParams`, `FormUnderstood`, `QueryMade`, `PlainMade`.
  Sending it keeps the invariant (`SentMade`), and so does a change of an array, after which
  only the parameters of that array are excepted (`SameButForEdited`, `EditKeeps`).

`Configuration_proofs`: a headers object or an array that nobody but a configuration has written to
holds what the configuration means (`MeantInv`); a client still has the endpoints that
were promised when it was made, unless it was made from a shared array (`KeptOK`); and its token,
the one on its way to it, and the one in the request builder are of credentials it
had (`TokensOK`), to which `HadInv` adds the credentials it would log in with now.  A login that
started is the only source of the token that its own call sends.  From these,
`ConfigurationReachesStep` and `LoggedInStep` need only the one action `Send`.  `LocationCorrect` says
what remains of the claim that `Session_Location` refutes: the location arrives at every client
whose headers object was not written through another configuration.  `KeptOK` also says which
clients have no headers object, the server clients: their requests carry their own
headers and nothing else.

`Administration_proofs`: a request not handled yet is the request of its call, made of the
objects as they were when it was called, or the call is marked as edited (`RequestOK`,
`ReferencesOK`); the right result at every moment while a call is pending is in `seen`, and
so is what its answer says (`SeenOK`).  `EffectAsAsked` compares, operation by operation,
what the server does with the method, path and body that were sent with what the operation is for;
`ResponseIsTruth` does the same for the answers.

`Session_proofs` instantiates these two and `Namespaces_proofs`.  `SameConfiguring`, `SameAdministering`
and `SameNaming` say that an instance of a proof module and the instance of the module in
`Session` are the same, by expanding both.

### What is not proved

Checked by TLC only: liveness (`EveryCallSettles`, `EndDeactivates`), which is out of the
prover's reach, and the properties that do not hold, for which a counterexample is all there is
to show.  All other properties of the runs are theorems.

## Plan

1. Core (done): `Failover`, `RepositoryClient`, `Server`, `Transaction` and the proofs of the
   repository client.
2. Data (done): `Responses`, `Statements`, `Requests`, composed in `Session`.
3. Settings, terms and the server side (done): `Configuration`, `Terms`, `Administration` and
   `Namespaces`, as further parts of `Session`.
4. Proofs (done): the safety of `Transaction`, the refinement of `Server`, the invariants and
   action properties of all parts of `Session`.
5. Proofs: what `Failover` itself promises, as theorems about it, so that `RepositoryClient` and
   `Server` inherit them through their refinements; how `RefusedAgainOnlyAfterLogouts` changes
   without its assumption.
6. Composition: the transactional client over the full `RepositoryClient`.

## Not modelled

The format wrappers of `src/parser` (they call third-party parsers), the N3 writer behind
`TermConverter.toString` and the base64 encoding of RDF-star triples (pure conversions
without choices to make), request ids and `HttpResponse` (wrappers around what axios has),
logging, the generated documentation and the TypeScript definitions.
