-------------------------- MODULE RepositoryClient --------------------------
(***************************************************************************)
(* One repository client (RDFRepositoryClient and every other subclass of  *)
(* BaseRepositoryClient) executing several API calls at once: the failover *)
(* over the configured endpoints, the login made before a request is sent, *)
(* and the re-login after a 401 answer.                                    *)
(*                                                                         *)
(* All calls share the client's logged-in user.  The code runs on one      *)
(* thread, in pieces: what a promise callback does is one action, and the  *)
(* callbacks of different calls interleave in any order.  Each call has    *)
(* its own iterator over the endpoints and its own request builder.        *)
(*                                                                         *)
(* User objects are named by the number of the login that created them.    *)
(* 0 stands for "undefined": no user, no token, no authorization header.   *)
(***************************************************************************)
EXTENDS Integers, FiniteSets

CONSTANTS
    Calls,        \* API calls, each made once
    N,            \* number of configured endpoints, tried in the order 1 .. N
    Uploads,      \* the calls whose request body is a readable stream
    Auth,         \* configured authentication: "none", "basic" or "gdb"
    KeepAlive,    \* the keepAlive flag of the configuration
    Secured,      \* do the endpoints require authentication?
    MaxExpiries   \* bound: how many times the servers revoke a token

ASSUME NAssumption == N \in Nat \ {0}

ASSUME ConfigAssumption ==
    /\ Uploads \subseteq Calls
    /\ Auth \in {"none", "basic", "gdb"}
    /\ KeepAlive \in BOOLEAN
    /\ Secured \in BOOLEAN
    /\ MaxExpiries \in Nat

VARIABLES
    user,      \* this.user, the logged-in user shared by all calls
    cleared,   \* the User objects whose clearToken was called
    logins,    \* number of successful logins so far, as many User objects
    valid,     \* the tokens the servers accept
    expiries,  \* number of revocations so far
    pc,        \* where each call stands, see Places
    idx,       \* the endpoint each call's iterator returned last
    captured,  \* the user the pending login promise of a call resolves to
    header,    \* the authorization header in the request builder of a call
    body,      \* what the last request of a call carried, see Bodies
    wire,      \* requests sent and not yet handled by an endpoint
    reply,     \* the answer on its way to a waiting call
    reason,    \* why a call was rejected
    outcome,   \* history: what a call last saw from each endpoint
    refused,   \* history: headers the current endpoint answered 401 to
    applied    \* how many times each endpoint carried a call out

client == <<user, cleared, pc, idx, captured, header, body, reason>>
vars == <<user, cleared, logins, valid, expiries, pc, idx, captured, header,
          body, wire, reply, reason, outcome, refused, applied>>

Endpoints == 1 .. N
NoUser == 0

\* "login": a login request is in flight; "resume": the login promise is
\* resolved and its callback is pending; "sent": the request is in flight.
Places == {"idle", "login", "resume", "sent", "resolved", "rejected"}
Settled == {"resolved", "rejected"}

\* What the client can learn about a request it sent.  "failure" is any
\* status other than 401 and 503, "noResponse" a timeout or an unreachable
\* host, "notSent" an error raised before a request existed.
Answers == {"ok", "unauthorized", "unavailable", "failure"}
Errors == {"unauthorized", "unavailable", "failure", "noResponse", "notSent"}
Outcomes == {"none", "ok"} \cup Errors
Reasons == {"none", "login", "typeError"} \cup Errors

\* "rest" is what is left of a stream that an earlier request has consumed.
Bodies == {"unsent", "whole", "rest"}

----------------------------------------------------------------------------
(* Users, tokens and headers                                               *)

\* The token of User object u.  A GDB token is new with every login; the
\* basic token is the header of the login request, always the same.
TokenOf(u) == IF Auth = "basic" THEN 1 ELSE u

\* authenticationService.getAuthenticationToken
HasToken(u, cl) == u # NoUser /\ u \notin cl

\* Slip: a user whose token was cleared counts as authenticated.
LoginDueOnlyWithoutUser(u, cl) == Auth # "none" /\ u = NoUser

\* Slip: only a user without a token is logged in, not a missing user.
LoginDueOnlyWithoutToken(u, cl) == Auth # "none" /\ u \in cl

\* shouldAuthenticate and isAlreadyAuthenticated (which is true when the user
\* is not authenticated yet): a login is due.  Configurations with an
\* authentication type carry credentials.
LoginDue(u, cl) == Auth # "none" /\ ~HasToken(u, cl)

\* External: an endpoint accepts requests with a valid token in the header.
Accepts(token) == Secured => token \in valid

----------------------------------------------------------------------------
(* The pieces of retryExecution                                            *)

Retriable(error) == error \in {"noResponse", "unavailable"}

\* Slips: the iterator ends one endpoint too late, or too early.
HasNextTooLate(c) == idx[c] <= N
HasNextTooEarly(c) == idx[c] < N - 1

HasNext(c) == idx[c] < N

\* The call of authenticationService.login(config, this.user), cl being the
\* cleared users: a login request goes out, or the user is captured as is.
Authenticate(c, cl) ==
    \/ /\ LoginDue(user, cl)
       /\ pc' = [pc EXCEPT ![c] = "login"]
       /\ UNCHANGED captured
    \/ /\ ~LoginDue(user, cl)
       /\ pc' = [pc EXCEPT ![c] = "resume"]
       /\ captured' = [captured EXCEPT ![c] = user]

Reject(c, why) ==
    /\ pc' = [pc EXCEPT ![c] = "rejected"]
    /\ reason' = [reason EXCEPT ![c] = why]

\* 401 and keepAlive: clear the token of the current user, whichever user the
\* request was sent for, and go through login again for the same endpoint.
RetrySameEndpoint(c) ==
    /\ user # NoUser
    /\ cleared' = cleared \cup {user}
    /\ refused' = [refused EXCEPT ![c] = @ \cup {header[c]}]
    /\ Authenticate(c, cleared \cup {user})
    /\ UNCHANGED <<idx, reason>>

\* 401 and keepAlive, but nobody ever logged in: this.user.clearToken() throws
\* inside the error handler and the call is rejected with that TypeError.
ClearTokenThrows(c) ==
    /\ user = NoUser
    /\ Reject(c, "typeError")
    /\ UNCHANGED <<cleared, idx, captured, refused>>

\* Slip: the current HTTP client is passed on, so the iterator stays.
RetryWithoutNext(c) ==
    /\ refused' = [refused EXCEPT ![c] = {}]
    /\ Authenticate(c, cleared)
    /\ UNCHANGED <<idx, cleared, reason>>

RetryNextEndpoint(c) ==
    /\ idx' = [idx EXCEPT ![c] = @ + 1]
    /\ refused' = [refused EXCEPT ![c] = {}]
    /\ Authenticate(c, cleared)
    /\ UNCHANGED <<cleared, reason>>

\* Slip: the next endpoint is tried whatever the error.
GiveUpOnLast(c, error) ==
    \/ HasNext(c) /\ RetryNextEndpoint(c)
    \/ /\ ~HasNext(c)
       /\ Reject(c, error)
       /\ UNCHANGED <<cleared, idx, captured, refused>>

GiveUp(c, error) ==
    /\ Reject(c, error)
    /\ UNCHANGED <<cleared, idx, captured, refused>>

\* The catch handler of a request.
HandleError(c, error) ==
    /\ outcome' = [outcome EXCEPT ![c][idx[c]] = error]
    /\ reply' = [reply EXCEPT ![c] = "none"]
    /\ IF error = "unauthorized" /\ KeepAlive
         THEN RetrySameEndpoint(c) \/ ClearTokenThrows(c)
         ELSE IF Retriable(error) /\ HasNext(c)
                THEN RetryNextEndpoint(c)
                ELSE GiveUp(c, error)
    /\ UNCHANGED <<user, header, body>>

----------------------------------------------------------------------------
Init ==
    /\ user = NoUser
    /\ cleared = {}
    /\ logins = 0
    /\ valid = IF Auth = "basic" THEN {1} ELSE {}
    /\ expiries = 0
    /\ pc = [c \in Calls |-> "idle"]
    /\ idx = [c \in Calls |-> 0]
    /\ captured = [c \in Calls |-> NoUser]
    /\ header = [c \in Calls |-> 0]
    /\ body = [c \in Calls |-> "unsent"]
    /\ wire = {}
    /\ reply = [c \in Calls |-> "none"]
    /\ reason = [c \in Calls |-> "none"]
    /\ outcome = [c \in Calls |-> [e \in Endpoints |-> "none"]]
    /\ refused = [c \in Calls |-> {}]
    /\ applied = [c \in Calls |-> [e \in Endpoints |-> 0]]

\* execute: a fresh iterator, its first endpoint, and the login.
Execute(c) ==
    /\ pc[c] = "idle"
    /\ idx' = [idx EXCEPT ![c] = 1]
    /\ Authenticate(c, cleared)
    /\ UNCHANGED <<user, cleared, logins, valid, expiries, header, body, wire,
                   reply, reason, outcome, refused, applied>>

\* The login server accepts the credentials and its answer becomes a new
\* User.  A basic login succeeds as long as the password is the right one.
LoginSucceeds(c) ==
    /\ pc[c] = "login"
    /\ Auth = "basic" => 1 \in valid
    /\ logins' = logins + 1
    /\ valid' = IF Auth = "gdb" THEN valid \cup {logins + 1} ELSE valid
    /\ captured' = [captured EXCEPT ![c] = logins + 1]
    /\ pc' = [pc EXCEPT ![c] = "resume"]
    /\ UNCHANGED <<user, cleared, expiries, idx, header, body, wire, reply,
                   reason, outcome, refused, applied>>

\* Any failed login rejects the call: the catch handler is attached to the
\* request made in the callback of login, not to login itself.
LoginFails(c) ==
    /\ pc[c] = "login"
    /\ Reject(c, "login")
    /\ UNCHANGED <<user, cleared, logins, valid, expiries, idx, captured,
                   header, body, wire, reply, outcome, refused, applied>>

\* The callback of login: setLoggedUser, decorateRequestConfig (which leaves
\* the header of an earlier attempt in place when there is no token now) and
\* the request itself.
Send(c) ==
    /\ pc[c] = "resume"
    /\ user' = captured[c]
    /\ captured' = [captured EXCEPT ![c] = NoUser]
    /\ header' = [header EXCEPT ![c] =
                    IF HasToken(captured[c], cleared)
                      THEN TokenOf(captured[c]) ELSE @]
    /\ body' = [body EXCEPT ![c] =
                  IF c \in Uploads /\ @ # "unsent" THEN "rest" ELSE "whole"]
    /\ wire' = wire \cup {[call |-> c, endpoint |-> idx[c],
                           token |-> header'[c]]}
    /\ pc' = [pc EXCEPT ![c] = "sent"]
    /\ UNCHANGED <<cleared, logins, valid, expiries, idx, reply, reason,
                   outcome, refused, applied>>

\* Slip: any status but 401 and 503 counts as a success.
ReceiveLenient(c) ==
    /\ pc[c] = "sent"
    /\ reply[c] # "none"
    /\ \/ /\ reply[c] \in {"ok", "failure"}
          /\ pc' = [pc EXCEPT ![c] = "resolved"]
          /\ outcome' = [outcome EXCEPT ![c][idx[c]] = "ok"]
          /\ reply' = [reply EXCEPT ![c] = "none"]
          /\ UNCHANGED <<user, cleared, idx, captured, header, body, reason,
                         refused>>
       \/ reply[c] \notin {"ok", "failure"} /\ HandleError(c, reply[c])
    /\ UNCHANGED <<logins, valid, expiries, wire, applied>>

\* The answer reaches the client.
Receive(c) ==
    /\ pc[c] = "sent"
    /\ reply[c] # "none"
    /\ \/ /\ reply[c] = "ok"
          /\ pc' = [pc EXCEPT ![c] = "resolved"]
          /\ outcome' = [outcome EXCEPT ![c][idx[c]] = "ok"]
          /\ reply' = [reply EXCEPT ![c] = "none"]
          /\ UNCHANGED <<user, cleared, idx, captured, header, body, reason,
                         refused>>
       \/ reply[c] # "ok" /\ HandleError(c, reply[c])
    /\ UNCHANGED <<logins, valid, expiries, wire, applied>>

\* The read or write timeout fires: the request may be lost, may still be on
\* its way, or may have been carried out with its answer on the way back.
Timeout(c) ==
    /\ pc[c] = "sent"
    /\ HandleError(c, "noResponse")
    /\ UNCHANGED <<logins, valid, expiries, wire, applied>>

\* The host cannot be reached, or the request fails before it is made.
ConnectionFails(c) ==
    /\ pc[c] = "sent"
    /\ \E r \in wire :
          /\ r.call = c /\ r.endpoint = idx[c]
          /\ wire' = wire \ {r}
    /\ \E error \in {"noResponse", "notSent"} : HandleError(c, error)
    /\ UNCHANGED <<logins, valid, expiries, applied>>

----------------------------------------------------------------------------
(* External: the endpoints and their user database                         *)

\* An answer is read only by a call still waiting at that endpoint.
Answer(r, answer) ==
    reply' = IF pc[r.call] = "sent" /\ idx[r.call] = r.endpoint
               THEN [reply EXCEPT ![r.call] = answer] ELSE reply

\* An endpoint handles a request it received.  Only a success has an effect.
Serve(r) ==
    /\ wire' = wire \ {r}
    /\ \/ /\ Accepts(r.token)
          /\ applied' = [applied EXCEPT ![r.call][r.endpoint] = @ + 1]
          /\ Answer(r, "ok")
       \/ /\ ~Accepts(r.token)
          /\ Answer(r, "unauthorized")
          /\ UNCHANGED applied
       \/ /\ \E error \in {"unavailable", "failure"} : Answer(r, error)
          /\ UNCHANGED applied
    /\ UNCHANGED <<user, cleared, logins, valid, expiries, pc, idx, captured,
                   header, body, reason, outcome, refused>>

\* A GDB token expires, or the password is changed.
Expire(token) ==
    /\ expiries < MaxExpiries
    /\ expiries' = expiries + 1
    /\ valid' = valid \ {token}
    /\ UNCHANGED <<user, cleared, logins, pc, idx, captured, header, body,
                   wire, reply, reason, outcome, refused, applied>>

ClientStep(c) ==
    \/ LoginSucceeds(c)
    \/ LoginFails(c)
    \/ Send(c)
    \/ Receive(c)
    \/ Timeout(c)
    \/ ConnectionFails(c)

\* Every call has settled and nobody needs to move any more.
Quiet == (\A c \in Calls : pc[c] \in Settled) /\ UNCHANGED vars

Next ==
    \/ \E c \in Calls : Execute(c) \/ ClientStep(c)
    \/ \E r \in wire : Serve(r)
    \/ \E token \in valid : Expire(token)
    \/ Quiet

Spec == Init /\ [][Next]_vars

\* Promise callbacks run, a login is answered (the login client has no
\* timeout of its own, so this is an assumption on the network), and a request
\* is answered or times out.
FairSpec == Spec /\ \A c \in Calls : WF_vars(ClientStep(c))

----------------------------------------------------------------------------
(* Properties                                                              *)

\* Every variable stays in its type.
TypeOK ==
    /\ user \in 0 .. logins
    /\ cleared \subseteq 1 .. logins
    /\ logins \in Nat
    /\ valid \subseteq Nat \ {0}
    /\ expiries \in 0 .. MaxExpiries
    /\ pc \in [Calls -> Places]
    /\ idx \in [Calls -> 0 .. N]
    /\ captured \in [Calls -> 0 .. logins]
    /\ header \in [Calls -> 0 .. logins]
    /\ body \in [Calls -> Bodies]
    /\ wire \subseteq [call : Calls, endpoint : Endpoints, token : 0 .. logins]
    /\ reply \in [Calls -> {"none"} \cup Answers]
    /\ reason \in [Calls -> Reasons]
    /\ outcome \in [Calls -> [Endpoints -> Outcomes]]
    /\ refused \in [Calls -> SUBSET (0 .. logins)]
    /\ applied \in [Calls -> [Endpoints -> Nat]]

\* A call moves past an endpoint only after that endpoint gave no answer or
\* answered 503, and endpoints further on have neither seen the call nor
\* carried it out: the failover of retryExecution skips nobody and runs ahead
\* of nobody, also when a call had to log in again on the way.
FailoverInOrder ==
    \A c \in Calls, e \in Endpoints :
        /\ e < idx[c] => Retriable(outcome[c][e])
        /\ e > idx[c] => /\ outcome[c][e] = "none"
                         /\ applied[c][e] = 0
                         /\ \A r \in wire : r.call = c => r.endpoint # e

\* An endpoint carries a call out at most once, whatever is retried, and once
\* it has, the call either resolved with that endpoint's answer, still waits
\* for it, or never got it: a request is repeated at another endpoint only
\* when its answer was lost, never after it was told of the effect.
EffectAtMostOnce ==
    \A c \in Calls, e \in Endpoints :
        /\ applied[c][e] <= 1
        /\ applied[c][e] = 1 =>
              \/ pc[c] = "sent" /\ e = idx[c]
              \/ outcome[c][e] \in {"ok", "noResponse"}

\* A resolved call was carried out by the endpoint it resolved with.
ResolvedMeansApplied ==
    \A c \in Calls :
        pc[c] = "resolved" => applied[c][idx[c]] = 1

\* "If all of the endpoints are unsuccessful then the execution will fail":
\* a call is rejected for an unreachable or busy endpoint only when every
\* endpoint was, and for a 401 only when keepAlive is off.
RejectedWhenExhausted ==
    \A c \in Calls :
        pc[c] = "rejected" =>
            /\ Retriable(reason[c]) =>
                  \A e \in Endpoints : Retriable(outcome[c][e])
            /\ reason[c] = "unauthorized" => ~KeepAlive
            /\ reason[c] \in Errors => outcome[c][idx[c]] = reason[c]

\* The error handler finds no user to clear only in a client that has no
\* credentials: with credentials, a request is never sent, and so never
\* answered 401, before some login has set this.user, whatever the calls that
\* run side by side put back into this.user.
TypeErrorWithoutCredentials ==
    \A c \in Calls : reason[c] = "typeError" => Auth = "none"

\* After a 401 the request is repeated with another token than those the
\* endpoint refused, although the calls share one user and clear each other's
\* tokens.
FreshTokenAfterRefusal ==
    \A c \in Calls : pc[c] = "sent" => header[c] \notin refused[c]

\* A call that was made is resolved or rejected in the end, provided that the
\* servers revoke tokens a bounded number of times.
EveryCallSettles ==
    \A c \in Calls : pc[c] # "idle" ~> pc[c] \in Settled

\* The upload methods document that their promise "will be resolved when the
\* stream has been successfully consumed by the server".
ResolvedUploadWasWhole ==
    \A c \in Uploads : pc[c] = "resolved" => body[c] = "whole"

----------------------------------------------------------------------------
(* Every behaviour is one of Failover                                      *)

StatusOf(place) ==
    CASE place = "idle" -> "new"
      [] place \in Settled -> place
      [] OTHER -> "running"

Abstract == INSTANCE Failover WITH
    status <- [c \in Calls |-> StatusOf(pc[c])],
    reached <- idx,
    effects <- applied

\* The client implements the failover it promises: see Failover.
ImplementsFailover == Abstract!Spec

----------------------------------------------------------------------------
(* The inductive invariant behind the properties (see                      *)
(* RepositoryClient_proofs)                                                *)

\* Where a call stands decides which of its variables are in use.
Shape ==
    \A c \in Calls :
        /\ pc[c] = "idle" <=> idx[c] = 0
        /\ pc[c] = "idle" => refused[c] = {}
        /\ pc[c] # "sent" => reply[c] = "none"
        /\ pc[c] # "resume" => captured[c] = NoUser

\* The call that sent r is still waiting for the answer.
Waiting(r) ==
    /\ pc[r.call] = "sent"
    /\ idx[r.call] = r.endpoint
    /\ reply[r.call] = "none"

\* Call c is done with endpoint e.
LeftBehind(c, e) == e < idx[c] \/ (e = idx[c] /\ pc[c] \in Settled)

\* A request on the wire has had no effect yet; it is the only one of its
\* call at that endpoint, and the call waits for it or has given it up.
WireInv ==
    \A r \in wire :
        /\ applied[r.call][r.endpoint] = 0
        /\ \A s \in wire :
              r.call = s.call /\ r.endpoint = s.endpoint => r = s
        /\ \/ Waiting(r) /\ r.token = header[r.call]
           \/ /\ LeftBehind(r.call, r.endpoint)
              /\ outcome[r.call][r.endpoint] = "noResponse"

\* An effect is being reported to the call, was reported, or never will be.
AppliedInv ==
    \A c \in Calls, e \in Endpoints :
        /\ applied[c][e] <= 1
        /\ applied[c][e] = 1 =>
              \/ pc[c] = "sent" /\ e = idx[c] /\ reply[c] = "ok"
              \/ LeftBehind(c, e) /\ outcome[c][e] \in {"ok", "noResponse"}
        /\ reply[c] = "ok" => applied[c][idx[c]] = 1

\* With credentials, this.user is set before any request is sent.
UserInv ==
    \A c \in Calls :
        /\ Auth = "none" => logins = 0 /\ pc[c] # "login"
        /\ Auth # "none" /\ pc[c] = "resume" => captured[c] # NoUser
        /\ Auth # "none" /\ pc[c] = "sent" => user # NoUser

\* A refused token is not valid any more; the user a refused call resumes with
\* is fresh, and no other part of the client has a reference to it.
TokenInv ==
    \A c \in Calls :
        /\ refused[c] \cap valid = {}
        /\ reply[c] = "unauthorized" => header[c] \notin valid
        /\ pc[c] = "resume" /\ refused[c] # {} =>
              /\ HasToken(captured[c], cleared)
              /\ TokenOf(captured[c]) \notin refused[c]
              /\ captured[c] # user
              /\ \A d \in Calls \ {c} : captured[d] # captured[c]

IInv ==
    /\ TypeOK
    /\ Shape
    /\ FailoverInOrder
    /\ WireInv
    /\ AppliedInv
    /\ ResolvedMeansApplied
    /\ RejectedWhenExhausted
    /\ UserInv
    /\ TypeErrorWithoutCredentials
    /\ TokenInv
    /\ FreshTokenAfterRefusal
=============================================================================
