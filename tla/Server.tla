------------------------------- MODULE Server -------------------------------
(***************************************************************************)
(* The executor behind ServerClient and GraphDBServerClient: one endpoint, *)
(* no failover, a login before the request and, with keepAlive, another    *)
(* execution after a 401.  The calls share the logged-in user, which the   *)
(* application may log out at any time.                                    *)
(*                                                                         *)
(* It differs from RepositoryClient in three ways that matter: nothing     *)
(* clears the token an endpoint refused, the error handler also sees the   *)
(* errors of the login itself, and there is a logout.                      *)
(*                                                                         *)
(* Users, tokens and headers are numbered as in RepositoryClient.          *)
(***************************************************************************)
EXTENDS Integers

CONSTANTS
    Calls,       \* API calls, each made once
    Settings,    \* the settings considered, see setting
    MaxLogouts   \* bound: how many times the application logs out

\* auth is the configured authentication, keepAlive the flag of that name,
\* rightPassword says whether the configured credentials are the right ones,
\* and maxExpiries bounds how many times the server revokes a token.
ASSUME SettingsAssumption ==
    /\ Settings \subseteq [auth : {"none", "basic", "gdb"},
                           keepAlive : BOOLEAN,
                           rightPassword : BOOLEAN,
                           maxExpiries : Nat]
    /\ MaxLogouts \in Nat

VARIABLES
    setting,   \* the configuration of the client and its server, never changed
    user,      \* this.user, shared by all calls
    cleared,   \* the User objects whose clearToken was called
    logins,    \* number of successful logins so far, as many User objects
    valid,     \* the tokens the server accepts
    expiries,  \* number of revocations so far
    logouts,   \* number of logouts so far
    pc,        \* where each call stands, as in RepositoryClient
    captured,  \* the user the pending login promise of a call resolves to
    header,    \* the authorization header in the request builder of a call
    pending,   \* is the last request of a call still on the wire?
    reply,     \* the answer on its way to a waiting call
    reason,    \* why a call was rejected
    refused,   \* history: headers a call got a 401 for
    applied    \* how many times the server carried a call out

vars == <<setting, user, cleared, logins, valid, expiries, logouts, pc, captured,
          header, pending, reply, reason, refused, applied>>

NoUser == 0
Places == {"idle", "login", "resume", "sent", "resolved", "rejected"}
Settled == {"resolved", "rejected"}
Answers == {"ok", "unauthorized", "failure"}
Errors == {"unauthorized", "failure", "noResponse"}

TokenOf(u) == IF setting.auth = "basic" THEN 1 ELSE u
HasToken(u) == u # NoUser /\ u \notin cleared

\* Slip: a user whose token was cleared counts as authenticated.
LoginDueOnlyWithoutUser == setting.auth # "none" /\ user = NoUser

LoginDue == setting.auth # "none" /\ ~HasToken(user)

\* External: what the server, which has security enabled, accepts.
Accepts(token) == token \in valid

TypeOK ==
    /\ setting \in Settings
    /\ user \in 0 .. logins
    /\ cleared \subseteq 1 .. logins
    /\ logins \in Nat
    /\ valid \subseteq Nat \ {0}
    /\ expiries \in 0 .. setting.maxExpiries
    /\ logouts \in 0 .. MaxLogouts
    /\ pc \in [Calls -> Places]
    /\ captured \in [Calls -> 0 .. logins]
    /\ header \in [Calls -> 0 .. logins]
    /\ pending \in [Calls -> BOOLEAN]
    /\ reply \in [Calls -> {"none"} \cup Answers]
    /\ reason \in [Calls -> {"none"} \cup Errors]
    /\ refused \in [Calls -> SUBSET (0 .. logins)]
    /\ applied \in [Calls -> Nat]

Init ==
    /\ setting \in Settings
    /\ user = NoUser
    /\ cleared = {}
    /\ logins = 0
    /\ valid = IF setting.auth = "basic" /\ setting.rightPassword THEN {1} ELSE {}
    /\ expiries = 0
    /\ logouts = 0
    /\ pc = [c \in Calls |-> "idle"]
    /\ captured = [c \in Calls |-> NoUser]
    /\ header = [c \in Calls |-> 0]
    /\ pending = [c \in Calls |-> FALSE]
    /\ reply = [c \in Calls |-> "none"]
    /\ reason = [c \in Calls |-> "none"]
    /\ refused = [c \in Calls |-> {}]
    /\ applied = [c \in Calls |-> 0]

\* The synchronous part of execute: login(config, this.user).
Login(c) ==
    \/ /\ LoginDue
       /\ pc' = [pc EXCEPT ![c] = "login"]
       /\ UNCHANGED captured
    \/ /\ ~LoginDue
       /\ pc' = [pc EXCEPT ![c] = "resume"]
       /\ captured' = [captured EXCEPT ![c] = user]

Execute(c) ==
    /\ pc[c] = "idle"
    /\ Login(c)
    /\ UNCHANGED <<setting, user, cleared, logins, valid, expiries, logouts,
                   header, pending, reply, reason, refused, applied>>

\* Slip: also repeats when no answer came, and whatever keepAlive says.
HandleErrorAlwaysRepeats(c, error) ==
    \/ error \in {"unauthorized", "noResponse"} /\ Login(c) /\ UNCHANGED reason
    \/ /\ error = "failure"
       /\ pc' = [pc EXCEPT ![c] = "rejected"]
       /\ reason' = [reason EXCEPT ![c] = error]
       /\ UNCHANGED captured

\* The catch at the end of execute: it sees the errors of the request and of
\* the login alike.  The user and its token stay as they are.
HandleError(c, error) ==
    \/ /\ error = "unauthorized" /\ setting.keepAlive
       /\ Login(c)
       /\ UNCHANGED reason
    \/ /\ ~(error = "unauthorized" /\ setting.keepAlive)
       /\ pc' = [pc EXCEPT ![c] = "rejected"]
       /\ reason' = [reason EXCEPT ![c] = error]
       /\ UNCHANGED captured

\* Are the credentials accepted at this moment?
LoginAccepted == 
    IF setting.auth = "basic" THEN 1 \in valid ELSE setting.rightPassword

LoginSucceeds(c) ==
    /\ pc[c] = "login"
    /\ reply[c] = "none"
    /\ LoginAccepted
    /\ logins' = logins + 1
    /\ valid' = IF setting.auth = "gdb" THEN valid \cup {logins + 1} ELSE valid
    /\ captured' = [captured EXCEPT ![c] = logins + 1]
    /\ pc' = [pc EXCEPT ![c] = "resume"]
    /\ UNCHANGED <<setting, user, cleared, expiries, logouts, header,
                   pending, reply, reason, refused, applied>>

\* The server answers a login with 401.
LoginRefused(c) ==
    /\ pc[c] = "login"
    /\ reply[c] = "none"
    /\ ~LoginAccepted
    /\ reply' = [reply EXCEPT ![c] = "unauthorized"]
    /\ UNCHANGED <<setting, user, cleared, logins, valid, expiries, logouts,
                   pc, captured, header, pending, reason, refused, applied>>

LoginFails(c) ==
    /\ pc[c] = "login"
    /\ \/ reply[c] = "unauthorized" /\ HandleError(c, "unauthorized")
       \/ \E error \in {"failure", "noResponse"} : HandleError(c, error)
    /\ reply' = [reply EXCEPT ![c] = "none"]
    /\ UNCHANGED <<setting, user, cleared, logins, valid, expiries, logouts,
                   header, pending, refused, applied>>

\* The callback of login: setLoggedUser, decorateRequestConfig, request.
Send(c) ==
    /\ pc[c] = "resume"
    /\ user' = captured[c]
    /\ captured' = [captured EXCEPT ![c] = NoUser]
    /\ header' = [header EXCEPT ![c] =
                    IF HasToken(captured[c]) THEN TokenOf(captured[c]) ELSE @]
    /\ pending' = [pending EXCEPT ![c] = TRUE]
    /\ pc' = [pc EXCEPT ![c] = "sent"]
    /\ UNCHANGED <<setting, cleared, logins, valid, expiries, logouts, reply,
                   reason, refused, applied>>

Receive(c) ==
    /\ pc[c] = "sent"
    /\ reply[c] # "none"
    /\ reply' = [reply EXCEPT ![c] = "none"]
    /\ refused' = IF reply[c] = "unauthorized"
                    THEN [refused EXCEPT ![c] = @ \cup {header[c]}]
                    ELSE refused
    /\ \/ /\ reply[c] = "ok"
          /\ pc' = [pc EXCEPT ![c] = "resolved"]
          /\ UNCHANGED <<captured, reason>>
       \/ reply[c] # "ok" /\ HandleError(c, reply[c])
    /\ UNCHANGED <<setting, user, cleared, logins, valid, expiries, logouts,
                   header, pending, applied>>

\* The timeout fires, or the server cannot be reached: then the request is
\* not on the wire any more.
Timeout(c) ==
    /\ pc[c] = "sent"
    /\ HandleError(c, "noResponse")
    /\ reply' = [reply EXCEPT ![c] = "none"]
    /\ pending' \in {pending, [pending EXCEPT ![c] = FALSE]}
    /\ UNCHANGED <<setting, user, cleared, logins, valid, expiries, logouts,
                   header, refused, applied>>

\* External: the server handles a request, given up on or not.
Serve(c) ==
    /\ pending[c]
    /\ pending' = [pending EXCEPT ![c] = FALSE]
    /\ \E answer \in Answers :
          /\ answer = "ok" => Accepts(header[c])
          /\ answer = "unauthorized" => ~Accepts(header[c])
          /\ applied' = IF answer = "ok" THEN [applied EXCEPT ![c] = @ + 1]
                                         ELSE applied
          /\ reply' = IF pc[c] = "sent" THEN [reply EXCEPT ![c] = answer]
                                        ELSE reply
    /\ UNCHANGED <<setting, user, cleared, logins, valid, expiries, logouts,
                   pc, captured, header, reason, refused>>

\* Slip: the user is not looked at.
LogoutAnyUser ==
    /\ logouts < MaxLogouts
    /\ logouts' = logouts + 1
    /\ cleared' = cleared \cup {user}
    /\ UNCHANGED <<setting, user, logins, valid, expiries, pc, captured,
                   header, pending, reply, reason, refused, applied>>

\* The application calls logout; without a user, clearToken throws.
Logout ==
    /\ logouts < MaxLogouts
    /\ user # NoUser
    /\ logouts' = logouts + 1
    /\ cleared' = cleared \cup {user}
    /\ UNCHANGED <<setting, user, logins, valid, expiries, pc, captured,
                   header, pending, reply, reason, refused, applied>>

\* External: a GDB token expires, or the password is changed.
Expire(token) ==
    /\ expiries < setting.maxExpiries
    /\ expiries' = expiries + 1
    /\ valid' = valid \ {token}
    /\ UNCHANGED <<setting, user, cleared, logins, logouts, pc, captured,
                   header, pending, reply, reason, refused, applied>>

Progress(c) ==
    \/ LoginSucceeds(c)
    \/ LoginRefused(c)
    \/ LoginFails(c)
    \/ Send(c)
    \/ Receive(c)
    \/ Timeout(c)

\* Every call has settled and nobody needs to move any more.
Quiet == (\A c \in Calls : pc[c] \in Settled) /\ UNCHANGED vars

Next ==
    \/ \E c \in Calls : Execute(c) \/ Progress(c) \/ Serve(c)
    \/ Logout
    \/ \E token \in valid : Expire(token)
    \/ Quiet

Spec == Init /\ [][Next]_vars

\* Callbacks run; logins and requests are answered or time out (the client of
\* Server has both timeouts set, and logs in through the same HttpClient).
FairSpec == Spec /\ \A c \in Calls : WF_vars(Progress(c))

----------------------------------------------------------------------------
(* Properties                                                              *)

\* "re-execute will try to re-login the user and update it": after a 401 the
\* request is executed again with a token that was not refused.
FreshTokenAfterRefusal ==
    \A c \in Calls : pc[c] = "sent" => header[c] \notin refused[c]

\* Where no token expires and the password is right, or nothing is repeated, the re-login
\* does not repeat what was refused, with one exception: without a token, when the user was
\* logged out before the first attempt and, by then another user, again before the second.
RefusedAgainOnlyAfterLogouts ==
    \A c \in Calls :
        pc[c] = "sent" /\ header[c] \in refused[c] => header[c] = 0 /\ logouts >= 2

\* "a promise which resolves to response wrapper or rejects with error": every
\* call settles.
EveryCallSettles ==
    \A c \in Calls : pc[c] # "idle" ~> pc[c] \in Settled

StatusOf(place) ==
    CASE place = "idle" -> "new"
      [] place \in Settled -> place
      [] OTHER -> "running"

\* Failover with a single endpoint.
Abstract == INSTANCE Failover WITH
    N <- 1,
    status <- [c \in Calls |-> StatusOf(pc[c])],
    reached <- [c \in Calls |-> IF pc[c] = "idle" THEN 0 ELSE 1],
    effects <- [c \in Calls |-> [e \in {1} |-> applied[c]]]

\* The server carries a call out at most once, re-execution included, and a
\* call resolves only if it did.
ImplementsFailover == Abstract!Spec
=============================================================================
