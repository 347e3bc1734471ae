---------------------------- MODULE Transaction ----------------------------
(***************************************************************************)
(* A transaction: TransactionService.beginTransaction on a repository      *)
(* client with N endpoints, then the TransactionalRepositoryClient bound   *)
(* to the location the begin request returned, whose operations may        *)
(* overlap.  Every operation goes through BaseRepositoryClient.execute,    *)
(* here with a single endpoint; RepositoryClient has the details of login. *)
(***************************************************************************)
EXTENDS Integers

CONSTANTS
    Writes,            \* add, addQuads, update, deleteData, upload, addFile
    Commits,           \* calls of commit
    Rollbacks,         \* calls of rollback
    N,                 \* endpoints of the repository client
    ParentKeepAlive,   \* keepAlive of the repository client's configuration
    MaxRefusals        \* bound: how often a token turns out to have expired

ASSUME TransactionAssumption ==
    /\ N \in Nat \ {0}
    /\ MaxRefusals \in Nat
    /\ ParentKeepAlive \in BOOLEAN
    /\ Commits \cap Rollbacks = {}

VARIABLES
    begin,     \* beginTransaction: "idle", "sent", "resolved" or "rejected"
    at,        \* the endpoint the begin request was last sent to
    answer,    \* the answer to it, or "none", see BeginAnswers
    opening,   \* endpoints with a begin request on the wire
    lost,      \* history: endpoints whose answer to begin was never read
    tx,        \* the transaction each endpoint started, if any
    staged,    \* the writes carried out in it
    active,    \* the active flag of the transactional client
    pc,        \* where each operation stands
    wire,      \* operations with a request on the wire
    reply,     \* the answer on its way to an operation
    reason,    \* why an operation was rejected
    refusals,  \* number of 401 answers so far
    earlier    \* history: the writes resolved when an operation was called

Ops == Writes \cup Commits \cup Rollbacks
Ends == Commits \cup Rollbacks
Endpoints == 1 .. N

beginVars == <<begin, at, answer, opening, lost>>
serverVars == <<tx, staged>>
opVars == <<active, pc, wire, reply, reason, refusals, earlier>>
vars == <<begin, at, answer, opening, lost, tx, staged, active, pc, wire,
          reply, reason, refusals, earlier>>

\* "login" is everything before the request is sent, "thrown" the error
\* execute throws on an inactive transaction.
Places == {"idle", "login", "sent", "resolved", "rejected", "thrown"}
Settled == {"resolved", "rejected", "thrown"}
Errors == {"unauthorized", "failure", "noResponse"}

\* "noLocation" is a success without the location header.
BeginAnswers == {"ok", "noLocation", "failure", "unavailable", "unauthorized"}

TypeOK ==
    /\ begin \in {"idle", "sent", "resolved", "rejected"}
    /\ at \in 0 .. N
    /\ answer \in {"none"} \cup BeginAnswers
    /\ opening \subseteq Endpoints
    /\ lost \subseteq Endpoints
    /\ tx \in [Endpoints -> {"none", "open", "committed", "rolledBack"}]
    /\ staged \in [Endpoints -> SUBSET Writes]
    /\ active \in BOOLEAN
    /\ pc \in [Ops -> Places]
    /\ wire \subseteq Ops
    /\ reply \in [Ops -> {"none", "ok", "unauthorized", "failure"}]
    /\ reason \in [Ops -> {"none", "login"} \cup Errors]
    /\ refusals \in 0 .. MaxRefusals
    /\ earlier \in [Ops -> SUBSET Writes]

Init ==
    /\ begin = "idle"
    /\ at = 0
    /\ answer = "none"
    /\ opening = {}
    /\ lost = {}
    /\ tx = [e \in Endpoints |-> "none"]
    /\ staged = [e \in Endpoints |-> {}]
    /\ active = FALSE
    /\ pc = [o \in Ops |-> "idle"]
    /\ wire = {}
    /\ reply = [o \in Ops |-> "none"]
    /\ reason = [o \in Ops |-> "none"]
    /\ refusals = 0
    /\ earlier = [o \in Ops |-> {}]

----------------------------------------------------------------------------
(* beginTransaction                                                        *)

\* The login before a request fails, and beginTransaction with it, or the
\* request is sent to endpoint e.
BeginAt(e) ==
    \/ begin' = "rejected" /\ UNCHANGED <<at, opening>>
    \/ begin' = "sent" /\ at' = e /\ opening' = opening \cup {e}

Begin ==
    /\ begin = "idle"
    /\ BeginAt(1)
    /\ UNCHANGED <<answer, lost, serverVars, opVars>>

\* Slip: the end of the endpoints is not noticed.
BeginNextUnbounded == BeginAt(at + 1)

\* Failover: on to the next endpoint, or beginTransaction is rejected.
BeginNext ==
    \/ at < N /\ BeginAt(at + 1)
    \/ at = N /\ begin' = "rejected" /\ UNCHANGED <<at, opening>>

\* Slip: the location header is looked up under a name it does not have.
BeginSucceedsUnnoticed ==
    /\ begin = "sent"
    /\ answer = "ok"
    /\ begin' = "rejected"
    /\ answer' = "none"
    /\ UNCHANGED <<at, opening, lost, serverVars, opVars>>

\* The endpoint answers with the location, and the client is created.
BeginSucceeds ==
    /\ begin = "sent"
    /\ answer = "ok"
    /\ begin' = "resolved"
    /\ active' = TRUE
    /\ answer' = "none"
    /\ UNCHANGED <<at, opening, lost, serverVars, pc, wire, reply, reason,
                   refusals, earlier>>

\* No location header, or an error that is not retried.
BeginFails ==
    /\ begin = "sent"
    /\ answer \in {"noLocation", "failure"}
    /\ begin' = "rejected"
    /\ answer' = "none"
    /\ lost' = IF answer = "noLocation" THEN lost \cup {at} ELSE lost
    /\ UNCHANGED <<at, opening, serverVars, opVars>>

\* The re-login after a 401, with the configuration of the repository client.
BeginUnauthorized ==
    /\ begin = "sent"
    /\ answer = "unauthorized"
    /\ answer' = "none"
    /\ \/ ParentKeepAlive /\ BeginAt(at)
       \/ ~ParentKeepAlive /\ begin' = "rejected" /\ UNCHANGED <<at, opening>>
    /\ UNCHANGED <<lost, serverVars, opVars>>

BeginBusy ==
    /\ begin = "sent"
    /\ answer = "unavailable"
    /\ answer' = "none"
    /\ BeginNext
    /\ UNCHANGED <<lost, serverVars, opVars>>

BeginTimesOut ==
    /\ begin = "sent"
    /\ answer' = "none"
    /\ lost' = lost \cup {at}
    /\ BeginNext
    /\ UNCHANGED <<serverVars, opVars>>

\* External: an endpoint starts a transaction, or refuses to.
ServeBegin(e) ==
    /\ e \in opening
    /\ opening' = opening \ {e}
    /\ \E a \in BeginAnswers :
          /\ a = "unauthorized" => refusals < MaxRefusals
          /\ refusals' = IF a = "unauthorized" THEN refusals + 1 ELSE refusals
          /\ tx' = IF a \in {"ok", "noLocation"}
                     THEN [tx EXCEPT ![e] = "open"] ELSE tx
          /\ answer' = IF begin = "sent" /\ at = e THEN a ELSE answer
    /\ UNCHANGED <<begin, at, lost, staged, active, pc, wire, reply, reason,
                   earlier>>

----------------------------------------------------------------------------
(* The transactional client                                                *)

\* getTransactionalClientConfig makes a new configuration: its only endpoint
\* is the location, and keepAlive, which it does not copy, has its default.
Location == at
KeepAlive == TRUE

\* Slip: the active flag is not looked at.
CallUnchecked(o) ==
    /\ begin = "resolved"
    /\ pc[o] = "idle"
    /\ pc' = [pc EXCEPT ![o] = "login"]
    /\ earlier' = [earlier EXCEPT ![o] = {w \in Writes : pc[w] = "resolved"}]
    /\ UNCHANGED <<beginVars, serverVars, active, wire, reply, reason,
                   refusals>>

\* An operation is called.  execute throws when the client is inactive;
\* otherwise the login comes first.
Call(o) ==
    /\ begin = "resolved"
    /\ pc[o] = "idle"
    /\ pc' = [pc EXCEPT ![o] = IF active THEN "login" ELSE "thrown"]
    /\ earlier' = [earlier EXCEPT ![o] = {w \in Writes : pc[w] = "resolved"}]
    /\ UNCHANGED <<beginVars, serverVars, active, wire, reply, reason,
                   refusals>>

\* The callback of login sends the request; nobody looks at active again.
Send(o) ==
    /\ pc[o] = "login"
    /\ pc' = [pc EXCEPT ![o] = "sent"]
    /\ wire' = wire \cup {o}
    /\ UNCHANGED <<beginVars, serverVars, active, reply, reason, refusals,
                   earlier>>

\* Slip: no catch handler, only a success deactivates the client.
SettleOnSuccess(o, place, why) ==
    /\ pc' = [pc EXCEPT ![o] = place]
    /\ reason' = [reason EXCEPT ![o] = why]
    /\ active' = (active /\ ~(o \in Ends /\ place = "resolved"))

\* How a promise settles: commit and rollback deactivate the client, both in
\* their then and in their catch handler.
Settle(o, place, why) ==
    /\ pc' = [pc EXCEPT ![o] = place]
    /\ reason' = [reason EXCEPT ![o] = why]
    /\ active' = (active /\ o \notin Ends)

LoginFails(o) ==
    /\ pc[o] = "login"
    /\ Settle(o, "rejected", "login")
    /\ UNCHANGED <<beginVars, serverVars, wire, reply, refusals, earlier>>

\* Slip: the only endpoint is tried again when it gave no answer.
HandleErrorRepeats(o, error) ==
    \/ /\ error \in {"unauthorized", "noResponse"}
       /\ pc' = [pc EXCEPT ![o] = "login"]
       /\ UNCHANGED <<active, reason>>
    \/ error = "failure" /\ Settle(o, "rejected", error)

\* The catch handler of execute: with one endpoint only a 401 is retried.
HandleError(o, error) ==
    \/ /\ error = "unauthorized" /\ KeepAlive
       /\ pc' = [pc EXCEPT ![o] = "login"]
       /\ UNCHANGED <<active, reason>>
    \/ /\ ~(error = "unauthorized" /\ KeepAlive)
       /\ Settle(o, "rejected", error)

\* Slip: every answer but a 401 counts as a success.
ReceiveLenient(o) ==
    /\ pc[o] = "sent"
    /\ reply[o] # "none"
    /\ reply' = [reply EXCEPT ![o] = "none"]
    /\ \/ reply[o] # "unauthorized" /\ Settle(o, "resolved", "none")
       \/ reply[o] = "unauthorized" /\ HandleError(o, reply[o])
    /\ UNCHANGED <<beginVars, serverVars, wire, refusals, earlier>>

Receive(o) ==
    /\ pc[o] = "sent"
    /\ reply[o] # "none"
    /\ reply' = [reply EXCEPT ![o] = "none"]
    /\ \/ reply[o] = "ok" /\ Settle(o, "resolved", "none")
       \/ reply[o] # "ok" /\ HandleError(o, reply[o])
    /\ UNCHANGED <<beginVars, serverVars, wire, refusals, earlier>>

\* No answer in time: the request stays on the wire, or never got there.
Timeout(o) ==
    /\ pc[o] = "sent"
    /\ HandleError(o, "noResponse")
    /\ reply' = [reply EXCEPT ![o] = "none"]
    /\ wire' \in {wire, wire \ {o}}
    /\ UNCHANGED <<beginVars, serverVars, refusals, earlier>>

----------------------------------------------------------------------------
(* External: the endpoint of the transaction                               *)

Reply(o, a) ==
    reply' = IF pc[o] = "sent" THEN [reply EXCEPT ![o] = a] ELSE reply

\* An operation is carried out in an open transaction and fails in any other.
Carry(o) ==
    /\ tx[Location] = "open"
    /\ staged' = IF o \in Writes
                   THEN [staged EXCEPT ![Location] = @ \cup {o}] ELSE staged
    /\ tx' = CASE o \in Commits -> [tx EXCEPT ![Location] = "committed"]
               [] o \in Rollbacks -> [tx EXCEPT ![Location] = "rolledBack"]
               [] OTHER -> tx
    /\ Reply(o, "ok")
    /\ UNCHANGED refusals

Serve(o) ==
    /\ o \in wire
    /\ wire' = wire \ {o}
    /\ \/ Carry(o)
       \/ Reply(o, "failure") /\ UNCHANGED <<serverVars, refusals>>
       \/ /\ refusals < MaxRefusals
          /\ refusals' = refusals + 1
          /\ Reply(o, "unauthorized")
          /\ UNCHANGED serverVars
    /\ UNCHANGED <<beginVars, active, pc, reason, earlier>>

----------------------------------------------------------------------------
BeginStep ==
    \/ BeginSucceeds
    \/ BeginFails
    \/ BeginUnauthorized
    \/ BeginBusy
    \/ BeginTimesOut

OpStep(o) == Send(o) \/ LoginFails(o) \/ Receive(o) \/ Timeout(o)

\* Nobody needs to move any more.
Quiet ==
    /\ begin = "rejected" \/ \A o \in Ops : pc[o] \in Settled
    /\ UNCHANGED vars

Next ==
    \/ Begin
    \/ BeginStep
    \/ \E e \in Endpoints : ServeBegin(e)
    \/ \E o \in Ops : Call(o) \/ OpStep(o) \/ Serve(o)
    \/ Quiet

Spec == Init /\ [][Next]_vars

\* Promise callbacks run, and requests are answered or time out.
FairSpec ==
    /\ Spec
    /\ WF_vars(BeginStep)
    /\ \A o \in Ops : WF_vars(OpStep(o))

----------------------------------------------------------------------------
(* Properties                                                              *)

\* A commit that resolves has committed every write that resolved before it
\* was called, in one transaction, although writes and ends may overlap and
\* the begin request may have reached several endpoints.
CommitKeepsResolvedWrites ==
    \A o \in Commits :
        pc[o] = "resolved" => /\ tx[Location] = "committed"
                              /\ earlier[o] \subseteq staged[Location]

\* An operation rejected with the status of an answer had no effect: it is
\* never repeated after its answer was lost.
FailureMeansNoEffect ==
    \A w \in Writes : reason[w] = "failure" => w \notin staged[Location]

\* A transaction ends one way: no commit and rollback, and no two commits,
\* are both told that they succeeded, also when the calls overlap.
OneEndSucceeds ==
    \A o, p \in Ends : pc[o] = "resolved" /\ pc[p] = "resolved" => o = p

\* A transaction that is open on the server can be committed or rolled back by an
\* active client, or is about to have one.  Otherwise it is stranded, and that has
\* one of two reasons: the answer to its begin request was lost or had no location,
\* or a commit or rollback was rejected, which deactivates the client whether or not
\* the transaction has ended.
StrandedOnlyAfterFailure ==
    \A e \in Endpoints :
        tx[e] = "open" =>
            \/ e \in lost
            \/ e = at /\ begin = "sent" /\ answer \in {"ok", "noLocation"}
            \/ e = at /\ begin = "resolved" /\ active
            \/ e = at /\ begin = "resolved" /\ \E o \in Ends : pc[o] = "rejected"

\* An inactive client stays inactive and accepts no call.
InactiveForGood ==
    [][begin = "resolved" /\ ~active =>
          /\ ~active'
          /\ \A o \in Ops : pc[o] = "idle" => pc'[o] \in {"idle", "thrown"}]_vars

\* "This effectively makes the transaction inactive": a commit or rollback
\* that is called deactivates the client in the end, also when it fails.
EndDeactivates ==
    \A o \in Ends : pc[o] = "login" ~> ~active

\* The re-login after a 401 "can be changed if the [...]
\* RepositoryClientConfig are configured with keepAlive=false".
NoReloginWithoutKeepAlive ==
    [][\A o \in Ops :
          ~ParentKeepAlive /\ pc[o] = "sent" => pc'[o] # "login"]_vars
=============================================================================
