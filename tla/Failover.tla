------------------------------ MODULE Failover ------------------------------
(***************************************************************************)
(* What BaseRepositoryClient.execute promises to its callers, with logins, *)
(* tokens, messages and timeouts left out.  A call walks the configured    *)
(* endpoints in order.  An endpoint that has been reached may carry the    *)
(* request out, at most once, and may do so after the call has settled (an *)
(* answer can be given up on).  A call resolves only when the endpoint it  *)
(* has reached last carried the request out.                               *)
(***************************************************************************)
EXTENDS Integers

CONSTANTS
    Calls,   \* API calls made on one client
    N        \* number of configured endpoints, at least one, in the order tried

VARIABLES
    status,   \* "new", "running", "resolved" or "rejected", per call
    reached,  \* the last endpoint the call was sent to, 0 before the first
    effects   \* how many times each endpoint carried the call out

vars == <<status, reached, effects>>

Endpoints == 1 .. N

TypeOK ==
    /\ status \in [Calls -> {"new", "running", "resolved", "rejected"}]
    /\ reached \in [Calls -> 0 .. N]
    /\ effects \in [Calls -> [Endpoints -> Nat]]

Init ==
    /\ status = [c \in Calls |-> "new"]
    /\ reached = [c \in Calls |-> 0]
    /\ effects = [c \in Calls |-> [e \in Endpoints |-> 0]]

Start(c) ==
    /\ status[c] = "new"
    /\ status' = [status EXCEPT ![c] = "running"]
    /\ reached' = [reached EXCEPT ![c] = 1]
    /\ UNCHANGED effects

\* The next endpoint is tried.
Advance(c) ==
    /\ status[c] = "running"
    /\ reached[c] < N
    /\ reached' = [reached EXCEPT ![c] = @ + 1]
    /\ UNCHANGED <<status, effects>>

\* Endpoint e carries the request out, for the first and only time.
TakeEffect(c, e) ==
    /\ e <= reached[c]
    /\ effects[c][e] = 0
    /\ effects' = [effects EXCEPT ![c][e] = 1]
    /\ UNCHANGED <<status, reached>>

Resolve(c) ==
    /\ status[c] = "running"
    /\ effects[c][reached[c]] = 1
    /\ status' = [status EXCEPT ![c] = "resolved"]
    /\ UNCHANGED <<reached, effects>>

Reject(c) ==
    /\ status[c] = "running"
    /\ status' = [status EXCEPT ![c] = "rejected"]
    /\ UNCHANGED <<reached, effects>>

Next ==
    \E c \in Calls :
        \/ Start(c)
        \/ Advance(c)
        \/ \E e \in Endpoints : TakeEffect(c, e)
        \/ Resolve(c)
        \/ Reject(c)

Spec == Init /\ [][Next]_vars
=============================================================================
