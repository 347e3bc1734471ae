-------------------------- MODULE Transaction_proofs --------------------------
(***************************************************************************)
(* The safety of Transaction, proved for every set of writes, commits and  *)
(* rollbacks, any number of endpoints and any number of expired tokens.    *)
(***************************************************************************)
EXTENDS Transaction, TLAPS

\* The begin request: only the current endpoint can answer it, and endpoints given up
\* without an answer are behind the current one.
BeginInv ==
    /\ begin = "idle" => opening = {} /\ lost = {} /\ answer = "none"
    /\ begin \in {"sent", "resolved"} =>
         /\ at \in Endpoints
         /\ \A e \in lost : e < at
    /\ \A e \in opening : e \in lost \/ (e = at /\ begin = "sent" /\ answer = "none")
    /\ answer # "none" => begin = "sent"

\* Where a transaction comes from: the begin request that is being answered, or was answered,
\* or whose answer was lost.
OriginInv ==
    \A e \in Endpoints : tx[e] # "none" =>
        \/ e \in lost
        \/ e = at /\ begin = "resolved"
        \/ e = at /\ begin = "sent" /\ answer \in {"ok", "noLocation"}

\* Which variables of an operation are in use at each of its places.  A request on the wire
\* is waited for, or was given up for good.
Shape ==
    /\ begin # "resolved" => ~active /\ wire = {} /\ \A o \in Ops : pc[o] = "idle"
    /\ \A o \in Ops :
         /\ reply[o] # "none" => pc[o] = "sent" /\ o \notin wire
         /\ reason[o] # "none" => pc[o] = "rejected"
         /\ o \in wire => \/ pc[o] = "sent"
                          \/ pc[o] = "rejected" /\ reason[o] = "noResponse"

\* The endpoint carried the operation out, and the client knows or is being told.
Confirmed(o) == reply[o] = "ok" \/ pc[o] = "resolved"

\* A write is in the transaction if it is confirmed, and otherwise only if its answer was lost.
WriteInv ==
    \A w \in Writes :
        /\ Confirmed(w) => w \in staged[Location]
        /\ \A e \in Endpoints : w \in staged[e] =>
              /\ begin = "resolved" /\ e = Location
              /\ Confirmed(w) \/ (pc[w] = "rejected" /\ reason[w] = "noResponse")

\* A write that was resolved when an operation was called is still in the transaction.
EarlierInv ==
    \A o \in Ops : pc[o] # "idle" => earlier[o] \subseteq staged[Location]

\* The confirmed end, if there is one, is how the transaction ended.
EndInv ==
    /\ \A o \in Commits : Confirmed(o) => tx[Location] = "committed"
    /\ \A o \in Rollbacks : Confirmed(o) => tx[Location] = "rolledBack"
    /\ \A o, p \in Ends : Confirmed(o) /\ Confirmed(p) => o = p

\* Only a commit or rollback that settles deactivates the client.
ActiveInv ==
    begin = "resolved" /\ ~active => \E o \in Ends : pc[o] \in {"resolved", "rejected"}

IInv ==
    /\ TypeOK
    /\ BeginInv
    /\ OriginInv
    /\ Shape
    /\ WriteInv
    /\ EarlierInv
    /\ EndInv
    /\ ActiveInv

----------------------------------------------------------------------------
(* Initial states and the begin request                                    *)

LEMMA InitHolds == Init => IInv
<1> SUFFICES ASSUME Init PROVE IInv
  OBVIOUS
<1> USE TransactionAssumption DEF Init
<1>1. TypeOK
  <2>1. at \in 0 .. N /\ refusals \in 0 .. MaxRefusals
    OBVIOUS
  <2>2. /\ tx \in [Endpoints -> {"none", "open", "committed", "rolledBack"}]
        /\ staged \in [Endpoints -> SUBSET Writes]
    OBVIOUS
  <2>3. /\ pc \in [Ops -> Places]
        /\ reply \in [Ops -> {"none", "ok", "unauthorized", "failure"}]
        /\ reason \in [Ops -> {"none", "login"} \cup Errors]
        /\ earlier \in [Ops -> SUBSET Writes]
    BY DEF Places
  <2> QED BY <2>1, <2>2, <2>3 DEF TypeOK
<1>2. BeginInv /\ OriginInv /\ Shape /\ ActiveInv
  BY DEF BeginInv, OriginInv, Shape, ActiveInv, Endpoints
<1>3. WriteInv /\ EarlierInv /\ EndInv
  BY DEF WriteInv, EarlierInv, EndInv, Confirmed, Ops, Ends
<1> QED BY <1>1, <1>2, <1>3 DEF IInv

\* As long as there is no transactional client, nothing is in a transaction.
LEMMA NothingBefore ==
    ASSUME IInv, begin # "resolved", UNCHANGED <<pc, reply, staged>>
    PROVE  WriteInv' /\ EarlierInv' /\ EndInv'
<1>1. \A o \in Ops : pc[o] = "idle" /\ ~Confirmed(o)
  BY DEF IInv, Shape, Confirmed
<1>2. \A o \in Ops : pc'[o] = "idle" /\ ~Confirmed(o)'
  BY <1>1 DEF Confirmed
<1>3. WriteInv'
  <2>1. \A w \in Writes, e \in Endpoints : w \notin staged'[e]
    BY DEF IInv, WriteInv
  <2> QED BY <1>2, <2>1 DEF WriteInv, Ops
<1>4. EarlierInv'
  BY <1>2 DEF EarlierInv
<1>5. EndInv'
  BY <1>2 DEF EndInv, Ops, Ends
<1> QED BY <1>3, <1>4, <1>5

\* The types of what a begin request changes.
LEMMA BeginAtTypes ==
    ASSUME TypeOK, NEW e \in Endpoints, BeginAt(e)
    PROVE  /\ begin' \in {"sent", "rejected"}
           /\ at' \in 0 .. N
           /\ opening' \subseteq Endpoints
<1>1. CASE begin' = "rejected" /\ UNCHANGED <<at, opening>>
  BY <1>1 DEF TypeOK
<1>2. CASE begin' = "sent" /\ at' = e /\ opening' = opening \cup {e}
  BY <1>2, TransactionAssumption DEF TypeOK, Endpoints
<1> QED BY <1>1, <1>2 DEF BeginAt

LEMMA BeginPreserves == IInv /\ Begin => IInv'
<1> SUFFICES ASSUME IInv, Begin PROVE IInv'
  OBVIOUS
<1> USE TransactionAssumption
<1>1. /\ begin = "idle" /\ opening = {} /\ lost = {} /\ answer = "none"
      /\ BeginAt(1)
      /\ UNCHANGED <<answer, lost, serverVars, opVars>>
  BY DEF Begin, IInv, BeginInv
<1>2. 1 \in Endpoints
  BY DEF Endpoints
<1>3. TypeOK'
  BY <1>1, <1>2, BeginAtTypes DEF IInv, TypeOK, serverVars, opVars
<1>4. BeginInv'
  BY <1>1, <1>2 DEF BeginInv, BeginAt
<1>5. OriginInv'
  BY <1>1 DEF IInv, OriginInv, serverVars
<1>6. Shape'
  BY <1>1, BeginAtTypes, <1>2 DEF IInv, Shape, opVars
<1>7. ActiveInv'
  BY <1>1 DEF ActiveInv, BeginAt
<1> QED BY <1>1, <1>3, <1>4, <1>5, <1>6, <1>7, NothingBefore DEF IInv, serverVars, opVars

LEMMA BeginSucceedsPreserves == IInv /\ BeginSucceeds => IInv'
<1> SUFFICES ASSUME IInv, BeginSucceeds PROVE IInv'
  OBVIOUS
<1>1. TypeOK'
  BY DEF IInv, BeginSucceeds, TypeOK, serverVars
<1>2. BeginInv'
  BY DEF IInv, BeginInv, BeginSucceeds
<1>3. OriginInv'
  BY DEF IInv, OriginInv, BeginSucceeds, serverVars
<1>4. Shape'
  BY DEF IInv, Shape, BeginSucceeds
<1>5. ActiveInv'
  BY DEF ActiveInv, BeginSucceeds
<1> QED BY <1>1, <1>2, <1>3, <1>4, <1>5, NothingBefore DEF IInv, BeginSucceeds, serverVars

\* What the steps after an answer to begin, or after its loss, have in common: the endpoint is
\* given up unless its transaction cannot exist.
LEMMA BeginMovesPreserves ==
    ASSUME IInv, begin = "sent", answer' = "none", UNCHANGED <<serverVars, opVars>>,
           \/ begin' = "rejected" /\ UNCHANGED <<at, opening>>
           \/ BeginAt(at) /\ lost' = lost /\ answer # "none"
           \/ at < N /\ BeginAt(at + 1),
           \/ lost' = lost \cup {at}
           \/ lost' = lost /\ answer \in {"failure", "unavailable", "unauthorized"}
    PROVE  IInv'
<1> USE TransactionAssumption
<1>1. /\ at \in Endpoints
      /\ \A e \in lost : e < at
      /\ lost \subseteq Endpoints
  BY DEF IInv, BeginInv, TypeOK
<1>2. at < N => at + 1 \in Endpoints
  BY <1>1 DEF Endpoints
<1>3. /\ begin' \in {"sent", "rejected"}
      /\ at' \in 0 .. N
      /\ opening' \subseteq Endpoints
  BY <1>1, <1>2, BeginAtTypes DEF IInv, TypeOK
<1>4. TypeOK'
  BY <1>1, <1>3 DEF IInv, TypeOK, serverVars, opVars, BeginAnswers
<1>5. BeginInv'
  <2>1. CASE begin' = "rejected" /\ UNCHANGED <<at, opening>>
    BY <1>1, <2>1 DEF IInv, BeginInv
  <2>2. CASE BeginAt(at) /\ lost' = lost /\ answer # "none"
    BY <1>1, <2>2 DEF IInv, BeginInv, BeginAt
  <2>3. CASE at < N /\ BeginAt(at + 1)
    <3>1. begin' # "idle" /\ begin' # "resolved" /\ lost \subseteq lost' /\ at < at + 1
      BY <1>1, <1>3 DEF Endpoints
    <3>2. \A e \in opening : e \in lost'
      BY DEF IInv, BeginInv
    <3>3. \A e \in lost' : e < at + 1
      <4>1. \A e \in lost : e \in Int /\ e < at
        BY <1>1 DEF Endpoints
      <4>2. at \in Int /\ lost' \subseteq lost \cup {at}
        BY <1>1 DEF Endpoints
      <4> QED BY <4>1, <4>2
    <3>4. CASE begin' = "rejected" /\ UNCHANGED <<at, opening>>
      BY <3>1, <3>2, <3>4 DEF BeginInv
    <3>5. CASE begin' = "sent" /\ at' = at + 1 /\ opening' = opening \cup {at + 1}
      BY <1>2, <2>3, <3>2, <3>3, <3>5 DEF BeginInv
    <3> QED BY <2>3, <3>4, <3>5 DEF BeginAt
  <2> QED BY <2>1, <2>2, <2>3
<1>6. OriginInv'
  BY <1>1 DEF IInv, OriginInv, serverVars
<1>7. Shape'
  BY <1>3 DEF IInv, Shape, opVars
<1>8. ActiveInv'
  BY <1>3 DEF ActiveInv
<1> QED BY <1>4, <1>5, <1>6, <1>7, <1>8, NothingBefore DEF IInv, serverVars, opVars

LEMMA BeginStepPreserves == IInv /\ BeginStep => IInv'
<1> SUFFICES ASSUME IInv, BeginStep PROVE IInv'
  OBVIOUS
<1>1. CASE BeginSucceeds
  BY <1>1, BeginSucceedsPreserves
<1>2. CASE BeginFails
  BY <1>2, BeginMovesPreserves DEF BeginFails
<1>3. CASE BeginUnauthorized
  BY <1>3, BeginMovesPreserves DEF BeginUnauthorized
<1>4. CASE BeginBusy
  BY <1>4, BeginMovesPreserves DEF BeginBusy, BeginNext
<1>5. CASE BeginTimesOut
  BY <1>5, BeginMovesPreserves DEF BeginTimesOut, BeginNext
<1> QED BY <1>1, <1>2, <1>3, <1>4, <1>5 DEF BeginStep

LEMMA ServeBeginPreserves == ASSUME NEW e \in Endpoints PROVE IInv /\ ServeBegin(e) => IInv'
<1> SUFFICES ASSUME IInv, ServeBegin(e) PROVE IInv'
  OBVIOUS
<1> USE TransactionAssumption
<1>1. PICK a \in BeginAnswers :
         /\ a = "unauthorized" => refusals < MaxRefusals
         /\ refusals' = IF a = "unauthorized" THEN refusals + 1 ELSE refusals
         /\ tx' = IF a \in {"ok", "noLocation"} THEN [tx EXCEPT ![e] = "open"] ELSE tx
         /\ answer' = IF begin = "sent" /\ at = e THEN a ELSE answer
  BY DEF ServeBegin
<1>2. /\ e \in opening /\ opening' = opening \ {e}
      /\ UNCHANGED <<begin, at, lost, staged, active, pc, wire, reply, reason, earlier>>
  BY DEF ServeBegin
<1>3. e \in lost \/ (e = at /\ begin = "sent" /\ answer = "none")
  BY <1>2 DEF IInv, BeginInv
<1>4. TypeOK'
  <2>1. refusals' \in 0 .. MaxRefusals
    BY <1>1 DEF IInv, TypeOK
  <2>2. tx' \in [Endpoints -> {"none", "open", "committed", "rolledBack"}]
    BY <1>1 DEF IInv, TypeOK
  <2>3. answer' \in {"none"} \cup BeginAnswers
    BY <1>1 DEF IInv, TypeOK
  <2> QED BY <1>2, <2>1, <2>2, <2>3 DEF IInv, TypeOK
<1>5. BeginInv'
  BY <1>1, <1>2, <1>3 DEF IInv, BeginInv
<1>6. OriginInv'
  BY <1>1, <1>2, <1>3 DEF IInv, OriginInv, BeginInv, TypeOK
<1>7. Shape'
  BY <1>2 DEF IInv, Shape
<1>8. WriteInv' /\ EarlierInv'
  BY <1>2 DEF IInv, WriteInv, EarlierInv, Confirmed, Location
<1>9. EndInv'
  <2>1. CASE begin = "resolved"
    <3>1. tx'[at] = tx[at]
      BY <1>1, <1>3, <2>1 DEF IInv, BeginInv, TypeOK, Endpoints
    <3> QED BY <1>2, <3>1 DEF IInv, EndInv, Confirmed, Location
  <2>2. CASE begin # "resolved"
    BY <1>2, <2>2, NothingBefore
  <2> QED BY <2>1, <2>2
<1>10. ActiveInv'
  BY <1>2 DEF IInv, ActiveInv
<1> QED BY <1>4, <1>5, <1>6, <1>7, <1>8, <1>9, <1>10 DEF IInv

----------------------------------------------------------------------------
(* The operations of the transactional client                              *)

\* Without the endpoint an operation o only moves from one of its places to another: requests
\* of others and transactions stay as they are.
Moves(o, place, r, why) ==
    /\ begin = "resolved"
    /\ UNCHANGED <<beginVars, serverVars, refusals, earlier>>
    /\ pc' = [pc EXCEPT ![o] = place]
    /\ reply' = [reply EXCEPT ![o] = r]
    /\ reason' = [reason EXCEPT ![o] = why]
    /\ active' \in BOOLEAN

\* A move preserves the invariant if a request on the wire is waited for or given up for good,
\* if what was confirmed is resolved or has its answer lost, and if only an end that settles
\* deactivates the client.
LEMMA MovesPreserve ==
    ASSUME IInv, NEW o \in Ops, pc[o] \in {"login", "sent"},
           NEW place \in Places \ {"idle"},
           NEW r \in {"none", "ok", "unauthorized", "failure"},
           NEW why \in {"none", "login"} \cup Errors,
           Moves(o, place, r, why),
           active' = active \/ (o \in Ends /\ place \in {"resolved", "rejected"}),
           wire' \subseteq Ops, \A p \in Ops : p # o => (p \in wire' <=> p \in wire),
           r = "none", reason[o] = "none",
           why # "none" => place = "rejected",
           o \in wire' => place = "sent" \/ (place = "rejected" /\ why = "noResponse"),
           place = "resolved" => Confirmed(o),
           Confirmed(o) => place = "resolved" \/ (place = "rejected" /\ why = "noResponse")
    PROVE  IInv'
<1>1. /\ pc' \in [Ops -> Places] /\ pc'[o] = place
      /\ reply' \in [Ops -> {"none", "ok", "unauthorized", "failure"}] /\ reply'[o] = "none"
      /\ reason' \in [Ops -> {"none", "login"} \cup Errors] /\ reason'[o] = why
  BY DEF IInv, TypeOK, Moves
<1>2. \A p \in Ops : p # o => /\ pc'[p] = pc[p]
                              /\ reply'[p] = reply[p]
                              /\ reason'[p] = reason[p]
  BY DEF IInv, TypeOK, Moves
<1>3. TypeOK'
  BY <1>1 DEF IInv, TypeOK, Moves, beginVars, serverVars
<1>4. BeginInv' /\ OriginInv'
  BY DEF IInv, BeginInv, OriginInv, Moves, beginVars, serverVars
<1>5. Shape'
  BY <1>1, <1>2 DEF IInv, Shape, Moves, beginVars
<1>6. \A p \in Ops : /\ p # o => (Confirmed(p)' <=> Confirmed(p))
                     /\ Confirmed(p)' => Confirmed(p)
  BY <1>1, <1>2 DEF Confirmed
<1>7. WriteInv'
  <2>1. UNCHANGED <<begin, Location, staged>>
    BY DEF Moves, beginVars, serverVars, Location
  <2>2. ASSUME NEW w \in Writes, Confirmed(w)' PROVE w \in staged'[Location']
    BY <1>6, <2>1, <2>2 DEF IInv, WriteInv, Ops
  <2>3. ASSUME NEW w \in Writes, NEW e \in Endpoints, w \in staged'[e]
        PROVE  /\ begin' = "resolved" /\ e = Location'
               /\ Confirmed(w)' \/ (pc'[w] = "rejected" /\ reason'[w] = "noResponse")
    <3>1. /\ begin = "resolved" /\ e = Location
          /\ Confirmed(w) \/ (pc[w] = "rejected" /\ reason[w] = "noResponse")
      BY <2>1, <2>3 DEF IInv, WriteInv
    <3>2. CASE w = o
      BY <1>1, <2>1, <3>1, <3>2 DEF Confirmed
    <3>3. CASE w # o
      BY <1>2, <1>6, <2>1, <3>1, <3>3 DEF Ops
    <3> QED BY <3>2, <3>3
  <2> QED BY <2>2, <2>3 DEF WriteInv
<1>8. EarlierInv'
  BY <1>2 DEF IInv, EarlierInv, Moves, beginVars, serverVars, Location
<1>9. EndInv'
  BY <1>6 DEF IInv, EndInv, Moves, beginVars, serverVars, Location, Ops, Ends
<1>10. ActiveInv'
  <2>1. CASE o \in Ends /\ place \in {"resolved", "rejected"}
    BY <1>1, <2>1 DEF ActiveInv
  <2>2. CASE active' = active
    BY <1>2, <2>2 DEF IInv, ActiveInv, Moves, beginVars, Ops, Ends
  <2> QED BY <2>1, <2>2
<1> QED BY <1>3, <1>4, <1>5, <1>7, <1>8, <1>9, <1>10 DEF IInv

LEMMA CallPreserves == ASSUME NEW o \in Ops PROVE IInv /\ Call(o) => IInv'
<1> SUFFICES ASSUME IInv, Call(o) PROVE IInv'
  OBVIOUS
<1>1. /\ begin = "resolved" /\ pc[o] = "idle"
      /\ pc' = [pc EXCEPT ![o] = IF active THEN "login" ELSE "thrown"]
      /\ earlier' = [earlier EXCEPT ![o] = {w \in Writes : pc[w] = "resolved"}]
      /\ UNCHANGED <<beginVars, serverVars, active, wire, reply, reason, refusals>>
  BY DEF Call
<1>2. /\ pc'[o] \in {"login", "thrown"}
      /\ \A p \in Ops : p # o => pc'[p] = pc[p]
  BY <1>1 DEF IInv, TypeOK
<1>3. TypeOK'
  BY <1>1 DEF IInv, TypeOK, Places, beginVars, serverVars
<1>4. BeginInv' /\ OriginInv'
  BY <1>1 DEF IInv, BeginInv, OriginInv, beginVars, serverVars
<1>5. Shape'
  BY <1>1, <1>2 DEF IInv, Shape, beginVars
<1>6. \A p \in Ops : Confirmed(p)' <=> Confirmed(p)
  BY <1>1, <1>2 DEF Confirmed
<1>7. WriteInv'
  BY <1>1, <1>2, <1>6 DEF IInv, WriteInv, Ops, beginVars, serverVars, Location
<1>8. EarlierInv'
  <2>1. {w \in Writes : pc[w] = "resolved"} \subseteq staged[Location]
    BY DEF IInv, WriteInv, Confirmed
  <2>2. /\ earlier'[o] = {w \in Writes : pc[w] = "resolved"}
        /\ \A p \in Ops : p # o => earlier'[p] = earlier[p]
    BY <1>1 DEF IInv, TypeOK
  <2>3. UNCHANGED <<Location, staged>>
    BY <1>1 DEF beginVars, serverVars, Location
  <2> QED BY <1>2, <2>1, <2>2, <2>3 DEF IInv, EarlierInv
<1>9. EndInv'
  BY <1>1, <1>6 DEF IInv, EndInv, Ops, Ends, beginVars, serverVars, Location
<1>10. ActiveInv'
  BY <1>1, <1>2 DEF IInv, ActiveInv, Ops, Ends, beginVars
<1> QED BY <1>3, <1>4, <1>5, <1>7, <1>8, <1>9, <1>10 DEF IInv

\* An operation that runs belongs to a client, and has not been rejected.
LEMMA Running ==
    ASSUME IInv, NEW o \in Ops, pc[o] \in {"login", "sent"}
    PROVE  /\ begin = "resolved"
           /\ reason[o] = "none"
           /\ pc[o] = "login" => reply[o] = "none" /\ o \notin wire
BY DEF IInv, Shape

\* A promise that settles deactivates the client if it is that of an end.
LEMMA Settling ==
    ASSUME IInv, NEW o \in Ops, NEW place, NEW why, Settle(o, place, why)
    PROVE  active' = active \/ o \in Ends
BY DEF Settle, IInv, TypeOK

LEMMA SendPreserves == ASSUME NEW o \in Ops PROVE IInv /\ Send(o) => IInv'
<1> SUFFICES ASSUME IInv, Send(o) PROVE IInv'
  OBVIOUS
<1>1. /\ pc[o] = "login" /\ begin = "resolved"
      /\ reason[o] = "none" /\ reply[o] = "none" /\ o \notin wire
  BY Running DEF Send
<1>2. Moves(o, "sent", "none", "none")
  BY <1>1 DEF Send, Moves, IInv, TypeOK
<1>3. wire' = wire \cup {o} /\ wire \subseteq Ops
  BY DEF Send, IInv, TypeOK
<1>4. ~Confirmed(o) /\ active' = active
  BY <1>1 DEF Confirmed, Send
<1> QED BY <1>1, <1>2, <1>3, <1>4, MovesPreserve DEF Places

LEMMA LoginFailsPreserves == ASSUME NEW o \in Ops PROVE IInv /\ LoginFails(o) => IInv'
<1> SUFFICES ASSUME IInv, LoginFails(o) PROVE IInv'
  OBVIOUS
<1>1. /\ pc[o] = "login" /\ begin = "resolved"
      /\ reason[o] = "none" /\ reply[o] = "none" /\ o \notin wire
  BY Running DEF LoginFails
<1>2. Moves(o, "rejected", "none", "login")
  BY <1>1 DEF LoginFails, Settle, Moves, IInv, TypeOK
<1>3. wire' = wire /\ wire \subseteq Ops
  BY DEF LoginFails, IInv, TypeOK
<1>4. ~Confirmed(o)
  BY <1>1 DEF Confirmed
<1>5. active' = active \/ o \in Ends
  BY Settling DEF LoginFails
<1> QED BY <1>1, <1>2, <1>3, <1>4, <1>5, MovesPreserve DEF Places

LEMMA ReceivePreserves == ASSUME NEW o \in Ops PROVE IInv /\ Receive(o) => IInv'
<1> SUFFICES ASSUME IInv, Receive(o) PROVE IInv'
  OBVIOUS
<1>1. /\ pc[o] = "sent" /\ begin = "resolved" /\ reason[o] = "none"
      /\ reply[o] \in {"ok", "unauthorized", "failure"} /\ o \notin wire
  BY Running DEF Receive, IInv, Shape, TypeOK
<1>2. /\ wire' = wire /\ wire \subseteq Ops
      /\ reply' = [reply EXCEPT ![o] = "none"]
      /\ UNCHANGED <<beginVars, serverVars, refusals, earlier>>
  BY DEF Receive, IInv, TypeOK
<1>3. CASE reply[o] = "ok"
  <2>1. Settle(o, "resolved", "none")
    BY <1>3 DEF Receive
  <2>2. Moves(o, "resolved", "none", "none")
    BY <1>1, <1>2, <2>1 DEF Settle, Moves, IInv, TypeOK
  <2> QED BY <1>1, <1>2, <1>3, <2>1, <2>2, Settling, MovesPreserve DEF Places, Confirmed
<1>4. CASE reply[o] = "unauthorized"
  <2>1. pc' = [pc EXCEPT ![o] = "login"] /\ UNCHANGED <<active, reason>>
    BY <1>4 DEF Receive, HandleError, KeepAlive
  <2>2. Moves(o, "login", "none", "none")
    BY <1>1, <1>2, <2>1 DEF Moves, IInv, TypeOK
  <2> QED BY <1>1, <1>2, <1>4, <2>1, <2>2, MovesPreserve DEF Places, Confirmed
<1>5. CASE reply[o] = "failure"
  <2>1. Settle(o, "rejected", "failure")
    BY <1>5 DEF Receive, HandleError
  <2>2. Moves(o, "rejected", "none", "failure")
    BY <1>1, <1>2, <2>1 DEF Settle, Moves, IInv, TypeOK
  <2> QED BY <1>1, <1>2, <1>5, <2>1, <2>2, Settling, MovesPreserve DEF Places, Confirmed, Errors
<1> QED BY <1>1, <1>3, <1>4, <1>5

LEMMA TimeoutPreserves == ASSUME NEW o \in Ops PROVE IInv /\ Timeout(o) => IInv'
<1> SUFFICES ASSUME IInv, Timeout(o) PROVE IInv'
  OBVIOUS
<1>1. pc[o] = "sent" /\ begin = "resolved" /\ reason[o] = "none"
  BY Running DEF Timeout
<1>2. /\ wire' \in {wire, wire \ {o}} /\ wire \subseteq Ops
      /\ Settle(o, "rejected", "noResponse")
  BY DEF Timeout, HandleError, IInv, TypeOK
<1>3. Moves(o, "rejected", "none", "noResponse")
  BY <1>1, <1>2 DEF Timeout, Settle, Moves, IInv, TypeOK
<1> QED BY <1>1, <1>2, <1>3, Settling, MovesPreserve DEF Places, Errors

----------------------------------------------------------------------------
(* The endpoint of the transaction                                         *)

\* A request on the wire has no answer yet, and its operation is not confirmed.
LEMMA OnTheWire ==
    ASSUME IInv, NEW o \in Ops, o \in wire
    PROVE  /\ begin = "resolved" /\ at \in Endpoints
           /\ ~Confirmed(o)
           /\ pc[o] = "sent" \/ (pc[o] = "rejected" /\ reason[o] = "noResponse")
BY DEF IInv, Shape, BeginInv, Confirmed

\* The operation is refused with answer a: nothing but its reply changes.
LEMMA RefusePreserves ==
    ASSUME IInv, NEW o \in Ops, o \in wire, wire' = wire \ {o},
           NEW a \in {"failure", "unauthorized"}, Reply(o, a),
           refusals' \in 0 .. MaxRefusals,
           UNCHANGED <<beginVars, serverVars, active, pc, reason, earlier>>
    PROVE  IInv'
<1>1. /\ reply' \in [Ops -> {"none", "ok", "unauthorized", "failure"}]
      /\ \A p \in Ops : \/ reply'[p] = reply[p]
                        \/ p = o /\ pc[p] = "sent" /\ reply'[p] = a
  BY DEF IInv, TypeOK, Reply
<1>2. \A p \in Ops : Confirmed(p)' <=> Confirmed(p)
  BY <1>1, OnTheWire DEF Confirmed
<1>3. TypeOK'
  BY <1>1 DEF IInv, TypeOK, beginVars, serverVars
<1>4. BeginInv' /\ OriginInv'
  BY DEF IInv, BeginInv, OriginInv, beginVars, serverVars
<1>5. Shape'
  BY <1>1 DEF IInv, Shape, beginVars
<1>6. WriteInv' /\ EarlierInv' /\ EndInv'
  BY <1>2 DEF IInv, WriteInv, EarlierInv, EndInv, Ops, Ends, beginVars, serverVars, Location
<1>7. ActiveInv'
  BY DEF IInv, ActiveInv, beginVars
<1> QED BY <1>3, <1>4, <1>5, <1>6, <1>7 DEF IInv

\* What a request does to the transaction, if it is carried out.
LEMMA EffectOfCarry ==
    ASSUME IInv, NEW o \in Ops, o \in wire, Carry(o)
    PROVE  /\ tx[Location] = "open"
           /\ tx' \in [Endpoints -> {"none", "open", "committed", "rolledBack"}]
           /\ \A e \in Endpoints : e # Location => tx'[e] = tx[e]
           /\ o \in Commits => tx'[Location] = "committed"
           /\ o \in Rollbacks => tx'[Location] = "rolledBack"
           /\ staged' \in [Endpoints -> SUBSET Writes]
           /\ \A e \in Endpoints : staged[e] \subseteq staged'[e]
           /\ \A e \in Endpoints : staged'[e] # staged[e] =>
                 e = Location /\ o \in Writes /\ staged'[e] = staged[e] \cup {o}
           /\ o \in Writes => o \in staged'[Location]
<1>1. Location \in Endpoints
  BY OnTheWire DEF Location
<1>2. /\ tx' \in [Endpoints -> {"none", "open", "committed", "rolledBack"}]
      /\ \A e \in Endpoints : e # Location => tx'[e] = tx[e]
      /\ o \in Commits => tx'[Location] = "committed"
      /\ o \in Rollbacks => tx'[Location] = "rolledBack"
  <2>1. CASE o \in Commits
    BY <1>1, <2>1, TransactionAssumption DEF Carry, IInv, TypeOK
  <2>2. CASE o \in Rollbacks
    BY <1>1, <2>2, TransactionAssumption DEF Carry, IInv, TypeOK
  <2>3. CASE o \notin Commits /\ o \notin Rollbacks
    BY <1>1, <2>3 DEF Carry, IInv, TypeOK
  <2> QED BY <2>1, <2>2, <2>3
<1>3. /\ staged' \in [Endpoints -> SUBSET Writes]
      /\ \A e \in Endpoints : staged[e] \subseteq staged'[e]
      /\ \A e \in Endpoints : staged'[e] # staged[e] =>
            e = Location /\ o \in Writes /\ staged'[e] = staged[e] \cup {o}
      /\ o \in Writes => o \in staged'[Location]
  BY <1>1 DEF Carry, IInv, TypeOK
<1> QED BY <1>2, <1>3 DEF Carry

LEMMA CarryPreserves ==
    ASSUME IInv, NEW o \in Ops, o \in wire, wire' = wire \ {o}, Carry(o),
           UNCHANGED <<beginVars, active, pc, reason, earlier>>
    PROVE  IInv'
<1>1. /\ begin = "resolved" /\ at \in Endpoints /\ Location' = Location /\ Location = at
      /\ ~Confirmed(o)
      /\ pc[o] = "sent" \/ (pc[o] = "rejected" /\ reason[o] = "noResponse")
  BY OnTheWire DEF Location, beginVars
<1>2. /\ reply' \in [Ops -> {"none", "ok", "unauthorized", "failure"}]
      /\ \A p \in Ops : \/ reply'[p] = reply[p]
                        \/ p = o /\ pc[p] = "sent" /\ reply'[p] = "ok"
      /\ pc[o] = "sent" => reply'[o] = "ok"
  BY DEF IInv, TypeOK, Carry, Reply
<1>3. \A p \in Ops : /\ p # o => (Confirmed(p)' <=> Confirmed(p))
                     /\ Confirmed(p) => Confirmed(p)'
  BY <1>1, <1>2 DEF Confirmed
<1>4. TypeOK'
  BY <1>2, EffectOfCarry DEF IInv, TypeOK, beginVars, Carry
<1>5. BeginInv'
  BY DEF IInv, BeginInv, beginVars
<1>6. OriginInv'
  BY <1>1, EffectOfCarry DEF IInv, OriginInv, beginVars
<1>7. Shape'
  BY <1>1, <1>2 DEF IInv, Shape, beginVars
<1>8. WriteInv'
  <2>1. ASSUME NEW w \in Writes, Confirmed(w)' PROVE w \in staged'[Location']
    BY <1>1, <1>3, <2>1, EffectOfCarry DEF IInv, WriteInv, Ops
  <2>2. ASSUME NEW w \in Writes, NEW e \in Endpoints, w \in staged'[e]
        PROVE  /\ begin' = "resolved" /\ e = Location'
               /\ Confirmed(w)' \/ (pc'[w] = "rejected" /\ reason'[w] = "noResponse")
    <3>1. CASE w \in staged[e]
      BY <1>1, <1>3, <3>1 DEF IInv, WriteInv, Ops, beginVars
    <3>2. CASE w \notin staged[e]
      <4>1. w = o /\ e = Location
        BY <2>2, <3>2, EffectOfCarry
      <4> QED BY <1>1, <1>2, <4>1 DEF Confirmed, beginVars
    <3> QED BY <3>1, <3>2
  <2> QED BY <2>1, <2>2 DEF WriteInv
<1>9. EarlierInv'
  BY <1>1, EffectOfCarry DEF IInv, EarlierInv
<1>10. EndInv'
  <2>1. \A p \in Ends : ~Confirmed(p)
    BY EffectOfCarry DEF IInv, EndInv, Ends
  <2>2. \A p \in Ends : Confirmed(p)' => p = o
    BY <1>3, <2>1 DEF Ends, Ops
  <2> QED BY <1>1, <2>2, EffectOfCarry DEF EndInv, Ends
<1>11. ActiveInv'
  BY DEF IInv, ActiveInv, beginVars
<1> QED BY <1>4, <1>5, <1>6, <1>7, <1>8, <1>9, <1>10, <1>11 DEF IInv

LEMMA ServePreserves == ASSUME NEW o \in Ops PROVE IInv /\ Serve(o) => IInv'
<1> SUFFICES ASSUME IInv, Serve(o) PROVE IInv'
  OBVIOUS
<1>1. /\ o \in wire /\ wire' = wire \ {o}
      /\ UNCHANGED <<beginVars, active, pc, reason, earlier>>
  BY DEF Serve
<1>2. CASE Carry(o)
  BY <1>1, <1>2, CarryPreserves
<1>3. CASE Reply(o, "failure") /\ UNCHANGED <<serverVars, refusals>>
  <2>1. refusals' \in 0 .. MaxRefusals
    BY <1>3 DEF IInv, TypeOK
  <2> QED BY <1>1, <1>3, <2>1, RefusePreserves
<1>4. CASE /\ refusals < MaxRefusals
           /\ refusals' = refusals + 1
           /\ Reply(o, "unauthorized")
           /\ UNCHANGED serverVars
  <2>1. refusals' \in 0 .. MaxRefusals
    BY <1>4, TransactionAssumption DEF IInv, TypeOK
  <2> QED BY <1>1, <1>4, <2>1, RefusePreserves
<1> QED BY <1>2, <1>3, <1>4 DEF Serve

----------------------------------------------------------------------------
(* Every step                                                              *)

LEMMA StutterPreserves == IInv /\ UNCHANGED vars => IInv'
<1> SUFFICES ASSUME IInv, UNCHANGED vars PROVE IInv'
  OBVIOUS
<1> USE DEF vars
<1>1. TypeOK'
  BY DEF IInv, TypeOK
<1>2. BeginInv' /\ OriginInv' /\ Shape'
  BY DEF IInv, BeginInv, OriginInv, Shape
<1>3. WriteInv' /\ EarlierInv' /\ EndInv' /\ ActiveInv'
  BY DEF IInv, WriteInv, EarlierInv, EndInv, ActiveInv, Confirmed, Location
<1> QED BY <1>1, <1>2, <1>3 DEF IInv

LEMMA NextPreserves == IInv /\ [Next]_vars => IInv'
<1> SUFFICES ASSUME IInv, [Next]_vars PROVE IInv'
  OBVIOUS
<1>1. CASE Begin
  BY <1>1, BeginPreserves
<1>2. CASE BeginStep
  BY <1>2, BeginStepPreserves
<1>3. CASE \E e \in Endpoints : ServeBegin(e)
  BY <1>3, ServeBeginPreserves
<1>4. ASSUME NEW o \in Ops, Call(o) \/ OpStep(o) \/ Serve(o) PROVE IInv'
  <2>1. CASE Call(o)
    BY <2>1, CallPreserves
  <2>2. CASE Send(o)
    BY <2>2, SendPreserves
  <2>3. CASE LoginFails(o)
    BY <2>3, LoginFailsPreserves
  <2>4. CASE Receive(o)
    BY <2>4, ReceivePreserves
  <2>5. CASE Timeout(o)
    BY <2>5, TimeoutPreserves
  <2>6. CASE Serve(o)
    BY <2>6, ServePreserves
  <2> QED BY <1>4, <2>1, <2>2, <2>3, <2>4, <2>5, <2>6 DEF OpStep
<1>5. CASE UNCHANGED vars
  BY <1>5, StutterPreserves
<1> QED BY <1>1, <1>2, <1>3, <1>4, <1>5 DEF Next, Quiet

----------------------------------------------------------------------------
(* Theorems                                                                *)

\* The inductive invariant, for every set of operations and any number of endpoints.
THEOREM Invariant == Spec => []IInv
BY InitHolds, NextPreserves, PTL DEF Spec

\* Every variable stays in its type.
THEOREM TypeCorrect == Spec => []TypeOK
<1>1. IInv => TypeOK
  BY DEF IInv
<1> QED BY <1>1, Invariant, PTL

\* A resolved commit has committed every write that was resolved before commit was called.
THEOREM CommitCorrect == Spec => []CommitKeepsResolvedWrites
<1>1. IInv => CommitKeepsResolvedWrites
  BY DEF IInv, EndInv, EarlierInv, Confirmed, CommitKeepsResolvedWrites, Ops
<1> QED BY <1>1, Invariant, PTL

\* A write that was rejected with an answer is not in the transaction.
THEOREM FailureCorrect == Spec => []FailureMeansNoEffect
<1>1. IInv => FailureMeansNoEffect
  <2> SUFFICES ASSUME IInv, NEW w \in Writes, reason[w] = "failure"
               PROVE  w \notin staged[Location]
    BY DEF FailureMeansNoEffect
  <2>1. pc[w] = "rejected" /\ ~Confirmed(w)
    BY DEF IInv, Shape, Ops, Confirmed
  <2>2. \A e \in Endpoints : w \notin staged[e]
    BY <2>1 DEF IInv, WriteInv
  <2>3. Location \in Endpoints
    BY <2>1 DEF IInv, Shape, BeginInv, Ops, Location
  <2> QED BY <2>2, <2>3
<1> QED BY <1>1, Invariant, PTL

\* At most one of all commits and rollbacks is told that it succeeded.
THEOREM OneEndCorrect == Spec => []OneEndSucceeds
<1>1. IInv => OneEndSucceeds
  BY DEF IInv, EndInv, Confirmed, OneEndSucceeds
<1> QED BY <1>1, Invariant, PTL

\* A transaction is open without a client that could end it only if the answer to its begin
\* request was lost or had no location, or if a commit or rollback of it was rejected.
THEOREM StrandedCorrect == Spec => []StrandedOnlyAfterFailure
<1>1. IInv => StrandedOnlyAfterFailure
  <2> SUFFICES ASSUME IInv, NEW e \in Endpoints, tx[e] = "open",
                      e = at, begin = "resolved", ~active
               PROVE  \E o \in Ends : pc[o] = "rejected"
    BY DEF IInv, OriginInv, StrandedOnlyAfterFailure
  <2>1. PICK o \in Ends : pc[o] \in {"resolved", "rejected"}
    BY DEF IInv, ActiveInv
  <2>2. pc[o] # "resolved"
    BY DEF IInv, EndInv, Confirmed, Ends, Location
  <2> QED BY <2>1, <2>2
<1> QED BY <1>1, Invariant, PTL

\* An inactive client never becomes active again, and calls on it are refused.
THEOREM InactiveCorrect == Spec => InactiveForGood
<1>1. ASSUME IInv, Next, begin = "resolved", ~active
      PROVE  /\ ~active'
             /\ \A o \in Ops : pc[o] = "idle" => pc'[o] \in {"idle", "thrown"}
  <2>1. CASE Begin \/ BeginStep
    BY <1>1, <2>1 DEF Begin, BeginStep, BeginSucceeds, BeginFails, BeginUnauthorized, BeginBusy,
                      BeginTimesOut
  <2>2. CASE \E e \in Endpoints : ServeBegin(e)
    BY <1>1, <2>2 DEF ServeBegin
  <2>3. ASSUME NEW p \in Ops, Call(p)
        PROVE  ~active' /\ \A o \in Ops : pc[o] = "idle" => pc'[o] \in {"idle", "thrown"}
    BY <1>1, <2>3 DEF Call, IInv, TypeOK
  <2>4. ASSUME NEW p \in Ops, OpStep(p) \/ Serve(p)
        PROVE  ~active' /\ \A o \in Ops : pc[o] = "idle" => pc'[o] \in {"idle", "thrown"}
    BY <1>1, <2>4 DEF OpStep, Send, LoginFails, Receive, Timeout, Serve, HandleError, Settle,
                      IInv, TypeOK
  <2>5. CASE Quiet
    BY <1>1, <2>5 DEF Quiet, vars
  <2> QED BY <1>1, <2>1, <2>2, <2>3, <2>4, <2>5 DEF Next
<1>2. IInv /\ [Next]_vars =>
        [begin = "resolved" /\ ~active =>
           /\ ~active'
           /\ \A o \in Ops : pc[o] = "idle" => pc'[o] \in {"idle", "thrown"}]_vars
  BY <1>1
<1> QED BY <1>2, Invariant, PTL DEF Spec, InactiveForGood
=============================================================================
