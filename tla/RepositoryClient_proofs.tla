----------------------- MODULE RepositoryClient_proofs -----------------------
(***************************************************************************)
(* The safety properties of RepositoryClient, proved for every set of      *)
(* calls, every number of endpoints and every configuration.               *)
(***************************************************************************)
EXTENDS RepositoryClient, TLAPS

USE NAssumption, ConfigAssumption DEF Endpoints, NoUser

\* The alternatives of a step, with the quantifiers of Next taken apart: what
\* every preservation proof below splits on.
LEMMA NextCases ==
    ASSUME [Next]_vars
    PROVE  \/ \E c \in Calls : Execute(c)
           \/ \E c \in Calls : LoginSucceeds(c)
           \/ \E c \in Calls : LoginFails(c)
           \/ \E c \in Calls : Send(c)
           \/ \E c \in Calls : Receive(c)
           \/ \E c \in Calls : Timeout(c)
           \/ \E c \in Calls : ConnectionFails(c)
           \/ \E r \in wire : Serve(r)
           \/ \E token \in valid : Expire(token)
           \/ UNCHANGED vars
BY DEF Next, ClientStep, Quiet

\* The error handler ends in one of four ways.
LEMMA HandleErrorCases ==
    ASSUME NEW c \in Calls, NEW error \in Errors, HandleError(c, error)
    PROVE  \/ error = "unauthorized" /\ RetrySameEndpoint(c)
           \/ error = "unauthorized" /\ KeepAlive /\ ClearTokenThrows(c)
           \/ Retriable(error) /\ HasNext(c) /\ RetryNextEndpoint(c)
           \/ /\ ~(Retriable(error) /\ HasNext(c))
              /\ ~(error = "unauthorized" /\ KeepAlive)
              /\ GiveUp(c, error)
BY DEF HandleError

\* The call of login leaves a pending login request or a captured user.
LEMMA AuthenticateCases ==
    ASSUME NEW c \in Calls, NEW cl, Authenticate(c, cl)
    PROVE  \/ /\ LoginDue(user, cl)
              /\ pc' = [pc EXCEPT ![c] = "login"]
              /\ captured' = captured
           \/ /\ ~LoginDue(user, cl)
              /\ pc' = [pc EXCEPT ![c] = "resume"]
              /\ captured' = [captured EXCEPT ![c] = user]
BY DEF Authenticate

\* An answer resolves the call or goes to the error handler.
LEMMA ReceiveCases ==
    ASSUME TypeOK, NEW c \in Calls, Receive(c)
    PROVE  /\ pc[c] = "sent"
           /\ UNCHANGED <<logins, valid, expiries, wire, applied>>
           /\ \/ /\ reply[c] = "ok"
                 /\ pc' = [pc EXCEPT ![c] = "resolved"]
                 /\ outcome' = [outcome EXCEPT ![c][idx[c]] = "ok"]
                 /\ reply' = [reply EXCEPT ![c] = "none"]
                 /\ UNCHANGED <<user, cleared, idx, captured, header, body,
                                reason, refused>>
              \/ reply[c] \in Errors /\ HandleError(c, reply[c])
<1>1. reply[c] \in {"none"} \cup Answers
  BY DEF TypeOK
<1>2. reply[c] # "none" /\ reply[c] # "ok" => reply[c] \in Errors
  BY <1>1 DEF Answers, Errors
<1> QED
  BY <1>2 DEF Receive

\* What an endpoint does with a request.
LEMMA ServeCases ==
    ASSUME NEW r \in wire, Serve(r)
    PROVE  /\ wire' = wire \ {r}
           /\ UNCHANGED <<user, cleared, logins, valid, expiries, pc, idx,
                          captured, header, body, reason, outcome, refused>>
           /\ \/ /\ applied' = [applied EXCEPT ![r.call][r.endpoint] = @ + 1]
                 /\ Answer(r, "ok")
              \/ /\ r.token \notin valid
                 /\ Answer(r, "unauthorized")
                 /\ applied' = applied
              \/ /\ \E error \in {"unavailable", "failure"} : Answer(r, error)
                 /\ applied' = applied
BY DEF Serve, Accepts

\* The answer is for the call only while it waits at that endpoint.
LEMMA AnswerCases ==
    ASSUME NEW r, NEW answer, Answer(r, answer)
    PROVE  \/ /\ pc[r.call] = "sent" /\ idx[r.call] = r.endpoint
              /\ reply' = [reply EXCEPT ![r.call] = answer]
           \/ /\ ~(pc[r.call] = "sent" /\ idx[r.call] = r.endpoint)
              /\ reply' = reply
BY DEF Answer

\* The effect of a served request, endpoint by endpoint.
LEMMA ServeEffect ==
    ASSUME TypeOK, NEW r \in wire, Serve(r)
    PROVE  /\ r.call \in Calls /\ r.endpoint \in Endpoints
           /\ \/ applied' = applied
              \/ \A d \in Calls, e \in Endpoints :
                    applied'[d][e] = IF d = r.call /\ e = r.endpoint
                                       THEN applied[d][e] + 1
                                       ELSE applied[d][e]
<1>1. r.call \in Calls /\ r.endpoint \in Endpoints
  BY DEF TypeOK
<1>2. \/ applied' = applied
      \/ applied' = [applied EXCEPT ![r.call][r.endpoint] = @ + 1]
  BY ServeCases
<1>3. applied \in [Calls -> [Endpoints -> Nat]]
  BY DEF TypeOK
<1>4. ASSUME applied' = [applied EXCEPT ![r.call][r.endpoint] = @ + 1],
             NEW d \in Calls, NEW e \in Endpoints
      PROVE  applied'[d][e] = IF d = r.call /\ e = r.endpoint
                                THEN applied[d][e] + 1 ELSE applied[d][e]
  <2>1. CASE d # r.call
    BY <1>1, <1>3, <1>4, <2>1
  <2>2. CASE d = r.call
    <3>1. applied'[d] = [applied[d] EXCEPT ![r.endpoint] = @ + 1]
      BY <1>1, <1>3, <1>4, <2>2
    <3> QED
      BY <1>3, <2>2, <3>1
  <2> QED
    BY <2>1, <2>2
<1> QED
  BY <1>1, <1>2, <1>4

LEMMA AuthenticateType ==
    ASSUME TypeOK, NEW c \in Calls, NEW cl, Authenticate(c, cl)
    PROVE  /\ pc' \in [Calls -> Places]
           /\ captured' \in [Calls -> 0 .. logins]
<1>1. CASE pc' = [pc EXCEPT ![c] = "login"] /\ captured' = captured
  BY <1>1 DEF TypeOK, Places
<1>2. CASE /\ pc' = [pc EXCEPT ![c] = "resume"]
           /\ captured' = [captured EXCEPT ![c] = user]
  BY <1>2 DEF TypeOK, Places
<1> QED
  BY <1>1, <1>2, AuthenticateCases

\* The error handler keeps the types of the variables it assigns.
LEMMA HandleErrorType ==
    ASSUME TypeOK, Shape, NEW c \in Calls, NEW error \in Errors,
           pc[c] = "sent", HandleError(c, error),
           UNCHANGED <<logins, valid, expiries, applied>>,
           wire' \subseteq wire
    PROVE  TypeOK'
<1>1. idx[c] \in 1 .. N
  BY DEF TypeOK, Shape
<1>2. /\ outcome' \in [Calls -> [Endpoints -> Outcomes]]
      /\ reply' \in [Calls -> {"none"} \cup Answers]
  BY <1>1 DEF TypeOK, HandleError, Outcomes
<1>3. /\ UNCHANGED <<user, header, body, logins, valid, expiries, applied>>
      /\ wire' \subseteq wire
  BY DEF HandleError
<1>4. CASE error = "unauthorized" /\ RetrySameEndpoint(c)
  <2>1. cleared' \subseteq 1 .. logins
    BY <1>4 DEF TypeOK, RetrySameEndpoint
  <2>2. refused' \in [Calls -> SUBSET (0 .. logins)]
    BY <1>4 DEF TypeOK, RetrySameEndpoint
  <2>3. /\ pc' \in [Calls -> Places]
        /\ captured' \in [Calls -> 0 .. logins]
    BY <1>4, AuthenticateType DEF RetrySameEndpoint
  <2> QED
    BY <1>2, <1>3, <1>4, <2>1, <2>2, <2>3 DEF TypeOK, RetrySameEndpoint
<1>5. CASE ClearTokenThrows(c)
  BY <1>2, <1>3, <1>5 DEF TypeOK, ClearTokenThrows, Reject, Places, Reasons
<1>6. CASE HasNext(c) /\ RetryNextEndpoint(c)
  <2>1. idx' \in [Calls -> 0 .. N]
    BY <1>1, <1>6 DEF TypeOK, HasNext, RetryNextEndpoint
  <2>2. /\ pc' \in [Calls -> Places]
        /\ captured' \in [Calls -> 0 .. logins]
    BY <1>6, AuthenticateType DEF RetryNextEndpoint
  <2>3. refused' \in [Calls -> SUBSET (0 .. logins)]
    BY <1>6 DEF TypeOK, RetryNextEndpoint
  <2> QED
    BY <1>2, <1>3, <1>6, <2>1, <2>2, <2>3 DEF TypeOK, RetryNextEndpoint
<1>7. CASE GiveUp(c, error)
  BY <1>2, <1>3, <1>7 DEF TypeOK, GiveUp, Reject, Places, Reasons
<1> QED
  BY <1>4, <1>5, <1>6, <1>7, HandleErrorCases

LEMMA HandleErrorShape ==
    ASSUME TypeOK, Shape, NEW c \in Calls, NEW error \in Errors,
           pc[c] = "sent", HandleError(c, error)
    PROVE  Shape'
<1>1. idx[c] \in 1 .. N
  BY DEF TypeOK, Shape
<1>2. CASE error = "unauthorized" /\ RetrySameEndpoint(c)
  BY <1>1, <1>2, AuthenticateCases, SMTT(60)
  DEF TypeOK, Shape, HandleError, RetrySameEndpoint
<1>3. CASE ClearTokenThrows(c)
  BY <1>1, <1>3 DEF TypeOK, Shape, HandleError, ClearTokenThrows, Reject
<1>4. CASE RetryNextEndpoint(c)
  <2>1. /\ idx' = [idx EXCEPT ![c] = idx[c] + 1]
        /\ refused' = [refused EXCEPT ![c] = {}]
        /\ reply' = [reply EXCEPT ![c] = "none"]
        /\ Authenticate(c, cleared)
    BY <1>4 DEF HandleError, RetryNextEndpoint
  <2>2. /\ idx'[c] # 0
        /\ \A d \in Calls \ {c} : idx'[d] = idx[d]
    BY <1>1, <2>1 DEF TypeOK
  <2>3. \/ pc' = [pc EXCEPT ![c] = "login"] /\ captured' = captured
        \/ /\ pc' = [pc EXCEPT ![c] = "resume"]
           /\ captured' = [captured EXCEPT ![c] = user]
    BY <2>1, AuthenticateCases
  <2> QED
    BY <2>1, <2>2, <2>3, SMTT(60) DEF TypeOK, Shape
<1>5. CASE GiveUp(c, error)
  BY <1>1, <1>5 DEF TypeOK, Shape, HandleError, GiveUp, Reject
<1> QED
  BY <1>2, <1>3, <1>4, <1>5, HandleErrorCases

LEMMA ShapeStep ==
    ASSUME TypeOK, Shape, [Next]_vars
    PROVE  Shape'
<1>1. ASSUME NEW c \in Calls, Execute(c)
      PROVE  Shape'
  BY <1>1 DEF TypeOK, Shape, Execute, Authenticate
<1>2. ASSUME NEW c \in Calls, LoginSucceeds(c)
      PROVE  Shape'
  BY <1>2 DEF TypeOK, Shape, LoginSucceeds
<1>3. ASSUME NEW c \in Calls, LoginFails(c)
      PROVE  Shape'
  BY <1>3 DEF TypeOK, Shape, LoginFails, Reject
<1>4. ASSUME NEW c \in Calls, Send(c)
      PROVE  Shape'
  BY <1>4 DEF TypeOK, Shape, Send
<1>5. ASSUME NEW c \in Calls, Receive(c)
      PROVE  Shape'
  <2>1. CASE reply[c] = "ok"
    BY <1>5, <2>1, SMTT(60) DEF TypeOK, Shape, Receive, HandleError
  <2>2. CASE reply[c] # "ok"
    <3>1. reply[c] \in Errors
      BY <1>5, <2>2 DEF TypeOK, Receive, Answers, Errors
    <3> QED
      BY <1>5, <2>2, <3>1, HandleErrorShape DEF Receive
  <2> QED
    BY <2>1, <2>2
<1>6. ASSUME NEW c \in Calls, Timeout(c)
      PROVE  Shape'
  BY <1>6, HandleErrorShape DEF Timeout, Errors
<1>7. ASSUME NEW c \in Calls, ConnectionFails(c)
      PROVE  Shape'
  BY <1>7, HandleErrorShape DEF ConnectionFails, Errors
<1>8. ASSUME NEW r \in wire, Serve(r)
      PROVE  Shape'
  BY <1>8, SMTT(60) DEF TypeOK, Shape, Serve, Answer
<1>9. ASSUME NEW token \in valid, Expire(token)
      PROVE  Shape'
  BY <1>9 DEF Shape, Expire
<1>10. CASE UNCHANGED vars
  BY <1>10 DEF Shape, vars
<1> QED
  BY <1>1, <1>2, <1>3, <1>4, <1>5, <1>6, <1>7, <1>8, <1>9, <1>10, NextCases

LEMMA TypeStep ==
    ASSUME TypeOK, Shape, [Next]_vars
    PROVE  TypeOK'
<1>1. ASSUME NEW c \in Calls, Execute(c)
      PROVE  TypeOK'
  <2>1. idx' \in [Calls -> 0 .. N]
    BY <1>1 DEF TypeOK, Execute
  <2>2. /\ pc' \in [Calls -> Places]
        /\ captured' \in [Calls -> 0 .. logins]
    BY <1>1, AuthenticateType DEF Execute
  <2> QED
    BY <1>1, <2>1, <2>2 DEF TypeOK, Execute
<1>2. ASSUME NEW c \in Calls, LoginSucceeds(c)
      PROVE  TypeOK'
  <2>1. /\ logins \in Nat /\ logins' = logins + 1
        /\ 0 .. logins \subseteq 0 .. logins'
        /\ 1 .. logins \subseteq 1 .. logins'
        /\ logins' \in 0 .. logins'
    BY <1>2 DEF TypeOK, LoginSucceeds
  <2>2. /\ pc' \in [Calls -> Places]
        /\ captured' \in [Calls -> 0 .. logins']
    BY <1>2, <2>1 DEF TypeOK, LoginSucceeds, Places
  <2>3. valid' \subseteq Nat \ {0}
    BY <1>2, <2>1 DEF TypeOK, LoginSucceeds
  <2>4. header' \in [Calls -> 0 .. logins']
    BY <1>2, <2>1 DEF TypeOK, LoginSucceeds
  <2>5. refused' \in [Calls -> SUBSET (0 .. logins')]
    <3>1. /\ refused' = refused
          /\ SUBSET (0 .. logins) \subseteq SUBSET (0 .. logins')
      BY <1>2, <2>1 DEF LoginSucceeds
    <3>2. refused \in [Calls -> SUBSET (0 .. logins)]
      BY DEF TypeOK
    <3> QED
      BY <3>1, <3>2
  <2>6. wire' \subseteq [call : Calls, endpoint : Endpoints,
                         token : 0 .. logins']
    BY <1>2, <2>1 DEF TypeOK, LoginSucceeds
  <2>7. /\ user' \in 0 .. logins'
        /\ cleared' \subseteq 1 .. logins'
    BY <1>2, <2>1 DEF TypeOK, LoginSucceeds
  <2>8. UNCHANGED <<expiries, idx, body, reply, reason, outcome, applied>>
    BY <1>2 DEF LoginSucceeds
  <2>9. /\ expiries \in 0 .. MaxExpiries
        /\ idx \in [Calls -> 0 .. N]
        /\ body \in [Calls -> Bodies]
        /\ reply \in [Calls -> {"none"} \cup Answers]
        /\ reason \in [Calls -> Reasons]
        /\ outcome \in [Calls -> [Endpoints -> Outcomes]]
        /\ applied \in [Calls -> [Endpoints -> Nat]]
    BY DEF TypeOK
  <2>10. /\ expiries' \in 0 .. MaxExpiries
         /\ idx' \in [Calls -> 0 .. N]
         /\ body' \in [Calls -> Bodies]
         /\ reply' \in [Calls -> {"none"} \cup Answers]
         /\ reason' \in [Calls -> Reasons]
         /\ outcome' \in [Calls -> [Endpoints -> Outcomes]]
         /\ applied' \in [Calls -> [Endpoints -> Nat]]
    BY ONLY <2>8, <2>9
  <2> QED
    BY ONLY <2>1, <2>2, <2>3, <2>4, <2>5, <2>6, <2>7, <2>10, SMTT(60) DEF TypeOK
<1>3. ASSUME NEW c \in Calls, LoginFails(c)
      PROVE  TypeOK'
  BY <1>3 DEF TypeOK, LoginFails, Reject, Places, Reasons
<1>4. ASSUME NEW c \in Calls, Send(c)
      PROVE  TypeOK'
  <2>1. captured[c] \in 0 .. logins /\ header[c] \in 0 .. logins
    BY DEF TypeOK
  <2>2. /\ idx[c] \in Endpoints
        /\ logins \in Nat
    BY <1>4 DEF TypeOK, Shape, Send
  <2>3. HasToken(captured[c], cleared) => TokenOf(captured[c]) \in 0 .. logins
    BY <2>1, <2>2 DEF HasToken, TokenOf
  <2>4. header' \in [Calls -> 0 .. logins]
    BY <1>4, <2>1, <2>3 DEF TypeOK, Send
  <2>5. wire' \subseteq [call : Calls, endpoint : Endpoints,
                         token : 0 .. logins]
    BY <1>4, <2>2, <2>4 DEF TypeOK, Send
  <2>6. body' \in [Calls -> Bodies]
    BY <1>4 DEF TypeOK, Send, Bodies
  <2>7. /\ user' \in 0 .. logins
        /\ captured' \in [Calls -> 0 .. logins]
        /\ pc' \in [Calls -> Places]
    BY <1>4, <2>1, <2>2 DEF TypeOK, Send, Places
  <2> QED
    BY <1>4, <2>4, <2>5, <2>6, <2>7 DEF TypeOK, Send
<1>5. ASSUME NEW c \in Calls, Receive(c)
      PROVE  TypeOK'
  <2>1. CASE reply[c] = "ok"
    <3>1. /\ pc[c] = "sent"
          /\ UNCHANGED <<logins, valid, expiries, wire, applied>>
          /\ pc' = [pc EXCEPT ![c] = "resolved"]
          /\ outcome' = [outcome EXCEPT ![c][idx[c]] = "ok"]
          /\ reply' = [reply EXCEPT ![c] = "none"]
          /\ UNCHANGED <<user, cleared, idx, captured, header, body, reason,
                         refused>>
      BY <1>5, <2>1, ReceiveCases DEF Errors
    <3>2. idx[c] \in Endpoints
      BY <3>1 DEF TypeOK, Shape
    <3>3. /\ pc' \in [Calls -> Places]
          /\ reply' \in [Calls -> {"none"} \cup Answers]
          /\ outcome' \in [Calls -> [Endpoints -> Outcomes]]
      BY <3>1, <3>2 DEF TypeOK, Places, Outcomes
    <3> QED
      BY <3>1, <3>3 DEF TypeOK
  <2>2. CASE reply[c] # "ok"
    BY <1>5, <2>2, ReceiveCases, HandleErrorType
  <2> QED
    BY <2>1, <2>2
<1>6. ASSUME NEW c \in Calls, Timeout(c)
      PROVE  TypeOK'
  BY <1>6, HandleErrorType DEF Timeout, Errors
<1>7. ASSUME NEW c \in Calls, ConnectionFails(c)
      PROVE  TypeOK'
  BY <1>7, HandleErrorType DEF ConnectionFails, Errors
<1>8. ASSUME NEW r \in wire, Serve(r)
      PROVE  TypeOK'
  <2>1. /\ r.call \in Calls /\ r.endpoint \in Endpoints
        /\ wire' \subseteq wire
    BY <1>8 DEF TypeOK, Serve
  <2>2. reply' \in [Calls -> {"none"} \cup Answers]
    <3>1. PICK answer \in Answers : Answer(r, answer)
      BY <1>8 DEF Serve, Answers
    <3> QED
      BY <2>1, <3>1, AnswerCases, ZenonT(60) DEF TypeOK
  <2>3. /\ UNCHANGED <<user, cleared, logins, valid, expiries, pc, idx,
                       captured, header, body, reason, outcome, refused>>
        /\ \/ applied' = applied
           \/ applied' = [applied EXCEPT ![r.call][r.endpoint] = @ + 1]
    BY <1>8, ServeCases
  <2>4. applied' \in [Calls -> [Endpoints -> Nat]]
    <3>1. applied \in [Calls -> [Endpoints -> Nat]]
      BY DEF TypeOK
    <3>2. applied[r.call][r.endpoint] + 1 \in Nat
      BY <2>1, <3>1
    <3> DEFINE row == [applied[r.call] EXCEPT ![r.endpoint] = @ + 1]
    <3>3. row \in [Endpoints -> Nat]
      BY <2>1, <3>1, <3>2
    <3>4. applied' = applied \/ applied' = [applied EXCEPT ![r.call] = row]
      BY <2>3
    <3> HIDE DEF row
    <3> QED
      BY <2>1, <3>1, <3>3, <3>4
  <2> QED
    BY <2>1, <2>2, <2>3, <2>4 DEF TypeOK
<1>9. ASSUME NEW token \in valid, Expire(token)
      PROVE  TypeOK'
  BY <1>9, SMTT(60) DEF TypeOK, Expire
<1>10. CASE UNCHANGED vars
  BY <1>10 DEF TypeOK, vars
<1> QED
  BY <1>1, <1>2, <1>3, <1>4, <1>5, <1>6, <1>7, <1>8, <1>9, <1>10, NextCases

LEMMA InitIInv == Init => IInv
<1> SUFFICES ASSUME Init PROVE IInv
  OBVIOUS
<1>1. TypeOK
  BY DEF Init, TypeOK, Places, Bodies, Reasons, Outcomes
<1>2. Shape /\ FailoverInOrder /\ WireInv /\ AppliedInv
  BY DEF Init, Shape, FailoverInOrder, WireInv, AppliedInv
<1>3. /\ ResolvedMeansApplied /\ RejectedWhenExhausted /\ UserInv
      /\ TypeErrorWithoutCredentials /\ TokenInv /\ FreshTokenAfterRefusal
  BY DEF Init, ResolvedMeansApplied, RejectedWhenExhausted, UserInv,
         TypeErrorWithoutCredentials, TokenInv, FreshTokenAfterRefusal
<1> QED
  BY <1>1, <1>2, <1>3 DEF IInv

----------------------------------------------------------------------------
(* The three ways a waiting call hears of its request, as one              *)

Resolves(c) ==
    /\ pc[c] = "sent"
    /\ reply[c] = "ok"
    /\ pc' = [pc EXCEPT ![c] = "resolved"]
    /\ outcome' = [outcome EXCEPT ![c][idx[c]] = "ok"]
    /\ reply' = [reply EXCEPT ![c] = "none"]
    /\ UNCHANGED <<user, cleared, logins, valid, expiries, idx, captured,
                   header, body, wire, reason, refused, applied>>

\* The request is taken off the wire only when it never got to the endpoint.
Fails(c, error) ==
    /\ pc[c] = "sent"
    /\ HandleError(c, error)
    /\ \/ reply[c] = error /\ wire' = wire
       \/ error = "noResponse" /\ wire' = wire
       \/ /\ error # "unauthorized"
          /\ \E r \in wire : /\ r.call = c /\ r.endpoint = idx[c]
                             /\ wire' = wire \ {r}
    /\ UNCHANGED <<logins, valid, expiries, applied>>

LEMMA StepCases ==
    ASSUME TypeOK, [Next]_vars
    PROVE  \/ \E c \in Calls : Execute(c)
           \/ \E c \in Calls : LoginSucceeds(c)
           \/ \E c \in Calls : LoginFails(c)
           \/ \E c \in Calls : Send(c)
           \/ \E c \in Calls : Resolves(c)
           \/ \E c \in Calls, error \in Errors : Fails(c, error)
           \/ \E r \in wire : Serve(r)
           \/ \E token \in valid : Expire(token)
           \/ UNCHANGED vars
<1>1. ASSUME NEW c \in Calls, Receive(c)
      PROVE  Resolves(c) \/ \E error \in Errors : Fails(c, error)
  BY <1>1, ReceiveCases DEF Resolves, Fails
<1>2. ASSUME NEW c \in Calls, Timeout(c)
      PROVE  \E error \in Errors : Fails(c, error)
  BY <1>2 DEF Timeout, Fails, Errors
<1>3. ASSUME NEW c \in Calls, ConnectionFails(c)
      PROVE  \E error \in Errors : Fails(c, error)
  BY <1>3 DEF ConnectionFails, Fails, Errors
<1> QED
  BY <1>1, <1>2, <1>3, NextCases

\* What a failed request changes, the login and the tokens left aside.
LEMMA FailsMoves ==
    ASSUME NEW c \in Calls, NEW error \in Errors, Fails(c, error)
    PROVE  /\ pc[c] = "sent"
           /\ outcome' = [outcome EXCEPT ![c][idx[c]] = error]
           /\ reply' = [reply EXCEPT ![c] = "none"]
           /\ applied' = applied
           /\ wire' \subseteq wire
           /\ header' = header
           /\ \/ /\ error = "unauthorized"
                 /\ idx' = idx
                 /\ reason' = reason
                 /\ \E p \in {"login", "resume"} : pc' = [pc EXCEPT ![c] = p]
              \/ /\ error \in {"noResponse", "unavailable"}
                 /\ idx[c] < N
                 /\ idx' = [idx EXCEPT ![c] = idx[c] + 1]
                 /\ reason' = reason
                 /\ \E p \in {"login", "resume"} : pc' = [pc EXCEPT ![c] = p]
              \/ /\ error \in {"noResponse", "unavailable"} => ~(idx[c] < N)
                 /\ error = "unauthorized" => ~KeepAlive
                 /\ idx' = idx
                 /\ pc' = [pc EXCEPT ![c] = "rejected"]
                 /\ reason' = [reason EXCEPT ![c] = error]
              \/ /\ user = NoUser
                 /\ idx' = idx
                 /\ pc' = [pc EXCEPT ![c] = "rejected"]
                 /\ reason' = [reason EXCEPT ![c] = "typeError"]
<1>1. /\ pc[c] = "sent"
      /\ outcome' = [outcome EXCEPT ![c][idx[c]] = error]
      /\ reply' = [reply EXCEPT ![c] = "none"]
      /\ applied' = applied
      /\ wire' \subseteq wire
      /\ header' = header
      /\ HandleError(c, error)
  BY DEF Fails, HandleError
<1>2. CASE error = "unauthorized" /\ RetrySameEndpoint(c)
  BY <1>1, <1>2, AuthenticateCases DEF RetrySameEndpoint
<1>3. CASE ClearTokenThrows(c)
  BY <1>1, <1>3 DEF ClearTokenThrows, Reject
<1>4. CASE Retriable(error) /\ HasNext(c) /\ RetryNextEndpoint(c)
  BY <1>1, <1>4, AuthenticateCases DEF RetryNextEndpoint, Retriable, HasNext
<1>5. CASE /\ ~(Retriable(error) /\ HasNext(c))
           /\ ~(error = "unauthorized" /\ KeepAlive)
           /\ GiveUp(c, error)
  BY <1>1, <1>5 DEF GiveUp, Reject, Retriable, HasNext
<1> QED
  BY <1>1, <1>2, <1>3, <1>4, <1>5, HandleErrorCases

----------------------------------------------------------------------------
(* Failover                                                                *)

LEMMA FailoverStep ==
    ASSUME TypeOK, Shape, FailoverInOrder, [Next]_vars
    PROVE  FailoverInOrder'
<1>1. ASSUME NEW c \in Calls, Execute(c)
      PROVE  FailoverInOrder'
  BY <1>1, SMTT(60) DEF TypeOK, Shape, FailoverInOrder, Execute, Retriable
<1>2. ASSUME NEW c \in Calls, LoginSucceeds(c)
      PROVE  FailoverInOrder'
  BY <1>2 DEF FailoverInOrder, LoginSucceeds, Retriable
<1>3. ASSUME NEW c \in Calls, LoginFails(c)
      PROVE  FailoverInOrder'
  BY <1>3 DEF FailoverInOrder, LoginFails, Retriable
<1>4. ASSUME NEW c \in Calls, Send(c)
      PROVE  FailoverInOrder'
  BY <1>4, SMTT(60) DEF TypeOK, Shape, FailoverInOrder, Send, Retriable
<1>5. ASSUME NEW c \in Calls, Resolves(c)
      PROVE  FailoverInOrder'
  <2>1. /\ outcome' = [outcome EXCEPT ![c][idx[c]] = "ok"]
        /\ UNCHANGED <<idx, wire, applied>>
    BY <1>5 DEF Resolves
  <2>2. \A d \in Calls, e \in Endpoints :
           e # idx[d] => outcome'[d][e] = outcome[d][e]
    BY <2>1 DEF TypeOK
  <2> QED
    BY <2>1, <2>2 DEF TypeOK, FailoverInOrder, Retriable
<1>6. ASSUME NEW c \in Calls, NEW error \in Errors, Fails(c, error)
      PROVE  FailoverInOrder'
  <2>1. /\ outcome' = [outcome EXCEPT ![c][idx[c]] = error]
        /\ applied' = applied
        /\ wire' \subseteq wire
        /\ \/ idx' = idx
           \/ /\ error \in {"noResponse", "unavailable"}
              /\ idx' = [idx EXCEPT ![c] = idx[c] + 1]
    BY <1>6, FailsMoves
  <2>2. \A d \in Calls, e \in Endpoints :
           outcome'[d][e] = IF d = c /\ e = idx[c] THEN error
                                                   ELSE outcome[d][e]
    BY <2>1 DEF TypeOK
  <2>3. \A d \in Calls : idx[d] \in 0 .. N
    BY DEF TypeOK
  <2>4. CASE idx' = idx
    BY <2>1, <2>2, <2>3, <2>4 DEF FailoverInOrder, Retriable
  <2>5. CASE /\ error \in {"noResponse", "unavailable"}
             /\ idx' = [idx EXCEPT ![c] = idx[c] + 1]
    <3>1. \A d \in Calls : idx'[d] = IF d = c THEN idx[c] + 1 ELSE idx[d]
      BY <2>5 DEF TypeOK
    <3> QED
      BY <2>1, <2>2, <2>3, <2>5, <3>1 DEF FailoverInOrder, Retriable
  <2> QED
    BY <2>1, <2>4, <2>5
<1>7. ASSUME NEW r \in wire, Serve(r)
      PROVE  FailoverInOrder'
  <2>1. /\ wire' \subseteq wire
        /\ UNCHANGED <<idx, outcome>>
    BY <1>7, ServeCases
  <2>2. /\ r.call \in Calls /\ r.endpoint \in Endpoints
        /\ idx[r.call] \in 0 .. N
        /\ ~(r.endpoint > idx[r.call])
    BY DEF TypeOK, FailoverInOrder
  <2>3. \A d \in Calls, e \in Endpoints :
           e > idx[d] => applied'[d][e] = applied[d][e]
    BY <1>7, <2>2, ServeEffect
  <2> QED
    BY <2>1, <2>3 DEF FailoverInOrder, Retriable
<1>8. ASSUME NEW token \in valid, Expire(token)
      PROVE  FailoverInOrder'
  BY <1>8 DEF FailoverInOrder, Expire, Retriable
<1>9. CASE UNCHANGED vars
  BY <1>9 DEF FailoverInOrder, vars, Retriable
<1> QED
  BY <1>1, <1>2, <1>3, <1>4, <1>5, <1>6, <1>7, <1>8, <1>9, StepCases

----------------------------------------------------------------------------
(* Effects                                                                 *)

\* What a failed request changes, call by call and endpoint by endpoint.
LEMMA FailsPointwise ==
    ASSUME TypeOK, Shape, NEW c \in Calls, NEW error \in Errors,
           Fails(c, error)
    PROVE  /\ pc[c] = "sent" /\ reply'[c] = "none" /\ idx[c] \in Endpoints
           /\ \A d \in Calls \ {c} : /\ pc'[d] = pc[d]
                                     /\ idx'[d] = idx[d]
                                     /\ reply'[d] = reply[d]
           /\ \A d \in Calls, e \in Endpoints :
                 outcome'[d][e] = IF d = c /\ e = idx[c] THEN error
                                                         ELSE outcome[d][e]
           /\ \/ error = "unauthorized" /\ idx'[c] = idx[c]
                 /\ pc'[c] \in {"login", "resume"}
              \/ error \in {"noResponse", "unavailable"}
                 /\ idx'[c] = idx[c] + 1 /\ pc'[c] \in {"login", "resume"}
              \/ idx'[c] = idx[c] /\ pc'[c] = "rejected"
<1>1. /\ pc[c] = "sent"
      /\ outcome' = [outcome EXCEPT ![c][idx[c]] = error]
      /\ reply' = [reply EXCEPT ![c] = "none"]
      /\ \/ error = "unauthorized" /\ idx' = idx
            /\ \E p \in {"login", "resume"} : pc' = [pc EXCEPT ![c] = p]
         \/ /\ error \in {"noResponse", "unavailable"}
            /\ idx' = [idx EXCEPT ![c] = idx[c] + 1]
            /\ \E p \in {"login", "resume"} : pc' = [pc EXCEPT ![c] = p]
         \/ idx' = idx /\ pc' = [pc EXCEPT ![c] = "rejected"]
  BY FailsMoves
<1>2. idx[c] \in Endpoints
  BY <1>1 DEF TypeOK, Shape
<1>3. \A d \in Calls, e \in Endpoints :
         outcome'[d][e] = IF d = c /\ e = idx[c] THEN error
                                                 ELSE outcome[d][e]
  BY <1>1, <1>2 DEF TypeOK
<1>4. \A d \in Calls \ {c} : reply'[d] = reply[d]
  BY <1>1 DEF TypeOK
<1>5. reply'[c] = "none"
  BY <1>1 DEF TypeOK
<1>6. CASE error = "unauthorized" /\ idx' = idx
           /\ \E p \in {"login", "resume"} : pc' = [pc EXCEPT ![c] = p]
  BY <1>1, <1>2, <1>3, <1>4, <1>5, <1>6 DEF TypeOK
<1>7. CASE /\ error \in {"noResponse", "unavailable"}
           /\ idx' = [idx EXCEPT ![c] = idx[c] + 1]
           /\ \E p \in {"login", "resume"} : pc' = [pc EXCEPT ![c] = p]
  BY <1>1, <1>2, <1>3, <1>4, <1>5, <1>7 DEF TypeOK
<1>8. CASE idx' = idx /\ pc' = [pc EXCEPT ![c] = "rejected"]
  BY <1>1, <1>2, <1>3, <1>4, <1>5, <1>8 DEF TypeOK
<1> QED
  BY <1>1, <1>6, <1>7, <1>8

LEMMA WireStep ==
    ASSUME TypeOK, Shape, FailoverInOrder, WireInv, AppliedInv, [Next]_vars
    PROVE  WireInv'
<1> USE DEF Waiting, LeftBehind, Settled
<1>1. \A r \in wire : /\ r.call \in Calls /\ r.endpoint \in Endpoints
                      /\ idx[r.call] \in Nat /\ r.endpoint \in Nat \ {0}
  BY DEF TypeOK
<1>2. ASSUME NEW c \in Calls, Execute(c)
      PROVE  WireInv'
  <2>1. /\ pc[c] = "idle" /\ idx[c] = 0
        /\ UNCHANGED <<applied, wire, reply, header, outcome>>
        /\ \A d \in Calls \ {c} : pc'[d] = pc[d] /\ idx'[d] = idx[d]
    <3>1. /\ pc[c] = "idle"
          /\ UNCHANGED <<applied, wire, reply, header, outcome>>
          /\ idx' = [idx EXCEPT ![c] = 1]
          /\ \E p \in {"login", "resume"} : pc' = [pc EXCEPT ![c] = p]
      BY <1>2, AuthenticateCases DEF Execute
    <3> QED
      BY <3>1 DEF TypeOK, Shape
  <2>2. \A r \in wire : r.call # c
    BY <1>1, <2>1 DEF WireInv
  <2> QED
    BY <1>1, <2>1, <2>2 DEF WireInv
<1>3. ASSUME NEW c \in Calls, LoginSucceeds(c) \/ LoginFails(c)
      PROVE  WireInv'
  <2>1. /\ pc[c] = "login" /\ pc'[c] # "sent"
        /\ UNCHANGED <<applied, wire, reply, header, outcome, idx>>
        /\ \A d \in Calls \ {c} : pc'[d] = pc[d]
    BY <1>3 DEF LoginSucceeds, LoginFails, Reject, TypeOK
  <2> QED
    BY <1>1, <2>1 DEF WireInv
<1>4. ASSUME NEW c \in Calls, Send(c)
      PROVE  WireInv'
  <2>1. /\ pc[c] = "resume" /\ pc'[c] = "sent" /\ idx[c] \in Endpoints
        /\ UNCHANGED <<applied, reply, outcome, idx>>
        /\ \A d \in Calls \ {c} : pc'[d] = pc[d] /\ header'[d] = header[d]
        /\ reply[c] = "none"
    BY <1>4 DEF Send, TypeOK, Shape
  <2>2. PICK new : /\ wire' = wire \cup {new}
                   /\ new.call = c /\ new.endpoint = idx[c]
                   /\ new.token = header'[c]
    <3> DEFINE request == [call |-> c, endpoint |-> idx[c],
                           token |-> header'[c]]
    <3>1. wire' = wire \cup {request}
      BY <1>4 DEF Send
    <3>2. /\ request.call = c /\ request.endpoint = idx[c]
          /\ request.token = header'[c]
      OBVIOUS
    <3> HIDE DEF request
    <3> QED
      BY <3>1, <3>2
  <2>3. \A r \in wire : r.call = c => r.endpoint < idx[c]
    BY <1>1, <2>1 DEF WireInv
  <2>4. applied[c][idx[c]] = 0
    <3>1. applied[c][idx[c]] \in Nat
      BY <2>1 DEF TypeOK
    <3>2. applied[c][idx[c]] <= 1 /\ applied[c][idx[c]] # 1
      BY <2>1 DEF AppliedInv
    <3> QED
      BY <3>1, <3>2
  <2>5. \A r \in wire : /\ applied'[r.call][r.endpoint] = 0
                        /\ \A s \in wire' :
                             r.call = s.call /\ r.endpoint = s.endpoint => r = s
    BY <1>1, <2>1, <2>2, <2>3 DEF WireInv
  <2>6. \A r \in wire :
           \/ Waiting(r)' /\ r.token = header'[r.call]
           \/ LeftBehind(r.call, r.endpoint)'
              /\ outcome'[r.call][r.endpoint] = "noResponse"
    BY <1>1, <2>1, <2>3 DEF WireInv
  <2>7. /\ applied'[new.call][new.endpoint] = 0
        /\ \A s \in wire' :
              new.call = s.call /\ new.endpoint = s.endpoint => new = s
        /\ Waiting(new)' /\ new.token = header'[new.call]
    BY <1>1, <2>1, <2>2, <2>3, <2>4
  <2> QED
    BY <2>2, <2>5, <2>6, <2>7 DEF WireInv
<1>5. ASSUME NEW c \in Calls, Resolves(c)
      PROVE  WireInv'
  <2>1. /\ pc[c] = "sent" /\ reply[c] = "ok" /\ pc'[c] = "resolved"
        /\ UNCHANGED <<applied, wire, header, idx>>
        /\ \A d \in Calls \ {c} : pc'[d] = pc[d] /\ reply'[d] = reply[d]
    BY <1>5 DEF Resolves, TypeOK
  <2>2. \A d \in Calls, e \in Endpoints :
           ~(d = c /\ e = idx[c]) => outcome'[d][e] = outcome[d][e]
    BY <1>5 DEF Resolves, TypeOK
  <2>3. \A r \in wire : r.call = c => r.endpoint < idx[c]
    BY <1>1, <2>1 DEF WireInv
  <2> QED
    BY <1>1, <2>1, <2>2, <2>3 DEF WireInv
<1>6. ASSUME NEW c \in Calls, NEW error \in Errors, Fails(c, error)
      PROVE  WireInv'
  <2>1. /\ pc[c] = "sent"
        /\ UNCHANGED <<applied, header>>
        /\ wire' \subseteq wire
        /\ \/ reply[c] = error /\ wire' = wire
           \/ error = "noResponse" /\ wire' = wire
           \/ \E r \in wire : /\ r.call = c /\ r.endpoint = idx[c]
                              /\ wire' = wire \ {r}
    BY <1>6, FailsMoves DEF Fails
  <2>2. \A r \in wire' : r.call = c /\ r.endpoint = idx[c] =>
           error = "noResponse"
    BY <1>1, <2>1 DEF WireInv, Errors
  <2>3. \A r \in wire' : r.call = c => r.endpoint <= idx[c]
    BY <1>1, <2>1 DEF FailoverInOrder
  <2>4. \A r \in wire' : r.call = c =>
           /\ outcome'[c][r.endpoint] = "noResponse"
           /\ LeftBehind(c, r.endpoint)'
    BY <1>1, <1>6, <2>1, <2>2, <2>3, FailsPointwise DEF WireInv
  <2>5. \A r \in wire' : r.call # c =>
           \/ Waiting(r)' /\ r.token = header'[r.call]
           \/ LeftBehind(r.call, r.endpoint)'
              /\ outcome'[r.call][r.endpoint] = "noResponse"
    BY <1>1, <1>6, <2>1, FailsPointwise DEF WireInv
  <2> QED
    BY <2>1, <2>4, <2>5 DEF WireInv
<1>7. ASSUME NEW r \in wire, Serve(r)
      PROVE  WireInv'
  <2>1. /\ wire' = wire \ {r}
        /\ UNCHANGED <<pc, idx, header, outcome>>
        /\ \E answer : Answer(r, answer)
    BY <1>7, ServeCases
  <2>2. \A s \in wire' : s.call # r.call \/ s.endpoint # r.endpoint
    BY <2>1 DEF WireInv
  <2>3. \A s \in wire' : applied'[s.call][s.endpoint] = 0
    BY <1>1, <1>7, <2>1, <2>2, ServeEffect DEF WireInv
  <2>4. \A d \in Calls :
           reply'[d] # reply[d] => d = r.call /\ idx[d] = r.endpoint
    BY <1>1, <2>1, AnswerCases DEF TypeOK
  <2>5. \A s \in wire' : Waiting(s) => Waiting(s)'
    BY <1>1, <2>1, <2>2, <2>4
  <2> QED
    BY <1>1, <2>1, <2>3, <2>5 DEF WireInv
<1>8. ASSUME NEW token \in valid, Expire(token)
      PROVE  WireInv'
  BY <1>8 DEF WireInv, Expire
<1>9. CASE UNCHANGED vars
  BY <1>9 DEF WireInv, vars
<1> QED
  BY <1>2, <1>3, <1>4, <1>5, <1>6, <1>7, <1>8, <1>9, StepCases

LEMMA AppliedStep ==
    ASSUME TypeOK, Shape, FailoverInOrder, WireInv, AppliedInv, [Next]_vars
    PROVE  AppliedInv'
<1> USE DEF LeftBehind, Settled
<1>1. \A c \in Calls : idx[c] \in 0 .. N
  BY DEF TypeOK
<1>2. ASSUME NEW c \in Calls, Execute(c)
      PROVE  AppliedInv'
  <2>1. /\ pc[c] = "idle" /\ idx[c] = 0 /\ reply[c] = "none"
        /\ UNCHANGED <<applied, reply, outcome>>
        /\ \A d \in Calls \ {c} : pc'[d] = pc[d] /\ idx'[d] = idx[d]
    <3>1. /\ pc[c] = "idle"
          /\ UNCHANGED <<applied, reply, outcome>>
          /\ idx' = [idx EXCEPT ![c] = 1]
          /\ \E p \in {"login", "resume"} : pc' = [pc EXCEPT ![c] = p]
      BY <1>2, AuthenticateCases DEF Execute
    <3> QED
      BY <3>1 DEF TypeOK, Shape
  <2>2. \A e \in Endpoints : applied[c][e] = 0
    BY <2>1 DEF FailoverInOrder
  <2> QED
    BY <1>1, <2>1, <2>2 DEF AppliedInv
<1>3. ASSUME NEW c \in Calls, LoginSucceeds(c) \/ LoginFails(c) \/ Send(c)
      PROVE  AppliedInv'
  <2>1. /\ pc[c] \in {"login", "resume"}
        /\ UNCHANGED <<applied, reply, outcome, idx>>
        /\ \A d \in Calls \ {c} : pc'[d] = pc[d]
    BY <1>3 DEF LoginSucceeds, LoginFails, Send, Reject, TypeOK
  <2> QED
    BY <1>1, <2>1 DEF AppliedInv
<1>4. ASSUME NEW c \in Calls, Resolves(c)
      PROVE  AppliedInv'
  <2>1. /\ pc[c] = "sent" /\ pc'[c] = "resolved"
        /\ reply[c] = "ok" /\ reply'[c] = "none"
        /\ UNCHANGED <<applied, idx>>
        /\ \A d \in Calls \ {c} : pc'[d] = pc[d] /\ reply'[d] = reply[d]
    BY <1>4 DEF Resolves, TypeOK
  <2>2. idx[c] \in Endpoints
    BY <2>1 DEF TypeOK, Shape
  <2>3. \A d \in Calls, e \in Endpoints :
           outcome'[d][e] = IF d = c /\ e = idx[c] THEN "ok"
                                                   ELSE outcome[d][e]
    BY <1>4, <2>2 DEF Resolves, TypeOK
  <2> QED
    BY <1>1, <2>1, <2>2, <2>3 DEF AppliedInv
<1>5. ASSUME NEW c \in Calls, NEW error \in Errors, Fails(c, error)
      PROVE  AppliedInv'
  <2>1. /\ applied' = applied
        /\ \/ reply[c] = error /\ wire' = wire
           \/ error = "noResponse" /\ wire' = wire
           \/ \E r \in wire : /\ r.call = c /\ r.endpoint = idx[c]
                              /\ wire' = wire \ {r}
    BY <1>5, FailsMoves DEF Fails
  <2>2. applied[c][idx[c]] = 1 => error = "noResponse"
    BY <1>5, <2>1, FailsPointwise
    DEF AppliedInv, WireInv, Errors
  <2>3. ASSUME NEW e \in Endpoints, applied'[c][e] = 1
        PROVE  LeftBehind(c, e)' /\ outcome'[c][e] \in {"ok", "noResponse"}
    BY <1>1, <1>5, <2>1, <2>2, <2>3, FailsPointwise DEF AppliedInv
  <2>4. ASSUME NEW d \in Calls \ {c}, NEW e \in Endpoints
        PROVE  /\ applied'[d][e] = 1 =>
                  \/ pc'[d] = "sent" /\ e = idx'[d] /\ reply'[d] = "ok"
                  \/ LeftBehind(d, e)' /\ outcome'[d][e] \in {"ok", "noResponse"}
               /\ reply'[d] = "ok" => applied'[d][idx'[d]] = 1
    BY <1>5, <2>1, <2>4, FailsPointwise DEF AppliedInv
  <2>5. reply'[c] # "ok"
    BY <1>5, FailsPointwise
  <2> QED
    BY <2>1, <2>3, <2>4, <2>5 DEF AppliedInv
<1>6. ASSUME NEW r \in wire, Serve(r)
      PROVE  AppliedInv'
  <2>1. /\ UNCHANGED <<pc, idx, outcome>>
        /\ r.call \in Calls /\ r.endpoint \in Endpoints
        /\ applied[r.call][r.endpoint] = 0
        /\ \/ Waiting(r)
           \/ /\ LeftBehind(r.call, r.endpoint)
              /\ outcome[r.call][r.endpoint] = "noResponse"
    BY <1>6, ServeCases, ServeEffect DEF WireInv
  <2>2. CASE Answer(r, "ok") /\ \A d \in Calls, e \in Endpoints :
                  applied'[d][e] = IF d = r.call /\ e = r.endpoint
                                     THEN applied[d][e] + 1
                                     ELSE applied[d][e]
    <3>1. \A d \in Calls : reply'[d] =
             IF d = r.call /\ pc[d] = "sent" /\ idx[d] = r.endpoint
               THEN "ok" ELSE reply[d]
      BY <2>1, <2>2 DEF Answer, TypeOK
    <3>2. \A d \in Calls : reply'[d] = "ok" => idx[d] \in Endpoints
      <4>1. \A d \in Calls : pc[d] = "sent" => idx[d] \in Endpoints
        BY <1>1 DEF Shape
      <4>2. \A d \in Calls : reply[d] = "ok" => pc[d] = "sent"
        BY DEF Shape
      <4> QED
        BY <3>1, <4>1, <4>2
    <3> QED
      BY <1>1, <2>1, <2>2, <3>1, <3>2 DEF AppliedInv, Waiting
  <2>3. CASE applied' = applied /\ \E answer \in Answers \ {"ok"} :
                                      Answer(r, answer)
    <3>1. \A d \in Calls : \/ reply'[d] = reply[d]
                           \/ /\ d = r.call /\ idx[d] = r.endpoint
                              /\ pc[d] = "sent" /\ reply'[d] # "ok"
      BY <2>1, <2>3 DEF Answer, TypeOK
    <3>2. \A d \in Calls : d = r.call /\ idx[d] = r.endpoint /\ pc[d] = "sent"
                              => reply[d] = "none"
      BY <1>1, <2>1 DEF Waiting
    <3> QED
      BY <1>1, <2>1, <2>3, <3>1, <3>2 DEF AppliedInv
  <2> QED
    <3>1. \/ /\ applied' = [applied EXCEPT ![r.call][r.endpoint] = @ + 1]
             /\ Answer(r, "ok")
          \/ applied' = applied /\ \E answer \in Answers \ {"ok"} :
                                      Answer(r, answer)
      BY <1>6, ServeCases DEF Answers
    <3>2. applied' # applied => \A d \in Calls, e \in Endpoints :
             applied'[d][e] = IF d = r.call /\ e = r.endpoint
                                THEN applied[d][e] + 1 ELSE applied[d][e]
      BY <1>6, ServeEffect
    <3>3. applied' = [applied EXCEPT ![r.call][r.endpoint] = @ + 1] =>
             applied' # applied
      BY <2>1 DEF TypeOK
    <3> QED
      BY <2>2, <2>3, <3>1, <3>2, <3>3
<1>7. ASSUME NEW token \in valid, Expire(token)
      PROVE  AppliedInv'
  BY <1>7 DEF AppliedInv, Expire
<1>8. CASE UNCHANGED vars
  BY <1>8 DEF AppliedInv, vars
<1> QED
  BY <1>2, <1>3, <1>4, <1>5, <1>6, <1>7, <1>8, StepCases

LEMMA ResolvedStep ==
    ASSUME TypeOK, Shape, AppliedInv, ResolvedMeansApplied, AppliedInv',
           [Next]_vars
    PROVE  ResolvedMeansApplied'
<1>1. ASSUME NEW c \in Calls, Execute(c)
      PROVE  ResolvedMeansApplied'
  <2>1. /\ pc[c] = "idle"
        /\ applied' = applied
        /\ idx' = [idx EXCEPT ![c] = 1]
        /\ \E p \in {"login", "resume"} : pc' = [pc EXCEPT ![c] = p]
    BY <1>1, AuthenticateCases DEF Execute
  <2> QED
    BY <2>1 DEF ResolvedMeansApplied, TypeOK
<1>2. ASSUME NEW c \in Calls, LoginSucceeds(c) \/ LoginFails(c) \/ Send(c)
      PROVE  ResolvedMeansApplied'
  <2>1. /\ UNCHANGED <<applied, idx>>
        /\ \E p \in {"resume", "rejected", "sent"} : pc' = [pc EXCEPT ![c] = p]
    BY <1>2 DEF LoginSucceeds, LoginFails, Send, Reject
  <2> QED
    BY <2>1 DEF ResolvedMeansApplied, TypeOK
<1>3. ASSUME NEW c \in Calls, Resolves(c)
      PROVE  ResolvedMeansApplied'
  <2>1. /\ UNCHANGED <<applied, idx>>
        /\ pc' = [pc EXCEPT ![c] = "resolved"]
        /\ pc[c] = "sent" /\ reply[c] = "ok"
    BY <1>3 DEF Resolves
  <2>2. idx[c] \in Endpoints
    BY <2>1 DEF TypeOK, Shape
  <2>3. applied[c][idx[c]] = 1
    BY <2>1, <2>2 DEF AppliedInv
  <2> QED
    BY <2>1, <2>3 DEF ResolvedMeansApplied, TypeOK
<1>4. ASSUME NEW c \in Calls, NEW error \in Errors, Fails(c, error)
      PROVE  ResolvedMeansApplied'
  <2>1. /\ applied' = applied
        /\ pc'[c] # "resolved"
        /\ \A d \in Calls \ {c} : pc'[d] = pc[d] /\ idx'[d] = idx[d]
    BY <1>4, FailsPointwise DEF Fails
  <2> QED
    BY <2>1 DEF ResolvedMeansApplied
<1>5. ASSUME NEW r \in wire, Serve(r)
      PROVE  ResolvedMeansApplied'
  <2>1. UNCHANGED <<pc, idx>>
    BY <1>5, ServeCases
  <2>2. \A d \in Calls : pc[d] = "resolved" => idx[d] \in Endpoints
    BY DEF TypeOK, Shape
  <2>3. \A d \in Calls : pc[d] = "resolved" =>
           applied'[d][idx[d]] \in {applied[d][idx[d]], applied[d][idx[d]] + 1}
    BY <1>5, <2>2, ServeEffect
  <2>4. \A d \in Calls : pc[d] = "resolved" => applied'[d][idx[d]] <= 1
    BY <2>2 DEF AppliedInv
  <2> QED
    BY <2>1, <2>2, <2>3, <2>4 DEF ResolvedMeansApplied
<1>6. ASSUME NEW token \in valid, Expire(token)
      PROVE  ResolvedMeansApplied'
  BY <1>6 DEF ResolvedMeansApplied, Expire
<1>7. CASE UNCHANGED vars
  BY <1>7 DEF ResolvedMeansApplied, vars
<1> QED
  BY <1>1, <1>2, <1>3, <1>4, <1>5, <1>6, <1>7, StepCases

----------------------------------------------------------------------------
(* Rejections                                                              *)

LEMMA RejectedStep ==
    ASSUME TypeOK, Shape, FailoverInOrder, RejectedWhenExhausted, [Next]_vars
    PROVE  RejectedWhenExhausted'
<1> USE DEF Retriable
<1>1. ASSUME NEW c \in Calls,
             \E p \in Places \ {"rejected"} : pc' = [pc EXCEPT ![c] = p],
             reason' = reason,
             \A d \in Calls \ {c} : /\ idx'[d] = idx[d]
                                    /\ outcome'[d] = outcome[d]
      PROVE  RejectedWhenExhausted'
  BY <1>1, SMTT(60) DEF RejectedWhenExhausted, TypeOK
<1>2. ASSUME NEW c \in Calls, Execute(c)
      PROVE  RejectedWhenExhausted'
  <2>1. /\ UNCHANGED <<reason, outcome>>
        /\ idx' = [idx EXCEPT ![c] = 1]
        /\ \E p \in {"login", "resume"} : pc' = [pc EXCEPT ![c] = p]
    BY <1>2, AuthenticateCases DEF Execute
  <2> QED
    BY <1>1, <2>1 DEF TypeOK, Places
<1>3. ASSUME NEW c \in Calls, LoginSucceeds(c) \/ Send(c)
      PROVE  RejectedWhenExhausted'
  <2>1. /\ UNCHANGED <<reason, outcome, idx>>
        /\ \E p \in {"resume", "sent"} : pc' = [pc EXCEPT ![c] = p]
    BY <1>3 DEF LoginSucceeds, Send
  <2> QED
    BY <1>1, <2>1 DEF Places
<1>4. ASSUME NEW c \in Calls, LoginFails(c)
      PROVE  RejectedWhenExhausted'
  BY <1>4 DEF RejectedWhenExhausted, LoginFails, Reject, TypeOK, Errors
<1>5. ASSUME NEW c \in Calls, Resolves(c)
      PROVE  RejectedWhenExhausted'
  <2>1. /\ UNCHANGED <<reason, idx>>
        /\ pc' = [pc EXCEPT ![c] = "resolved"]
        /\ \A d \in Calls \ {c} : outcome'[d] = outcome[d]
    BY <1>5 DEF Resolves, TypeOK
  <2> QED
    BY <1>1, <2>1 DEF Places
<1>6. ASSUME NEW c \in Calls, NEW error \in Errors, Fails(c, error)
      PROVE  RejectedWhenExhausted'
  <2>1. /\ idx[c] \in Endpoints
        /\ \A e \in Endpoints :
              outcome'[c][e] = IF e = idx[c] THEN error ELSE outcome[c][e]
        /\ \A d \in Calls \ {c} : pc'[d] = pc[d] /\ idx'[d] = idx[d]
    BY <1>6, FailsPointwise
  <2>2. \A d \in Calls \ {c} : outcome'[d] = outcome[d]
    BY <1>6, FailsMoves DEF TypeOK
  <2>3. \/ /\ reason' = reason
           /\ \E p \in {"login", "resume"} : pc' = [pc EXCEPT ![c] = p]
        \/ /\ error \in {"noResponse", "unavailable"} => ~(idx[c] < N)
           /\ error = "unauthorized" => ~KeepAlive
           /\ idx' = idx
           /\ pc' = [pc EXCEPT ![c] = "rejected"]
           /\ reason' = [reason EXCEPT ![c] = error]
        \/ /\ idx' = idx
           /\ pc' = [pc EXCEPT ![c] = "rejected"]
           /\ reason' = [reason EXCEPT ![c] = "typeError"]
    BY <1>6, FailsMoves
  <2>4. CASE /\ reason' = reason
             /\ \E p \in {"login", "resume"} : pc' = [pc EXCEPT ![c] = p]
    BY <1>1, <2>1, <2>2, <2>4 DEF Places
  <2>5. CASE /\ error \in {"noResponse", "unavailable"} => ~(idx[c] < N)
             /\ error = "unauthorized" => ~KeepAlive
             /\ idx' = idx
             /\ pc' = [pc EXCEPT ![c] = "rejected"]
             /\ reason' = [reason EXCEPT ![c] = error]
    <3>1. /\ reason'[c] = error
          /\ outcome'[c][idx'[c]] = error
      BY <2>1, <2>5 DEF TypeOK
    <3>2. \A d \in Calls \ {c} : reason'[d] = reason[d]
      BY <2>5 DEF TypeOK
    <3>3. error \in {"noResponse", "unavailable"} =>
             \A e \in Endpoints : outcome'[c][e] \in {"noResponse", "unavailable"}
      BY <2>1, <2>5 DEF FailoverInOrder
    <3> QED
      BY <2>1, <2>2, <2>5, <3>1, <3>2, <3>3 DEF RejectedWhenExhausted
  <2>6. CASE /\ idx' = idx
             /\ pc' = [pc EXCEPT ![c] = "rejected"]
             /\ reason' = [reason EXCEPT ![c] = "typeError"]
    BY <2>1, <2>2, <2>6, SMTT(60) DEF RejectedWhenExhausted, TypeOK, Errors
  <2> QED
    BY <2>3, <2>4, <2>5, <2>6
<1>7. ASSUME NEW r \in wire, Serve(r)
      PROVE  RejectedWhenExhausted'
  BY <1>7, ServeCases DEF RejectedWhenExhausted
<1>8. ASSUME NEW token \in valid, Expire(token)
      PROVE  RejectedWhenExhausted'
  BY <1>8 DEF RejectedWhenExhausted, Expire
<1>9. CASE UNCHANGED vars
  BY <1>9 DEF RejectedWhenExhausted, vars
<1> QED
  BY <1>2, <1>3, <1>4, <1>5, <1>6, <1>7, <1>8, <1>9, StepCases

----------------------------------------------------------------------------
(* Users and tokens                                                        *)

\* What a failed request changes in the login and the tokens.
LEMMA FailsLogin ==
    ASSUME NEW c \in Calls, NEW error \in Errors, Fails(c, error)
    PROVE  /\ pc[c] = "sent"
           /\ UNCHANGED <<user, header, logins, valid>>
           /\ reply' = [reply EXCEPT ![c] = "none"]
           /\ \/ /\ user # NoUser
                 /\ reply[c] = "unauthorized"
                 /\ cleared' = cleared \cup {user}
                 /\ refused' = [refused EXCEPT ![c] = @ \cup {header[c]}]
                 /\ reason' = reason
                 /\ \/ /\ Auth # "none" /\ captured' = captured
                       /\ pc' = [pc EXCEPT ![c] = "login"]
                    \/ /\ Auth = "none"
                       /\ captured' = [captured EXCEPT ![c] = user]
                       /\ pc' = [pc EXCEPT ![c] = "resume"]
              \/ /\ cleared' = cleared
                 /\ refused' = [refused EXCEPT ![c] = {}]
                 /\ reason' = reason
                 /\ \/ /\ Auth # "none" /\ captured' = captured
                       /\ pc' = [pc EXCEPT ![c] = "login"]
                    \/ /\ Auth = "none" \/ user # NoUser
                       /\ captured' = [captured EXCEPT ![c] = user]
                       /\ pc' = [pc EXCEPT ![c] = "resume"]
              \/ /\ UNCHANGED <<cleared, refused, captured>>
                 /\ pc' = [pc EXCEPT ![c] = "rejected"]
                 /\ \/ reason' = [reason EXCEPT ![c] = error]
                    \/ /\ user = NoUser
                       /\ reason' = [reason EXCEPT ![c] = "typeError"]
<1>1. /\ pc[c] = "sent"
      /\ UNCHANGED <<user, header, logins, valid>>
      /\ reply' = [reply EXCEPT ![c] = "none"]
      /\ HandleError(c, error)
      /\ error = "unauthorized" => reply[c] = "unauthorized"
  BY DEF Fails, HandleError
<1>2. CASE error = "unauthorized" /\ RetrySameEndpoint(c)
  BY <1>1, <1>2, AuthenticateCases DEF RetrySameEndpoint, LoginDue, HasToken
<1>3. CASE ClearTokenThrows(c)
  BY <1>1, <1>3 DEF ClearTokenThrows, Reject
<1>4. CASE RetryNextEndpoint(c)
  BY <1>1, <1>4, AuthenticateCases DEF RetryNextEndpoint, LoginDue, HasToken
<1>5. CASE GiveUp(c, error)
  BY <1>1, <1>5 DEF GiveUp, Reject
<1> QED
  BY <1>1, <1>2, <1>3, <1>4, <1>5, HandleErrorCases

\* What the first login of a call captures.
LEMMA ExecuteLogin ==
    ASSUME NEW c \in Calls, Execute(c)
    PROVE  /\ pc[c] = "idle"
           /\ UNCHANGED <<user, cleared, logins, valid, header, reply, reason,
                          refused>>
           /\ \/ /\ Auth # "none" /\ captured' = captured
                 /\ pc' = [pc EXCEPT ![c] = "login"]
              \/ /\ Auth = "none" \/ user # NoUser
                 /\ captured' = [captured EXCEPT ![c] = user]
                 /\ pc' = [pc EXCEPT ![c] = "resume"]
BY AuthenticateCases DEF Execute, LoginDue, HasToken

LEMMA UserStep ==
    ASSUME TypeOK, Shape, UserInv, TypeErrorWithoutCredentials, [Next]_vars
    PROVE  UserInv' /\ TypeErrorWithoutCredentials'
<1> USE DEF UserInv, TypeErrorWithoutCredentials
<1>1. ASSUME NEW c \in Calls, Execute(c)
      PROVE  UserInv' /\ TypeErrorWithoutCredentials'
  <2>1. PICK p \in {"login", "resume"} :
           /\ UNCHANGED <<user, logins, reason>>
           /\ pc' = [pc EXCEPT ![c] = p]
           /\ p = "login" => Auth # "none" /\ captured' = captured
           /\ p = "resume" => /\ Auth = "none" \/ user # NoUser
                              /\ captured' = [captured EXCEPT ![c] = user]
    BY <1>1, ExecuteLogin
  <2> QED
    BY <2>1 DEF TypeOK
<1>2. ASSUME NEW c \in Calls, LoginSucceeds(c)
      PROVE  UserInv' /\ TypeErrorWithoutCredentials'
  BY <1>2 DEF LoginSucceeds, TypeOK
<1>3. ASSUME NEW c \in Calls, LoginFails(c)
      PROVE  UserInv' /\ TypeErrorWithoutCredentials'
  BY <1>3 DEF LoginFails, Reject, TypeOK
<1>4. ASSUME NEW c \in Calls, Send(c)
      PROVE  UserInv' /\ TypeErrorWithoutCredentials'
  BY <1>4 DEF Send, TypeOK
<1>5. ASSUME NEW c \in Calls, Resolves(c)
      PROVE  UserInv' /\ TypeErrorWithoutCredentials'
  BY <1>5 DEF Resolves, TypeOK
<1>6. ASSUME NEW c \in Calls, NEW error \in Errors, Fails(c, error)
      PROVE  UserInv' /\ TypeErrorWithoutCredentials'
  <2>1. PICK p \in {"login", "resume", "rejected"} :
           /\ pc[c] = "sent"
           /\ UNCHANGED <<user, logins>>
           /\ pc' = [pc EXCEPT ![c] = p]
           /\ p = "login" => Auth # "none" /\ captured' = captured
           /\ p = "resume" => /\ Auth = "none" \/ user # NoUser
                              /\ captured' = [captured EXCEPT ![c] = user]
           /\ p = "rejected" => captured' = captured
           /\ \/ reason' = reason
              \/ reason' = [reason EXCEPT ![c] = error]
              \/ user = NoUser /\ reason' = [reason EXCEPT ![c] = "typeError"]
    BY <1>6, FailsLogin
  <2>2. UserInv'
    BY <2>1 DEF TypeOK
  <2>3. TypeErrorWithoutCredentials'
    BY <2>1 DEF TypeOK, Errors
  <2> QED
    BY <2>2, <2>3
<1>7. ASSUME NEW r \in wire, Serve(r)
      PROVE  UserInv' /\ TypeErrorWithoutCredentials'
  BY <1>7, ServeCases
<1>8. ASSUME NEW token \in valid, Expire(token)
      PROVE  UserInv' /\ TypeErrorWithoutCredentials'
  BY <1>8 DEF Expire
<1>9. CASE UNCHANGED vars
  BY <1>9 DEF vars
<1> QED
  BY <1>1, <1>2, <1>3, <1>4, <1>5, <1>6, <1>7, <1>8, <1>9, StepCases

\* The third part of TokenInv, for one call.
FreshUser(c) ==
    pc[c] = "resume" /\ refused[c] # {} =>
        /\ HasToken(captured[c], cleared)
        /\ TokenOf(captured[c]) \notin refused[c]
        /\ captured[c] # user
        /\ \A d \in Calls \ {c} : captured[d] # captured[c]

LEMMA TokenStep ==
    ASSUME TypeOK, Shape, WireInv, UserInv, TokenInv, FreshTokenAfterRefusal,
           [Next]_vars
    PROVE  TokenInv' /\ FreshTokenAfterRefusal'
<1> DEFINE Valid == \A c \in Calls :
               /\ refused[c] \cap valid = {}
               /\ reply[c] = "unauthorized" => header[c] \notin valid
<1> DEFINE Goal == /\ Valid /\ FreshTokenAfterRefusal
                   /\ \A c \in Calls : FreshUser(c)
<1>0. Goal /\ (Goal' => TokenInv' /\ FreshTokenAfterRefusal')
  BY DEF TokenInv, FreshUser
<1>types. /\ user \in 0 .. logins /\ logins \in Nat
          /\ cleared \subseteq 1 .. logins
          /\ pc \in [Calls -> Places]
          /\ captured \in [Calls -> 0 .. logins]
          /\ header \in [Calls -> 0 .. logins]
          /\ refused \in [Calls -> SUBSET (0 .. logins)]
          /\ reply \in [Calls -> {"none"} \cup Answers]
  BY DEF TypeOK
<1> USE DEF FreshTokenAfterRefusal
<1>1. ASSUME NEW c \in Calls, Execute(c)
      PROVE  Goal'
  <2>1. PICK p \in {"login", "resume"} :
           /\ pc[c] = "idle"
           /\ UNCHANGED <<user, cleared, logins, valid, header, reply, refused>>
           /\ pc' = [pc EXCEPT ![c] = p]
           /\ \/ captured' = captured
              \/ captured' = [captured EXCEPT ![c] = user]
    BY <1>1, ExecuteLogin
  <2>2. refused[c] = {}
    BY <2>1 DEF Shape
  <2>3. Valid' /\ FreshTokenAfterRefusal'
    BY <1>0, <1>types, <2>1
  <2>4. ASSUME NEW d \in Calls
        PROVE  FreshUser(d)'
    BY <1>0, <1>types, <2>1, <2>2 DEF FreshUser, HasToken, TokenOf
  <2> QED
    BY <2>3, <2>4
<1>2. ASSUME NEW c \in Calls, LoginSucceeds(c)
      PROVE  Goal'
  <2>1. /\ pc[c] = "login"
        /\ Auth = "basic" => 1 \in valid
        /\ valid' = IF Auth = "gdb" THEN valid \cup {logins + 1} ELSE valid
        /\ captured' = [captured EXCEPT ![c] = logins + 1]
        /\ pc' = [pc EXCEPT ![c] = "resume"]
        /\ UNCHANGED <<user, cleared, header, reply, refused>>
    BY <1>2 DEF LoginSucceeds
  <2>2. Valid' /\ FreshTokenAfterRefusal'
    BY <1>0, <1>types, <2>1
  <2>3. FreshUser(c)'
    <3>1. Auth \in {"basic", "gdb"}
      BY <2>1 DEF UserInv
    <3>2. TokenOf(logins + 1) \notin refused[c]
      BY <1>0, <1>types, <2>1, <3>1 DEF TokenOf
    <3>3. logins + 1 # user /\ HasToken(logins + 1, cleared)
      BY <1>types DEF HasToken
    <3>4. \A d \in Calls \ {c} : captured'[d] # logins + 1
      BY <1>types, <2>1
    <3> QED
      BY <1>types, <2>1, <3>2, <3>3, <3>4 DEF FreshUser, HasToken, TokenOf
  <2>4. ASSUME NEW d \in Calls \ {c}
        PROVE  FreshUser(d)'
    BY <1>0, <1>types, <2>1 DEF FreshUser, HasToken, TokenOf
  <2> QED
    BY <2>2, <2>3, <2>4
<1>3. ASSUME NEW c \in Calls, LoginFails(c)
      PROVE  Goal'
  <2>1. /\ UNCHANGED <<user, cleared, valid, captured, header, reply, refused>>
        /\ pc' = [pc EXCEPT ![c] = "rejected"]
    BY <1>3 DEF LoginFails, Reject
  <2> QED
    BY <1>0, <1>types, <2>1 DEF FreshUser, HasToken, TokenOf
<1>4. ASSUME NEW c \in Calls, Send(c)
      PROVE  Goal'
  <2>1. /\ pc[c] = "resume"
        /\ user' = captured[c]
        /\ captured' = [captured EXCEPT ![c] = NoUser]
        /\ header' = [header EXCEPT ![c] =
                        IF HasToken(captured[c], cleared)
                          THEN TokenOf(captured[c]) ELSE @]
        /\ pc' = [pc EXCEPT ![c] = "sent"]
        /\ UNCHANGED <<cleared, logins, valid, reply, refused>>
    BY <1>4 DEF Send
  <2>2. reply[c] = "none"
    BY <2>1 DEF Shape
  <2>3. Valid'
    BY <1>0, <1>types, <2>1, <2>2
  <2>4. FreshTokenAfterRefusal'
    BY <1>0, <1>types, <2>1 DEF FreshUser
  <2>5. ASSUME NEW d \in Calls
        PROVE  FreshUser(d)'
    BY <1>0, <1>types, <2>1 DEF FreshUser, HasToken, TokenOf
  <2> QED
    BY <2>3, <2>4, <2>5
<1>5. ASSUME NEW c \in Calls, Resolves(c)
      PROVE  Goal'
  <2>1. /\ UNCHANGED <<user, cleared, valid, captured, header, refused>>
        /\ pc' = [pc EXCEPT ![c] = "resolved"]
        /\ reply' = [reply EXCEPT ![c] = "none"]
    BY <1>5 DEF Resolves
  <2> QED
    BY <1>0, <1>types, <2>1 DEF FreshUser, HasToken, TokenOf
<1>6. ASSUME NEW c \in Calls, NEW error \in Errors, Fails(c, error)
      PROVE  Goal'
  <2>1. /\ pc[c] = "sent"
        /\ UNCHANGED <<user, header, logins, valid>>
        /\ reply' = [reply EXCEPT ![c] = "none"]
    BY <1>6, FailsLogin
  <2>2. CASE /\ user # NoUser
             /\ reply[c] = "unauthorized"
             /\ cleared' = cleared \cup {user}
             /\ refused' = [refused EXCEPT ![c] = @ \cup {header[c]}]
             /\ captured' = captured
             /\ pc' = [pc EXCEPT ![c] = "login"]
    <3>1. Valid' /\ FreshTokenAfterRefusal'
      BY <1>0, <1>types, <2>1, <2>2
    <3>2. ASSUME NEW d \in Calls
          PROVE  FreshUser(d)'
      BY <1>0, <1>types, <2>1, <2>2 DEF FreshUser, HasToken, TokenOf
    <3> QED
      BY <3>1, <3>2
  <2>3. CASE /\ cleared' = cleared
             /\ refused' = [refused EXCEPT ![c] = {}]
             /\ \E p \in {"login", "resume"} : pc' = [pc EXCEPT ![c] = p]
             /\ \/ captured' = captured
                \/ captured' = [captured EXCEPT ![c] = user]
    <3>1. Valid' /\ FreshTokenAfterRefusal'
      BY <1>0, <1>types, <2>1, <2>3
    <3>2. ASSUME NEW d \in Calls
          PROVE  FreshUser(d)'
      BY <1>0, <1>types, <2>1, <2>3 DEF FreshUser, HasToken, TokenOf
    <3> QED
      BY <3>1, <3>2
  <2>4. CASE /\ UNCHANGED <<cleared, refused, captured>>
             /\ pc' = [pc EXCEPT ![c] = "rejected"]
    BY <1>0, <1>types, <2>1, <2>4 DEF FreshUser, HasToken, TokenOf
  <2>5. Auth = "none" => user = NoUser
    BY <1>types DEF UserInv
  <2> QED
    BY <1>6, <2>2, <2>3, <2>4, <2>5, FailsLogin
<1>7. ASSUME NEW r \in wire, Serve(r)
      PROVE  Goal'
  <2>1. UNCHANGED <<user, cleared, valid, pc, idx, captured, header, refused>>
    BY <1>7, ServeCases
  <2>2. PICK answer \in Answers : /\ Answer(r, answer)
                                  /\ answer = "unauthorized" =>
                                        r.token \notin valid
    BY <1>7, ServeCases DEF Answers
  <2>3. /\ r.call \in Calls
        /\ pc[r.call] = "sent" /\ idx[r.call] = r.endpoint =>
              r.token = header[r.call]
    <3>1. r.call \in Calls /\ r.endpoint \in Nat /\ idx[r.call] \in Nat
      BY DEF TypeOK
    <3>2. \/ r.token = header[r.call]
          \/ r.endpoint < idx[r.call]
          \/ pc[r.call] \in {"resolved", "rejected"}
      BY DEF WireInv, LeftBehind, Settled
    <3> QED
      BY <3>1, <3>2
  <2>4. Valid'
    BY <1>0, <1>types, <2>1, <2>2, <2>3, AnswerCases
  <2> QED
    BY <1>0, <2>1, <2>4 DEF FreshUser, HasToken, TokenOf
<1>8. ASSUME NEW token \in valid, Expire(token)
      PROVE  Goal'
  BY <1>0, <1>8 DEF Expire, FreshUser, HasToken, TokenOf
<1>9. CASE UNCHANGED vars
  BY <1>0, <1>9 DEF vars, FreshUser, HasToken, TokenOf
<1> QED
  BY <1>0, <1>1, <1>2, <1>3, <1>4, <1>5, <1>6, <1>7, <1>8, <1>9, StepCases

----------------------------------------------------------------------------
(* Theorems                                                                *)

\* The strengthened invariant is inductive.
THEOREM Invariant == Spec => []IInv
<1>1. Init => IInv
  BY InitIInv
<1>2. IInv /\ [Next]_vars => IInv'
  <2> SUFFICES ASSUME IInv, [Next]_vars
               PROVE  IInv'
    OBVIOUS
  <2>1. /\ TypeOK /\ Shape /\ FailoverInOrder /\ WireInv /\ AppliedInv
        /\ ResolvedMeansApplied /\ RejectedWhenExhausted /\ UserInv
        /\ TypeErrorWithoutCredentials /\ TokenInv /\ FreshTokenAfterRefusal
    BY DEF IInv
  <2>2. TypeOK' /\ Shape'
    BY <2>1, TypeStep, ShapeStep
  <2>3. FailoverInOrder' /\ RejectedWhenExhausted'
    BY <2>1, FailoverStep, RejectedStep
  <2>4. WireInv' /\ AppliedInv'
    BY <2>1, WireStep, AppliedStep
  <2>5. ResolvedMeansApplied'
    BY <2>1, <2>4, ResolvedStep
  <2>6. UserInv' /\ TypeErrorWithoutCredentials'
    BY <2>1, UserStep
  <2>7. TokenInv' /\ FreshTokenAfterRefusal'
    BY <2>1, TokenStep
  <2> QED
    BY <2>2, <2>3, <2>4, <2>5, <2>6, <2>7 DEF IInv
<1> QED
  BY <1>1, <1>2, PTL DEF Spec

\* Every variable keeps its type, for any number of calls and endpoints.
THEOREM TypeCorrect == Spec => []TypeOK
<1>1. IInv => TypeOK
  BY DEF IInv
<1> QED
  BY <1>1, Invariant, PTL

\* Failover visits the endpoints in order and leaves one only after a failure
\* that retryExecution may retry.
THEOREM FailoverCorrect == Spec => []FailoverInOrder
<1>1. IInv => FailoverInOrder
  BY DEF IInv
<1> QED
  BY <1>1, Invariant, PTL

\* No endpoint carries a call out twice, and a call carried out is either
\* waited for, resolved, or its answer was lost.
THEOREM EffectCorrect == Spec => []EffectAtMostOnce
<1>1. IInv => EffectAtMostOnce
  BY DEF IInv, AppliedInv, EffectAtMostOnce, LeftBehind
<1> QED
  BY <1>1, Invariant, PTL

\* A call resolves only with an endpoint that carried it out.
THEOREM ResolvedCorrect == Spec => []ResolvedMeansApplied
<1>1. IInv => ResolvedMeansApplied
  BY DEF IInv
<1> QED
  BY <1>1, Invariant, PTL

\* A call gives up on busy or unreachable endpoints only after all of them,
\* and on a 401 only without keepAlive.
THEOREM RejectedCorrect == Spec => []RejectedWhenExhausted
<1>1. IInv => RejectedWhenExhausted
  BY DEF IInv
<1> QED
  BY <1>1, Invariant, PTL

\* With credentials the error handler always finds a user whose token it can
\* clear.
THEOREM TypeErrorCorrect == Spec => []TypeErrorWithoutCredentials
<1>1. IInv => TypeErrorWithoutCredentials
  BY DEF IInv
<1> QED
  BY <1>1, Invariant, PTL

\* A request refused with 401 is repeated with a token the endpoint has not
\* refused to this call, however the calls share and clear the user.
THEOREM FreshTokenCorrect == Spec => []FreshTokenAfterRefusal
<1>1. IInv => FreshTokenAfterRefusal
  BY DEF IInv
<1> QED
  BY <1>1, Invariant, PTL

----------------------------------------------------------------------------
(* Uploads                                                                 *)

\* The call is at its first endpoint, which has not refused it.
FirstTry(c) == idx[c] <= 1 /\ refused[c] = {}

\* Until a call is repeated, its body is read by one request only.
BodyInv ==
    \A c \in Calls :
        FirstTry(c) =>
            /\ pc[c] \in {"idle", "login", "resume"} => body[c] = "unsent"
            /\ pc[c] \in {"sent", "resolved"} => body[c] = "whole"

\* A failed request leads out of the first try or ends the call.
LEMMA FailsFirstTry ==
    ASSUME TypeOK, Shape, NEW c \in Calls, NEW error \in Errors, Fails(c, error)
    PROVE  /\ body' = body
           /\ \A d \in Calls \ {c} : /\ pc'[d] = pc[d] /\ idx'[d] = idx[d]
                                     /\ refused'[d] = refused[d]
           /\ pc'[c] = "rejected" \/ ~FirstTry(c)'
<1>1. pc[c] = "sent" /\ HandleError(c, error) /\ body' = body
  BY DEF Fails, HandleError
<1>2. idx[c] >= 1 /\ idx[c] \in Nat
  BY <1>1 DEF TypeOK, Shape
<1>3. CASE RetrySameEndpoint(c)
  <2>1. \E p \in {"login", "resume"} : pc' = [pc EXCEPT ![c] = p]
    BY <1>3, AuthenticateCases DEF RetrySameEndpoint
  <2>2. idx' = idx /\ refused' = [refused EXCEPT ![c] = @ \cup {header[c]}]
    BY <1>3 DEF RetrySameEndpoint
  <2> QED BY <1>1, <2>1, <2>2 DEF TypeOK, FirstTry
<1>4. CASE RetryNextEndpoint(c)
  <2>1. \E p \in {"login", "resume"} : pc' = [pc EXCEPT ![c] = p]
    BY <1>4, AuthenticateCases DEF RetryNextEndpoint
  <2>2. /\ idx' = [idx EXCEPT ![c] = idx[c] + 1]
        /\ refused' = [refused EXCEPT ![c] = {}]
    BY <1>4 DEF RetryNextEndpoint
  <2> QED BY <1>1, <1>2, <2>1, <2>2 DEF TypeOK, FirstTry
<1>5. CASE ClearTokenThrows(c) \/ GiveUp(c, error)
  <2>1. /\ pc' = [pc EXCEPT ![c] = "rejected"]
        /\ idx' = idx /\ refused' = refused
    BY <1>5 DEF ClearTokenThrows, GiveUp, Reject
  <2> QED BY <1>1, <2>1 DEF TypeOK
<1> QED
  BY <1>1, <1>3, <1>4, <1>5, HandleErrorCases

\* Only Send reads a body, and it is done once in a first try.
LEMMA BodyStep ==
    ASSUME TypeOK, Shape, BodyInv, [Next]_vars
    PROVE  BodyInv'
<1>1. ASSUME NEW c \in Calls, Execute(c)
      PROVE  BodyInv'
  <2>1. pc[c] = "idle" /\ \E p \in {"login", "resume"} : pc' = [pc EXCEPT ![c] = p]
    BY <1>1, ExecuteLogin
  <2>2. idx' = [idx EXCEPT ![c] = 1] /\ refused' = refused /\ body' = body
    BY <1>1 DEF Execute
  <2>3. idx[c] = 0
    BY <2>1 DEF Shape
  <2> QED BY <2>1, <2>2, <2>3 DEF TypeOK, BodyInv, FirstTry
<1>2. ASSUME NEW c \in Calls, LoginSucceeds(c)
      PROVE  BodyInv'
  BY <1>2 DEF TypeOK, BodyInv, FirstTry, LoginSucceeds
<1>3. ASSUME NEW c \in Calls, LoginFails(c)
      PROVE  BodyInv'
  BY <1>3 DEF TypeOK, BodyInv, FirstTry, LoginFails, Reject
<1>4. ASSUME NEW c \in Calls, Send(c)
      PROVE  BodyInv'
  <2>1. /\ pc[c] = "resume" /\ pc' = [pc EXCEPT ![c] = "sent"]
        /\ idx' = idx /\ refused' = refused
        /\ \A d \in Calls \ {c} : body'[d] = body[d]
        /\ body[c] = "unsent" => body'[c] = "whole"
    BY <1>4 DEF Send, TypeOK
  <2> QED BY <2>1 DEF TypeOK, BodyInv, FirstTry
<1>5. ASSUME NEW c \in Calls, Resolves(c)
      PROVE  BodyInv'
  BY <1>5 DEF TypeOK, BodyInv, FirstTry, Resolves
<1>6. ASSUME NEW c \in Calls, NEW error \in Errors, Fails(c, error)
      PROVE  BodyInv'
  BY <1>6, FailsFirstTry DEF BodyInv, FirstTry
<1>7. ASSUME NEW r \in wire, Serve(r)
      PROVE  BodyInv'
  BY <1>7 DEF BodyInv, FirstTry, Serve
<1>8. ASSUME NEW token \in valid, Expire(token)
      PROVE  BodyInv'
  BY <1>8 DEF BodyInv, FirstTry, Expire
<1>9. CASE UNCHANGED vars
  BY <1>9 DEF BodyInv, FirstTry, vars
<1> QED
  BY <1>1, <1>2, <1>3, <1>4, <1>5, <1>6, <1>7, <1>8, <1>9, StepCases

\* An upload that resolves at the first endpoint, without having been refused there, was
\* received whole, as rdf-repository-client.js:323-324 promises; RC_Upload shows one that is
\* repeated.
THEOREM UploadCorrect ==
    Spec => [](\A c \in Uploads : pc[c] = "resolved" /\ FirstTry(c) => body[c] = "whole")
<1>1. Init => BodyInv
  BY DEF Init, BodyInv
<1>2. IInv /\ BodyInv /\ [Next]_vars => BodyInv'
  BY BodyStep DEF IInv
<1>3. Uploads \subseteq Calls
  OBVIOUS
<1>4. BodyInv => \A c \in Uploads : pc[c] = "resolved" /\ FirstTry(c) => body[c] = "whole"
  BY <1>3 DEF BodyInv
<1> QED
  BY <1>1, <1>2, <1>4, Invariant, PTL DEF Spec

----------------------------------------------------------------------------
(* Refinement                                                              *)

Status == [c \in Calls |-> StatusOf(pc[c])]

LEMMA StatusValues ==
    /\ StatusOf("idle") = "new"
    /\ StatusOf("login") = "running"
    /\ StatusOf("resume") = "running"
    /\ StatusOf("sent") = "running"
    /\ StatusOf("resolved") = "resolved"
    /\ StatusOf("rejected") = "rejected"
BY DEF StatusOf, Settled

\* Moving one call moves one status.
LEMMA StatusMoves ==
    ASSUME TypeOK, NEW c \in Calls, NEW p, pc' = [pc EXCEPT ![c] = p]
    PROVE  Status' = [Status EXCEPT ![c] = StatusOf(p)]
BY DEF TypeOK, Status

\* A move between places of one status is no move.
LEMMA StatusStays ==
    ASSUME TypeOK, NEW c \in Calls, NEW p, pc' = [pc EXCEPT ![c] = p],
           StatusOf(pc[c]) = StatusOf(p)
    PROVE  Status' = Status
BY DEF TypeOK, Status

LEMMA AbstractStep ==
    ASSUME IInv, IInv', [Next]_vars
    PROVE  [Abstract!Next]_(Abstract!vars)
<1> USE DEF Abstract!vars
<1>1. TypeOK /\ Shape /\ AppliedInv /\ AppliedInv' /\ FailoverInOrder
  BY DEF IInv
<1>2. ASSUME NEW c \in Calls, Execute(c)
      PROVE  Abstract!Next
  <2>1. /\ pc[c] = "idle" /\ applied' = applied
        /\ idx' = [idx EXCEPT ![c] = 1]
        /\ \E p \in {"login", "resume"} : pc' = [pc EXCEPT ![c] = p]
    BY <1>2, AuthenticateCases DEF Execute
  <2>2. Status' = [Status EXCEPT ![c] = "running"]
    <3>1. PICK p \in {"login", "resume"} : pc' = [pc EXCEPT ![c] = p]
      BY <2>1
    <3>2. Status' = [Status EXCEPT ![c] = StatusOf(p)]
      BY <1>1, <3>1, StatusMoves
    <3> QED
      BY <3>1, <3>2, StatusValues
  <2>3. Status[c] = "new"
    BY <2>1, StatusValues DEF Status
  <2> QED
    BY <2>1, <2>2, <2>3 DEF Abstract!Next, Abstract!Start, Status
<1>3. ASSUME NEW c \in Calls, LoginSucceeds(c) \/ Send(c)
      PROVE  UNCHANGED Abstract!vars
  <2>1. /\ UNCHANGED <<idx, applied>>
        /\ pc[c] \in {"login", "resume"}
        /\ \E p \in {"resume", "sent"} : pc' = [pc EXCEPT ![c] = p]
    BY <1>3 DEF LoginSucceeds, Send
  <2>2. Status' = Status
    BY <1>1, <2>1, StatusStays, StatusValues
  <2> QED
    BY <2>1, <2>2 DEF Status
<1>4. ASSUME NEW c \in Calls, LoginFails(c)
      PROVE  Abstract!Next
  <2>1. /\ UNCHANGED <<idx, applied>>
        /\ pc[c] = "login"
        /\ pc' = [pc EXCEPT ![c] = "rejected"]
    BY <1>4 DEF LoginFails, Reject
  <2>2. Status' = [Status EXCEPT ![c] = "rejected"]
    <3>1. Status' = [Status EXCEPT ![c] = StatusOf("rejected")]
      BY <1>1, <2>1, StatusMoves
    <3> QED
      BY <3>1, StatusValues
  <2>3. Status[c] = "running"
    BY <2>1, StatusValues DEF Status
  <2> QED
    BY <2>1, <2>2, <2>3 DEF Abstract!Next, Abstract!Reject, Status
<1>5. ASSUME NEW c \in Calls, Resolves(c)
      PROVE  Abstract!Next
  <2>1. /\ UNCHANGED <<idx, applied>>
        /\ pc[c] = "sent" /\ reply[c] = "ok"
        /\ pc' = [pc EXCEPT ![c] = "resolved"]
    BY <1>5 DEF Resolves
  <2>2. Status' = [Status EXCEPT ![c] = "resolved"]
    <3>1. Status' = [Status EXCEPT ![c] = StatusOf("resolved")]
      BY <1>1, <2>1, StatusMoves
    <3> QED
      BY <3>1, StatusValues
  <2>3. Status[c] = "running"
    BY <2>1, StatusValues DEF Status
  <2>4. idx[c] \in Endpoints
    BY <1>1, <2>1 DEF TypeOK, Shape
  <2>5. applied[c][idx[c]] = 1
    BY <1>1, <2>1, <2>4 DEF AppliedInv
  <2> QED
    BY <2>1, <2>2, <2>3, <2>5 DEF Status, Abstract!Next, Abstract!Resolve
<1>6. ASSUME NEW c \in Calls, NEW error \in Errors, Fails(c, error)
      PROVE  [Abstract!Next]_(Abstract!vars)
  <2>1. pc[c] = "sent" /\ applied' = applied /\ Status[c] = "running"
    BY <1>6, FailsMoves, StatusValues DEF Status
  <2>2. CASE idx' = idx /\ \E p \in {"login", "resume"} :
                              pc' = [pc EXCEPT ![c] = p]
    <3>1. Status' = Status
      BY <1>1, <2>1, <2>2, StatusStays, StatusValues, ZenonT(60)
    <3> QED
      BY <2>1, <2>2, <3>1 DEF Status
  <2>3. CASE /\ idx[c] < N /\ idx' = [idx EXCEPT ![c] = idx[c] + 1]
             /\ \E p \in {"login", "resume"} : pc' = [pc EXCEPT ![c] = p]
    <3>1. Status' = Status
      BY <1>1, <2>1, <2>3, StatusStays, StatusValues, ZenonT(60)
    <3> QED
      BY <2>1, <2>3, <3>1 DEF Abstract!Next, Abstract!Advance, Status
  <2>4. CASE idx' = idx /\ pc' = [pc EXCEPT ![c] = "rejected"]
    <3>0. Status' = [Status EXCEPT ![c] = StatusOf("rejected")]
      BY <1>1, <2>4, StatusMoves
    <3>1. Status' = [Status EXCEPT ![c] = "rejected"]
      BY <3>0, StatusValues
    <3> QED
      BY <2>1, <2>4, <3>1 DEF Abstract!Next, Abstract!Reject, Status
  <2> QED
    BY <1>6, <2>2, <2>3, <2>4, FailsMoves
<1>7. ASSUME NEW r \in wire, Serve(r)
      PROVE  [Abstract!Next]_(Abstract!vars)
  <2>1. /\ UNCHANGED <<pc, idx>>
        /\ \/ applied' = [applied EXCEPT ![r.call][r.endpoint] = @ + 1]
           \/ applied' = applied
    BY <1>7, ServeCases
  <2>2. /\ r.call \in Calls /\ r.endpoint \in Endpoints
        /\ applied[r.call][r.endpoint] = 0
        /\ r.endpoint <= idx[r.call]
    <3>1. /\ r.call \in Calls /\ r.endpoint \in Endpoints
          /\ idx[r.call] \in Nat /\ r.endpoint \in Nat
      BY <1>1 DEF TypeOK
    <3>2. applied[r.call][r.endpoint] = 0
      BY DEF IInv, WireInv
    <3>3. ~(r.endpoint > idx[r.call])
      BY <1>1, <3>1 DEF FailoverInOrder
    <3> QED
      BY <3>1, <3>2, <3>3
  <2>3. CASE applied' = [applied EXCEPT ![r.call][r.endpoint] = @ + 1]
    <3>1. applied' = [applied EXCEPT ![r.call][r.endpoint] = 1]
      BY <2>2, <2>3
    <3> QED
      BY <2>1, <2>2, <3>1
      DEF Abstract!Next, Abstract!TakeEffect, Abstract!Endpoints, Status
  <2> QED
    BY <2>1, <2>3 DEF Status
<1>8. ASSUME NEW token \in valid, Expire(token)
      PROVE  UNCHANGED Abstract!vars
  BY <1>8 DEF Expire, Status
<1>9. CASE UNCHANGED vars
  BY <1>9 DEF vars, Status
<1> QED
  BY <1>1, <1>2, <1>3, <1>4, <1>5, <1>6, <1>7, <1>8, <1>9, StepCases

\* The client implements the failover it promises, for every configuration:
\* endpoints in order, each at most once, resolved only with an effect, and
\* nothing at an endpoint the call has not reached.
THEOREM Refinement == Spec => ImplementsFailover
<1>1. Init => Abstract!Init
  BY StatusValues DEF Init, Abstract!Init, Abstract!Endpoints
<1>2. IInv /\ IInv' /\ [Next]_vars => [Abstract!Next]_(Abstract!vars)
  BY AbstractStep
<1> QED
  BY <1>1, <1>2, Invariant, PTL DEF Spec, Abstract!Spec, ImplementsFailover
=============================================================================
