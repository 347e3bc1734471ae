---------------------------- MODULE Server_proofs ----------------------------
(***************************************************************************)
(* What the executor of Server promises, proved for every set of calls,    *)
(* every set of settings and any number of logouts and revocations: that   *)
(* it is a Failover with one endpoint, whatever the settings, and what its *)
(* re-login is good for where tokens do not expire.                        *)
(***************************************************************************)
EXTENDS Server, TLAPS

\* Which variables of a call are in use at each of its places, and where its effect shows.  A
\* request on the wire has had no effect and no answer.
CallOK(c) ==
    /\ applied[c] \in {0, 1}
    /\ pending[c] => /\ applied[c] = 0 /\ reply[c] = "none"
                     /\ pc[c] \in {"sent", "rejected"}
    /\ reply[c] # "none" => pc[c] \in {"login", "sent"}
    /\ pc[c] = "login" => reply[c] \in {"none", "unauthorized"}
    /\ applied[c] = 1 => \/ pc[c] \in {"resolved", "rejected"}
                         \/ pc[c] = "sent" /\ reply[c] = "ok"
    /\ pc[c] = "resolved" \/ reply[c] = "ok" => applied[c] = 1

CallInv == \A c \in Calls : CallOK(c)

IInv == TypeOK /\ CallInv

\* With keepAlive there are credentials, they are right and tokens do not expire.
SoundSettings ==
    \A s \in Settings :
        s.keepAlive => s.auth # "none" /\ s.rightPassword /\ s.maxExpiries = 0

\* With keepAlive every token that was ever issued is valid.
TokenInv ==
    setting.keepAlive =>
        /\ setting.auth = "basic" => 1 \in valid
        /\ setting.auth = "gdb" => 1 .. logins \subseteq valid

\* So that only a request without a token is refused.
TokenOK(c) ==
    setting.keepAlive =>
        /\ header[c] # 0 => header[c] \in valid
        /\ pc[c] = "sent" /\ reply[c] = "unauthorized" => header[c] = 0
        /\ refused[c] \subseteq {0}

\* The user a call resumes with had a token when its login resolved; what takes the token away
\* is a logout of its own.
LogoutOK(c) ==
    /\ ~setting.keepAlive /\ refused[c] # {} => pc[c] = "rejected"
    /\ setting.keepAlive =>
         /\ 0 \in refused[c] => logouts >= 1
         /\ \/ pc[c] = "sent" /\ header[c] = 0
            \/ pc[c] = "resume" /\ ~HasToken(captured[c])
            => /\ logouts >= 1
               /\ 0 \in refused[c] => logouts >= 2

SoundInv == IInv /\ TokenInv /\ \A c \in Calls : TokenOK(c) /\ LogoutOK(c)

----------------------------------------------------------------------------
(* The steps that actions share                                            *)

LEMMA SettingFacts ==
    ASSUME TypeOK
    PROVE  /\ setting.auth \in {"none", "basic", "gdb"}
           /\ setting.keepAlive \in BOOLEAN
           /\ setting.rightPassword \in BOOLEAN
           /\ setting.maxExpiries \in Nat
           /\ MaxLogouts \in Nat
BY SettingsAssumption DEF TypeOK

\* A call enters the login, or resumes with this.user, which has a token if it needs one.
LEMMA LoginCases ==
    ASSUME TypeOK, NEW c \in Calls, Login(c)
    PROVE  /\ \E p \in {"login", "resume"} : pc' = [pc EXCEPT ![c] = p]
           /\ captured' \in [Calls -> 0 .. logins]
           /\ \A d \in Calls : d # c => captured'[d] = captured[d]
           /\ pc'[c] = "resume" =>
                captured'[c] = user /\ (setting.auth = "none" \/ HasToken(user))
<1>1. CASE LoginDue
  <2>1. pc' = [pc EXCEPT ![c] = "login"] /\ captured' = captured
    BY <1>1 DEF Login
  <2> QED BY <2>1 DEF TypeOK
<1>2. CASE ~LoginDue
  <2>1. /\ pc' = [pc EXCEPT ![c] = "resume"]
        /\ captured' = [captured EXCEPT ![c] = user]
    BY <1>2 DEF Login
  <2> QED BY <1>2, <2>1 DEF TypeOK, LoginDue
<1> QED BY <1>1, <1>2

\* After an error the call is executed again, only for a 401 and with keepAlive, or rejected.
LEMMA HandleErrorCases ==
    ASSUME TypeOK, NEW c \in Calls, NEW error \in Errors, HandleError(c, error)
    PROVE  /\ \E p \in {"login", "resume", "rejected"} : pc' = [pc EXCEPT ![c] = p]
           /\ reason' \in [Calls -> {"none"} \cup Errors]
           /\ captured' \in [Calls -> 0 .. logins]
           /\ \A d \in Calls : d # c => captured'[d] = captured[d]
           /\ pc'[c] # "rejected" => error = "unauthorized" /\ setting.keepAlive
           /\ pc'[c] = "resume" =>
                captured'[c] = user /\ (setting.auth = "none" \/ HasToken(user))
<1>1. CASE error = "unauthorized" /\ setting.keepAlive
  <2>1. Login(c) /\ reason' = reason
    BY <1>1 DEF HandleError
  <2>2. /\ \E p \in {"login", "resume"} : pc' = [pc EXCEPT ![c] = p]
        /\ captured' \in [Calls -> 0 .. logins]
        /\ \A d \in Calls : d # c => captured'[d] = captured[d]
        /\ pc'[c] = "resume" =>
             captured'[c] = user /\ (setting.auth = "none" \/ HasToken(user))
    BY <2>1, LoginCases
  <2> QED BY <1>1, <2>1, <2>2 DEF TypeOK
<1>2. CASE ~(error = "unauthorized" /\ setting.keepAlive)
  <2>1. /\ pc' = [pc EXCEPT ![c] = "rejected"]
        /\ reason' = [reason EXCEPT ![c] = error]
        /\ captured' = captured
    BY <1>2 DEF HandleError
  <2> QED BY <2>1 DEF TypeOK
<1> QED BY <1>1, <1>2

----------------------------------------------------------------------------
(* Types                                                                   *)

LEMMA InitHolds == Init => IInv
<1> SUFFICES ASSUME Init PROVE IInv
  OBVIOUS
<1>1. setting.maxExpiries \in Nat /\ MaxLogouts \in Nat
  BY SettingsAssumption DEF Init
<1>2. TypeOK
  BY <1>1 DEF Init, TypeOK, NoUser, Places
<1>3. ASSUME NEW c \in Calls PROVE CallOK(c)
  <2>1. pc[c] = "idle" /\ ~pending[c] /\ reply[c] = "none" /\ applied[c] = 0
    BY DEF Init
  <2> QED BY <2>1 DEF CallOK
<1> QED BY <1>2, <1>3 DEF IInv, CallInv

LEMMA ExecuteTypes == ASSUME NEW c \in Calls PROVE TypeOK /\ Execute(c) => TypeOK'
<1> SUFFICES ASSUME TypeOK, Execute(c) PROVE TypeOK'
  OBVIOUS
<1>1. /\ Login(c)
      /\ UNCHANGED <<setting, user, cleared, logins, valid, expiries, logouts,
                     header, pending, reply, reason, refused, applied>>
  BY DEF Execute
<1>2. pc' \in [Calls -> Places] /\ captured' \in [Calls -> 0 .. logins]
  BY <1>1, LoginCases DEF TypeOK, Places
<1> QED BY <1>1, <1>2 DEF TypeOK

LEMMA LoginSucceedsTypes == ASSUME NEW c \in Calls PROVE TypeOK /\ LoginSucceeds(c) => TypeOK'
<1> SUFFICES ASSUME TypeOK, LoginSucceeds(c) PROVE TypeOK'
  OBVIOUS
<1>1. /\ logins' = logins + 1
      /\ valid' = IF setting.auth = "gdb" THEN valid \cup {logins + 1} ELSE valid
      /\ captured' = [captured EXCEPT ![c] = logins + 1]
      /\ pc' = [pc EXCEPT ![c] = "resume"]
      /\ UNCHANGED <<setting, user, cleared, expiries, logouts, header,
                     pending, reply, reason, refused, applied>>
  BY DEF LoginSucceeds
<1>2. logins \in Nat
  BY DEF TypeOK
<1>3. 0 .. logins \subseteq 0 .. (logins + 1) /\ 1 .. logins \subseteq 1 .. (logins + 1)
  BY <1>2
<1>4. /\ user' \in 0 .. logins' /\ cleared' \subseteq 1 .. logins' /\ logins' \in Nat
      /\ valid' \subseteq Nat \ {0}
  BY <1>1, <1>2, <1>3 DEF TypeOK
<1>5. /\ pc' \in [Calls -> Places]
      /\ captured' \in [Calls -> 0 .. logins']
      /\ header' \in [Calls -> 0 .. logins']
      /\ refused' \in [Calls -> SUBSET (0 .. logins')]
  <2>1. \A d \in Calls : captured[d] \in 0 .. logins' /\ header[d] \in 0 .. logins'
                         /\ refused[d] \subseteq 0 .. logins'
    BY <1>1, <1>3 DEF TypeOK
  <2>2. logins + 1 \in 0 .. logins'
    BY <1>1, <1>2
  <2> QED BY <1>1, <2>1, <2>2 DEF TypeOK, Places
<1> QED BY <1>1, <1>4, <1>5 DEF TypeOK

LEMMA LoginEndsTypes ==
    ASSUME NEW c \in Calls PROVE TypeOK /\ (LoginRefused(c) \/ LoginFails(c)) => TypeOK'
<1> SUFFICES ASSUME TypeOK, LoginRefused(c) \/ LoginFails(c) PROVE TypeOK'
  OBVIOUS
<1>1. CASE LoginRefused(c)
  BY <1>1 DEF LoginRefused, TypeOK, Answers
<1>2. CASE LoginFails(c)
  <2>1. PICK error \in Errors : HandleError(c, error)
    BY <1>2 DEF LoginFails, Errors
  <2>2. /\ pc' \in [Calls -> Places]
        /\ reason' \in [Calls -> {"none"} \cup Errors]
        /\ captured' \in [Calls -> 0 .. logins]
    BY <2>1, HandleErrorCases DEF TypeOK, Places
  <2> QED BY <1>2, <2>2 DEF LoginFails, TypeOK
<1> QED BY <1>1, <1>2

LEMMA SendTypes == ASSUME NEW c \in Calls PROVE TypeOK /\ Send(c) => TypeOK'
<1> SUFFICES ASSUME TypeOK, Send(c) PROVE TypeOK'
  OBVIOUS
<1>1. captured[c] \in 0 .. logins /\ logins \in Nat /\ header[c] \in 0 .. logins
  BY DEF TypeOK
<1>2. HasToken(captured[c]) => TokenOf(captured[c]) \in 0 .. logins
  BY <1>1 DEF HasToken, TokenOf, NoUser
<1>3. header' \in [Calls -> 0 .. logins]
  BY <1>2 DEF Send, TypeOK
<1>4. captured' \in [Calls -> 0 .. logins] /\ user' \in 0 .. logins
  BY <1>1 DEF Send, TypeOK, NoUser
<1> QED BY <1>3, <1>4 DEF Send, TypeOK, Places

LEMMA AnswerTypes ==
    ASSUME NEW c \in Calls PROVE TypeOK /\ (Receive(c) \/ Timeout(c)) => TypeOK'
<1> SUFFICES ASSUME TypeOK, Receive(c) \/ Timeout(c) PROVE TypeOK'
  OBVIOUS
<1>1. CASE Receive(c)
  <2>1. /\ pc' \in [Calls -> Places]
        /\ reason' \in [Calls -> {"none"} \cup Errors]
        /\ captured' \in [Calls -> 0 .. logins]
    <3>1. CASE reply[c] = "ok"
      BY <1>1, <3>1 DEF Receive, TypeOK, Places
    <3>2. CASE reply[c] # "ok"
      <4>1. reply[c] \in Errors /\ HandleError(c, reply[c])
        BY <1>1, <3>2 DEF Receive, TypeOK, Answers, Errors
      <4> QED BY <4>1, HandleErrorCases DEF TypeOK, Places
    <3> QED BY <3>1, <3>2
  <2>2. refused' \in [Calls -> SUBSET (0 .. logins)]
    BY <1>1 DEF Receive, TypeOK
  <2> QED BY <1>1, <2>1, <2>2 DEF Receive, TypeOK
<1>2. CASE Timeout(c)
  <2>1. /\ pc' \in [Calls -> Places]
        /\ reason' \in [Calls -> {"none"} \cup Errors]
        /\ captured' \in [Calls -> 0 .. logins]
    BY <1>2, HandleErrorCases DEF Timeout, TypeOK, Places, Errors
  <2> QED BY <1>2, <2>1 DEF Timeout, TypeOK
<1> QED BY <1>1, <1>2

LEMMA ServeTypes == ASSUME NEW c \in Calls PROVE TypeOK /\ Serve(c) => TypeOK'
<1> SUFFICES ASSUME TypeOK, Serve(c) PROVE TypeOK'
  OBVIOUS
<1>1. applied' \in [Calls -> Nat]
  BY DEF Serve, TypeOK
<1>2. reply' \in [Calls -> {"none"} \cup Answers]
  BY DEF Serve, TypeOK
<1> QED BY <1>1, <1>2 DEF Serve, TypeOK

LEMMA OutsideTypes ==
    TypeOK /\ (Logout \/ (\E token \in valid : Expire(token))) => TypeOK'
<1> SUFFICES ASSUME TypeOK, Logout \/ (\E token \in valid : Expire(token)) PROVE TypeOK'
  OBVIOUS
<1>1. CASE Logout
  <2>1. cleared' \subseteq 1 .. logins /\ logouts' \in 0 .. MaxLogouts
    BY <1>1, SettingFacts DEF Logout, TypeOK, NoUser
  <2> QED BY <1>1, <2>1 DEF Logout, TypeOK
<1>2. CASE \E token \in valid : Expire(token)
  <2>1. expiries' \in 0 .. setting.maxExpiries /\ valid' \subseteq Nat \ {0}
    BY <1>2, SettingFacts DEF Expire, TypeOK
  <2> QED BY <1>2, <2>1 DEF Expire, TypeOK
<1> QED BY <1>1, <1>2

LEMMA NextTypes == TypeOK /\ [Next]_vars => TypeOK'
<1> SUFFICES ASSUME TypeOK, [Next]_vars PROVE TypeOK'
  OBVIOUS
<1>1. CASE \E c \in Calls : Execute(c) \/ Progress(c) \/ Serve(c)
  BY <1>1, ExecuteTypes, LoginSucceedsTypes, LoginEndsTypes, SendTypes, AnswerTypes, ServeTypes
  DEF Progress
<1>2. CASE Logout \/ (\E token \in valid : Expire(token))
  BY <1>2, OutsideTypes
<1>3. CASE UNCHANGED vars
  BY <1>3 DEF vars, TypeOK
<1> QED BY <1>1, <1>2, <1>3 DEF Next, Quiet

----------------------------------------------------------------------------
(* Calls                                                                   *)

\* A step of one call leaves the others as they are.
OnlyOf(c) ==
    \A d \in Calls : d # c => /\ pc'[d] = pc[d] /\ reply'[d] = reply[d]
                              /\ pending'[d] = pending[d] /\ applied'[d] = applied[d]

LEMMA OthersKeep ==
    ASSUME CallInv, NEW c \in Calls, OnlyOf(c), CallOK(c)' PROVE CallInv'
<1> SUFFICES ASSUME NEW d \in Calls, d # c PROVE CallOK(d)'
  BY DEF CallInv
<1>1. CallOK(d) /\ pc'[d] = pc[d] /\ reply'[d] = reply[d] /\ pending'[d] = pending[d]
      /\ applied'[d] = applied[d]
  BY DEF CallInv, OnlyOf
<1> QED BY <1>1 DEF CallOK

LEMMA ExecuteCalls == ASSUME NEW c \in Calls PROVE IInv /\ Execute(c) => CallInv'
<1> SUFFICES ASSUME IInv, Execute(c) PROVE CallInv'
  OBVIOUS
<1>1. pc[c] = "idle" /\ CallOK(c) /\ UNCHANGED <<pending, reply, applied>>
  BY DEF Execute, IInv, CallInv
<1>2. PICK p \in {"login", "resume"} : pc' = [pc EXCEPT ![c] = p]
  BY LoginCases DEF Execute, IInv
<1>3. pc'[c] = p /\ OnlyOf(c)
  BY <1>1, <1>2 DEF OnlyOf, IInv, TypeOK
<1>4. CallOK(c)'
  BY <1>1, <1>3 DEF CallOK
<1> QED BY <1>3, <1>4, OthersKeep DEF IInv

LEMMA LoginCalls ==
    ASSUME NEW c \in Calls
    PROVE  IInv /\ (LoginSucceeds(c) \/ LoginRefused(c) \/ LoginFails(c)) => CallInv'
<1> SUFFICES ASSUME IInv, LoginSucceeds(c) \/ LoginRefused(c) \/ LoginFails(c) PROVE CallInv'
  OBVIOUS
<1>1. pc[c] = "login" /\ CallOK(c) /\ UNCHANGED <<pending, applied>>
  BY DEF LoginSucceeds, LoginRefused, LoginFails, IInv, CallInv
<1>2. CASE LoginSucceeds(c)
  <2>1. pc'[c] = "resume" /\ reply'[c] = "none" /\ OnlyOf(c)
    BY <1>1, <1>2 DEF LoginSucceeds, OnlyOf, IInv, TypeOK
  <2>2. CallOK(c)'
    BY <1>1, <2>1 DEF CallOK
  <2> QED BY <2>1, <2>2, OthersKeep DEF IInv
<1>3. CASE LoginRefused(c)
  <2>1. pc'[c] = "login" /\ reply'[c] = "unauthorized" /\ OnlyOf(c)
    BY <1>1, <1>3 DEF LoginRefused, OnlyOf, IInv, TypeOK
  <2>2. CallOK(c)'
    BY <1>1, <2>1 DEF CallOK
  <2> QED BY <2>1, <2>2, OthersKeep DEF IInv
<1>4. CASE LoginFails(c)
  <2>1. PICK error \in Errors : HandleError(c, error)
    BY <1>4 DEF LoginFails, Errors
  <2>2. PICK p \in {"login", "resume", "rejected"} : pc' = [pc EXCEPT ![c] = p]
    BY <2>1, HandleErrorCases DEF IInv
  <2>3. pc'[c] = p /\ reply'[c] = "none" /\ OnlyOf(c)
    BY <1>1, <1>4, <2>2 DEF LoginFails, OnlyOf, IInv, TypeOK
  <2>4. CallOK(c)'
    BY <1>1, <2>3 DEF CallOK
  <2> QED BY <2>3, <2>4, OthersKeep DEF IInv
<1> QED BY <1>2, <1>3, <1>4

LEMMA SendCalls == ASSUME NEW c \in Calls PROVE IInv /\ Send(c) => CallInv'
<1> SUFFICES ASSUME IInv, Send(c) PROVE CallInv'
  OBVIOUS
<1>1. pc[c] = "resume" /\ CallOK(c) /\ UNCHANGED <<reply, applied>>
  BY DEF Send, IInv, CallInv
<1>2. pc'[c] = "sent" /\ pending'[c] = TRUE /\ OnlyOf(c)
  BY <1>1 DEF Send, OnlyOf, IInv, TypeOK
<1>3. CallOK(c)'
  BY <1>1, <1>2 DEF CallOK
<1> QED BY <1>2, <1>3, OthersKeep DEF IInv

LEMMA AnswerCalls ==
    ASSUME NEW c \in Calls PROVE IInv /\ (Receive(c) \/ Timeout(c)) => CallInv'
<1> SUFFICES ASSUME IInv, Receive(c) \/ Timeout(c) PROVE CallInv'
  OBVIOUS
<1>1. pc[c] = "sent" /\ CallOK(c) /\ applied' = applied
      /\ reply' = [reply EXCEPT ![c] = "none"]
  BY DEF Receive, Timeout, IInv, CallInv
<1>2. reply'[c] = "none" /\ \A d \in Calls : d # c => reply'[d] = reply[d]
  BY <1>1 DEF IInv, TypeOK
<1>3. CASE Receive(c)
  <2>1. pending' = pending /\ reply[c] # "none"
    BY <1>3 DEF Receive
  <2>2. CASE reply[c] = "ok"
    <3>1. pc' = [pc EXCEPT ![c] = "resolved"]
      BY <1>3, <2>2 DEF Receive
    <3>2. pc'[c] = "resolved" /\ OnlyOf(c)
      BY <1>1, <1>2, <2>1, <3>1 DEF OnlyOf, IInv, TypeOK
    <3>3. CallOK(c)'
      BY <1>1, <1>2, <2>1, <2>2, <3>2 DEF CallOK
    <3> QED BY <3>2, <3>3, OthersKeep DEF IInv
  <2>3. CASE reply[c] # "ok"
    <3>1. reply[c] \in Errors /\ HandleError(c, reply[c])
      BY <1>3, <2>1, <2>3 DEF Receive, IInv, TypeOK, Answers, Errors
    <3>2. PICK p \in {"login", "resume", "rejected"} : pc' = [pc EXCEPT ![c] = p]
      BY <3>1, HandleErrorCases DEF IInv
    <3>3. pc'[c] = p /\ OnlyOf(c)
      BY <1>1, <1>2, <2>1, <3>2 DEF OnlyOf, IInv, TypeOK
    <3>4. CallOK(c)'
      BY <1>1, <1>2, <2>1, <2>3, <3>3 DEF CallOK
    <3> QED BY <3>3, <3>4, OthersKeep DEF IInv
  <2> QED BY <2>2, <2>3
<1>4. CASE Timeout(c)
  <2>1. pc' = [pc EXCEPT ![c] = "rejected"]
    BY <1>4 DEF Timeout, HandleError
  <2>2. /\ pc'[c] = "rejected" /\ OnlyOf(c)
        /\ pending'[c] => pending[c]
    BY <1>1, <1>2, <1>4, <2>1 DEF Timeout, OnlyOf, IInv, TypeOK
  <2>3. CallOK(c)'
    BY <1>1, <1>2, <2>2 DEF CallOK
  <2> QED BY <2>2, <2>3, OthersKeep DEF IInv
<1> QED BY <1>3, <1>4

LEMMA ServeCalls == ASSUME NEW c \in Calls PROVE IInv /\ Serve(c) => CallInv'
<1> SUFFICES ASSUME IInv, Serve(c) PROVE CallInv'
  OBVIOUS
<1>1. /\ pending[c] /\ CallOK(c) /\ pc' = pc
      /\ pending' = [pending EXCEPT ![c] = FALSE]
  BY DEF Serve, IInv, CallInv
<1>2. PICK answer \in Answers :
         /\ applied' = IF answer = "ok" THEN [applied EXCEPT ![c] = @ + 1] ELSE applied
         /\ reply' = IF pc[c] = "sent" THEN [reply EXCEPT ![c] = answer] ELSE reply
  BY DEF Serve
<1>3. /\ ~pending'[c] /\ OnlyOf(c)
      /\ applied'[c] = IF answer = "ok" THEN applied[c] + 1 ELSE applied[c]
      /\ reply'[c] = IF pc[c] = "sent" THEN answer ELSE reply[c]
  BY <1>1, <1>2 DEF OnlyOf, IInv, TypeOK
<1>4. CallOK(c)'
  BY <1>1, <1>3 DEF CallOK
<1> QED BY <1>3, <1>4, OthersKeep DEF IInv

LEMMA NextPreserves == IInv /\ [Next]_vars => IInv'
<1> SUFFICES ASSUME IInv, [Next]_vars PROVE IInv'
  OBVIOUS
<1>1. TypeOK'
  BY NextTypes DEF IInv
<1>2. CASE \E c \in Calls : Execute(c) \/ Progress(c) \/ Serve(c)
  BY <1>1, <1>2, ExecuteCalls, LoginCalls, SendCalls, AnswerCalls, ServeCalls DEF Progress, IInv
<1>3. CASE UNCHANGED <<pc, pending, reply, applied>>
  <2>1. ASSUME NEW c \in Calls PROVE CallOK(c)'
    BY <1>3 DEF IInv, CallInv, CallOK
  <2> QED BY <1>1, <2>1 DEF IInv, CallInv
<1> QED BY <1>2, <1>3 DEF Next, Logout, Expire, Quiet, vars

----------------------------------------------------------------------------
(* The re-login                                                            *)

LEMMA SoundSetting ==
    ASSUME SoundSettings, TypeOK, setting.keepAlive
    PROVE  setting.auth \in {"basic", "gdb"} /\ setting.rightPassword /\ setting.maxExpiries = 0
BY SettingFacts DEF SoundSettings, TypeOK

LEMMA InitSound == SoundSettings /\ Init => SoundInv
<1> SUFFICES ASSUME SoundSettings, Init PROVE SoundInv
  OBVIOUS
<1>1. IInv
  BY InitHolds
<1>2. TokenInv
  BY <1>1, SoundSetting DEF IInv, Init, TokenInv
<1>3. ASSUME NEW c \in Calls PROVE TokenOK(c) /\ LogoutOK(c)
  <2>1. pc[c] = "idle" /\ header[c] = 0 /\ refused[c] = {}
    BY DEF Init
  <2> QED BY <2>1 DEF TokenOK, LogoutOK
<1> QED BY <1>1, <1>2, <1>3 DEF SoundInv

\* A step of one call that neither logs out nor revokes a token.
QuietFor(c) ==
    /\ UNCHANGED <<setting, cleared, logouts>>
    /\ valid \subseteq valid'
    /\ \A d \in Calls : d # c => /\ pc'[d] = pc[d] /\ reply'[d] = reply[d]
                                 /\ header'[d] = header[d] /\ refused'[d] = refused[d]
                                 /\ captured'[d] = captured[d]

LEMMA OthersSound ==
    ASSUME SoundInv, IInv', TokenInv', NEW c \in Calls, QuietFor(c), TokenOK(c)', LogoutOK(c)'
    PROVE  SoundInv'
<1> SUFFICES ASSUME NEW d \in Calls, d # c PROVE TokenOK(d)' /\ LogoutOK(d)'
  BY DEF SoundInv
<1>1. /\ TokenOK(d) /\ LogoutOK(d)
      /\ UNCHANGED <<setting, cleared, logouts>> /\ valid \subseteq valid'
      /\ pc'[d] = pc[d] /\ reply'[d] = reply[d] /\ header'[d] = header[d]
      /\ refused'[d] = refused[d] /\ captured'[d] = captured[d]
  BY DEF SoundInv, QuietFor
<1> QED BY <1>1 DEF TokenOK, LogoutOK, HasToken

\* A call that is executed, for the first time or again.
LEMMA ExecutedSound ==
    ASSUME SoundSettings, SoundInv, IInv', NEW c \in Calls,
           UNCHANGED <<setting, cleared, logins, valid, logouts, header, refused>>,
           QuietFor(c), reply'[c] = "none",
           pc'[c] \in {"login", "resume", "rejected"},
           pc'[c] # "rejected" => setting.keepAlive \/ pc[c] # "rejected",
           pc'[c] = "resume" =>
              captured'[c] = user /\ (setting.auth = "none" \/ HasToken(user))
    PROVE  SoundInv'
<1>1. TokenOK(c) /\ LogoutOK(c) /\ TokenInv
  BY DEF SoundInv
<1>2. setting.keepAlive => setting.auth \in {"basic", "gdb"}
  BY SoundSetting DEF SoundInv, IInv
<1>3. TokenInv' /\ TokenOK(c)'
  BY <1>1 DEF TokenInv, TokenOK
<1>4. LogoutOK(c)'
  BY <1>1, <1>2 DEF LogoutOK, HasToken
<1> QED BY <1>3, <1>4, OthersSound

LEMMA ExecuteSound ==
    ASSUME NEW c \in Calls PROVE SoundSettings /\ SoundInv /\ IInv' /\ Execute(c) => SoundInv'
<1> SUFFICES ASSUME SoundSettings, SoundInv, IInv', Execute(c) PROVE SoundInv'
  OBVIOUS
<1>1. /\ pc[c] = "idle" /\ Login(c) /\ TypeOK /\ CallOK(c)
      /\ UNCHANGED <<setting, cleared, logins, valid, logouts, header, refused, reply>>
  BY DEF Execute, SoundInv, IInv, CallInv
<1>2. /\ \E p \in {"login", "resume"} : pc' = [pc EXCEPT ![c] = p]
      /\ \A d \in Calls : d # c => captured'[d] = captured[d]
      /\ pc'[c] = "resume" =>
           captured'[c] = user /\ (setting.auth = "none" \/ HasToken(user))
  BY <1>1, LoginCases
<1>3. pc'[c] \in {"login", "resume"} /\ QuietFor(c)
  BY <1>1, <1>2 DEF QuietFor, TypeOK
<1>4. reply'[c] = "none"
  BY <1>1 DEF CallOK
<1> QED BY <1>1, <1>2, <1>3, <1>4, ExecutedSound

LEMMA LoginSound ==
    ASSUME NEW c \in Calls
    PROVE  SoundSettings /\ SoundInv /\ IInv'
             /\ (LoginSucceeds(c) \/ LoginRefused(c) \/ LoginFails(c)) => SoundInv'
<1> SUFFICES ASSUME SoundSettings, SoundInv, IInv',
                    LoginSucceeds(c) \/ LoginRefused(c) \/ LoginFails(c)
             PROVE  SoundInv'
  OBVIOUS
<1>1. /\ pc[c] = "login" /\ TypeOK /\ TokenOK(c) /\ LogoutOK(c) /\ TokenInv
      /\ UNCHANGED <<setting, cleared, logouts, header, refused>>
  BY DEF LoginSucceeds, LoginRefused, LoginFails, SoundInv, IInv
<1>2. CASE LoginSucceeds(c)
  <2>1. /\ logins' = logins + 1
        /\ valid' = IF setting.auth = "gdb" THEN valid \cup {logins + 1} ELSE valid
        /\ captured' = [captured EXCEPT ![c] = logins + 1]
        /\ pc' = [pc EXCEPT ![c] = "resume"]
        /\ reply' = reply
    BY <1>2 DEF LoginSucceeds
  <2>2. pc'[c] = "resume" /\ captured'[c] = logins + 1 /\ QuietFor(c)
    BY <1>1, <2>1 DEF QuietFor, TypeOK
  <2>3. TokenInv'
    BY <1>1, <2>1 DEF TokenInv, TypeOK
  <2>4. HasToken(captured[c])'
    BY <1>1, <2>2 DEF HasToken, NoUser, TypeOK
  <2>5. TokenOK(c)' /\ LogoutOK(c)'
    BY <1>1, <2>1, <2>2, <2>4 DEF TokenOK, LogoutOK
  <2> QED BY <2>2, <2>3, <2>5, OthersSound
<1>3. CASE LoginRefused(c)
  <2>1. UNCHANGED <<pc, valid, logins, captured>> /\ reply' = [reply EXCEPT ![c] = "unauthorized"]
    BY <1>3 DEF LoginRefused
  <2>2. QuietFor(c)
    BY <1>1, <2>1 DEF QuietFor, TypeOK
  <2>3. TokenInv' /\ TokenOK(c)' /\ LogoutOK(c)'
    BY <1>1, <2>1 DEF TokenInv, TokenOK, LogoutOK
  <2> QED BY <2>2, <2>3, OthersSound
<1>4. CASE LoginFails(c)
  <2>1. PICK error \in Errors : HandleError(c, error)
    BY <1>4 DEF LoginFails, Errors
  <2>2. /\ \E p \in {"login", "resume", "rejected"} : pc' = [pc EXCEPT ![c] = p]
        /\ \A d \in Calls : d # c => captured'[d] = captured[d]
        /\ pc'[c] = "resume" =>
             captured'[c] = user /\ (setting.auth = "none" \/ HasToken(user))
    BY <1>1, <2>1, HandleErrorCases
  <2>3. /\ reply' = [reply EXCEPT ![c] = "none"] /\ UNCHANGED <<valid, logins>>
        /\ pc'[c] \in {"login", "resume", "rejected"} /\ reply'[c] = "none" /\ QuietFor(c)
    BY <1>1, <1>4, <2>2 DEF LoginFails, QuietFor, TypeOK
  <2> QED BY <1>1, <2>2, <2>3, ExecutedSound
<1> QED BY <1>2, <1>3, <1>4

LEMMA SendSound ==
    ASSUME NEW c \in Calls PROVE SoundSettings /\ SoundInv /\ IInv' /\ Send(c) => SoundInv'
<1> SUFFICES ASSUME SoundSettings, SoundInv, IInv', Send(c) PROVE SoundInv'
  OBVIOUS
<1>1. /\ pc[c] = "resume" /\ TypeOK /\ CallOK(c) /\ TokenOK(c) /\ LogoutOK(c) /\ TokenInv
      /\ UNCHANGED <<setting, cleared, logins, valid, logouts, reply, refused>>
  BY DEF Send, SoundInv, IInv, CallInv
<1>2. /\ pc'[c] = "sent" /\ reply'[c] = "none"
      /\ header'[c] = IF HasToken(captured[c]) THEN TokenOf(captured[c]) ELSE header[c]
      /\ QuietFor(c)
  BY <1>1 DEF Send, QuietFor, TypeOK, CallOK
<1>3. ASSUME setting.keepAlive, HasToken(captured[c])
      PROVE  TokenOf(captured[c]) \in valid /\ TokenOf(captured[c]) # 0
  <2>1. captured[c] \in 1 .. logins
    BY <1>1, <1>3 DEF HasToken, NoUser, TypeOK
  <2>2. setting.auth \in {"basic", "gdb"}
    BY <1>1, <1>3, SoundSetting
  <2> QED BY <1>1, <1>3, <2>1, <2>2 DEF TokenOf, TokenInv
<1>4. TokenInv' /\ TokenOK(c)'
  BY <1>1, <1>2, <1>3 DEF TokenInv, TokenOK
<1>5. LogoutOK(c)'
  BY <1>1, <1>2, <1>3 DEF LogoutOK
<1> QED BY <1>2, <1>4, <1>5, OthersSound

LEMMA AnswerSound ==
    ASSUME NEW c \in Calls
    PROVE  SoundSettings /\ SoundInv /\ IInv' /\ (Receive(c) \/ Timeout(c)) => SoundInv'
<1> SUFFICES ASSUME SoundSettings, SoundInv, IInv', Receive(c) \/ Timeout(c) PROVE SoundInv'
  OBVIOUS
<1>1. /\ pc[c] = "sent" /\ TypeOK /\ TokenOK(c) /\ LogoutOK(c) /\ TokenInv
      /\ UNCHANGED <<setting, cleared, logins, valid, logouts, header>>
      /\ reply' = [reply EXCEPT ![c] = "none"]
  BY DEF Receive, Timeout, SoundInv, IInv
<1>2. reply'[c] = "none" /\ \A d \in Calls : d # c => reply'[d] = reply[d]
  BY <1>1 DEF TypeOK
<1>3. CASE Receive(c) /\ reply[c] = "ok"
  <2>1. pc' = [pc EXCEPT ![c] = "resolved"] /\ UNCHANGED <<captured, refused>>
    BY <1>3 DEF Receive
  <2>2. pc'[c] = "resolved" /\ QuietFor(c)
    BY <1>1, <1>2, <2>1 DEF QuietFor, TypeOK
  <2>3. TokenInv' /\ TokenOK(c)' /\ LogoutOK(c)'
    BY <1>1, <1>2, <2>1, <2>2 DEF TokenInv, TokenOK, LogoutOK
  <2> QED BY <2>2, <2>3, OthersSound
<1>4. CASE Receive(c) /\ reply[c] # "ok"
  <2>1. reply[c] \in Errors /\ HandleError(c, reply[c])
    BY <1>4 DEF Receive, IInv, TypeOK, Answers, Errors, SoundInv
  <2>2. /\ \E p \in {"login", "resume", "rejected"} : pc' = [pc EXCEPT ![c] = p]
        /\ \A d \in Calls : d # c => captured'[d] = captured[d]
        /\ pc'[c] # "rejected" => reply[c] = "unauthorized" /\ setting.keepAlive
        /\ pc'[c] = "resume" =>
             captured'[c] = user /\ (setting.auth = "none" \/ HasToken(user))
    BY <1>1, <2>1, HandleErrorCases
  <2>3. /\ pc'[c] \in {"login", "resume", "rejected"}
        /\ refused'[c] = IF reply[c] = "unauthorized" THEN refused[c] \cup {header[c]}
                                                      ELSE refused[c]
        /\ QuietFor(c)
    BY <1>1, <1>2, <1>4, <2>2 DEF Receive, QuietFor, TypeOK
  <2>4. TokenInv' /\ TokenOK(c)'
    BY <1>1, <1>2, <2>3 DEF TokenInv, TokenOK
  <2>5. setting.keepAlive => setting.auth \in {"basic", "gdb"}
    BY <1>1, SoundSetting
  <2>6. setting.keepAlive /\ reply[c] = "unauthorized" => header[c] = 0 /\ logouts >= 1
    BY <1>1 DEF TokenOK, LogoutOK
  <2>7. LogoutOK(c)'
    BY <1>1, <2>2, <2>3, <2>5, <2>6 DEF LogoutOK, HasToken
  <2> QED BY <2>3, <2>4, <2>7, OthersSound
<1>5. CASE Timeout(c)
  <2>1. pc' = [pc EXCEPT ![c] = "rejected"] /\ UNCHANGED <<captured, refused>>
    BY <1>5 DEF Timeout, HandleError
  <2>2. pc'[c] = "rejected" /\ QuietFor(c)
    BY <1>1, <1>2, <2>1 DEF QuietFor, TypeOK
  <2>3. TokenInv' /\ TokenOK(c)' /\ LogoutOK(c)'
    BY <1>1, <1>2, <2>1, <2>2 DEF TokenInv, TokenOK, LogoutOK
  <2> QED BY <2>2, <2>3, OthersSound
<1> QED BY <1>3, <1>4, <1>5

LEMMA ServeSound ==
    ASSUME NEW c \in Calls PROVE SoundSettings /\ SoundInv /\ IInv' /\ Serve(c) => SoundInv'
<1> SUFFICES ASSUME SoundSettings, SoundInv, IInv', Serve(c) PROVE SoundInv'
  OBVIOUS
<1>1. /\ TypeOK /\ TokenOK(c) /\ LogoutOK(c) /\ TokenInv
      /\ UNCHANGED <<setting, cleared, logins, valid, logouts, pc, captured, header, refused>>
  BY DEF Serve, SoundInv, IInv
<1>2. PICK answer \in Answers :
         /\ answer = "unauthorized" => ~Accepts(header[c])
         /\ reply' = IF pc[c] = "sent" THEN [reply EXCEPT ![c] = answer] ELSE reply
  BY DEF Serve
<1>3. /\ QuietFor(c)
      /\ reply'[c] = IF pc[c] = "sent" THEN answer ELSE reply[c]
  BY <1>1, <1>2 DEF QuietFor, TypeOK
<1>4. TokenInv' /\ TokenOK(c)' /\ LogoutOK(c)'
  BY <1>1, <1>2, <1>3 DEF TokenInv, TokenOK, LogoutOK, Accepts, HasToken
<1> QED BY <1>3, <1>4, OthersSound

LEMMA OutsideSound ==
    SoundSettings /\ SoundInv /\ IInv' /\ (Logout \/ (\E token \in valid : Expire(token)))
        => SoundInv'
<1> SUFFICES ASSUME SoundSettings, SoundInv, IInv',
                    Logout \/ (\E token \in valid : Expire(token))
             PROVE  SoundInv'
  OBVIOUS
<1>1. /\ UNCHANGED <<setting, logins, pc, captured, header, reply, refused>>
      /\ TokenInv /\ logouts \in Nat /\ expiries \in Nat
  BY SettingFacts DEF Logout, Expire, SoundInv, IInv, TypeOK
<1>2. CASE Logout
  <2>1. valid' = valid /\ cleared' = cleared \cup {user} /\ logouts' = logouts + 1
    BY <1>2 DEF Logout
  <2>2. ASSUME NEW c \in Calls PROVE TokenOK(c)' /\ LogoutOK(c)'
    <3>1. TokenOK(c) /\ LogoutOK(c)
      BY DEF SoundInv
    <3> QED BY <1>1, <2>1, <3>1 DEF TokenOK, LogoutOK, HasToken
  <2> QED BY <1>1, <2>1, <2>2 DEF SoundInv, TokenInv
<1>3. CASE \E token \in valid : Expire(token)
  <2>1. UNCHANGED <<cleared, logouts>> /\ expiries < setting.maxExpiries
    BY <1>3 DEF Expire
  <2>2. ~setting.keepAlive
    BY <1>1, <2>1, SoundSetting DEF SoundInv, IInv
  <2>3. ASSUME NEW c \in Calls PROVE TokenOK(c)' /\ LogoutOK(c)'
    <3>1. LogoutOK(c)
      BY DEF SoundInv
    <3> QED BY <1>1, <2>1, <2>2, <3>1 DEF TokenOK, LogoutOK
  <2> QED BY <1>1, <2>2, <2>3 DEF SoundInv, TokenInv
<1> QED BY <1>2, <1>3

LEMMA NextSound == SoundSettings /\ SoundInv /\ [Next]_vars => SoundInv'
<1> SUFFICES ASSUME SoundSettings, SoundInv, [Next]_vars PROVE SoundInv'
  OBVIOUS
<1>1. IInv'
  BY NextPreserves DEF SoundInv
<1>2. CASE \E c \in Calls : Execute(c) \/ Progress(c) \/ Serve(c)
  BY <1>1, <1>2, ExecuteSound, LoginSound, SendSound, AnswerSound, ServeSound DEF Progress
<1>3. CASE Logout \/ (\E token \in valid : Expire(token))
  BY <1>1, <1>3, OutsideSound
<1>4. CASE UNCHANGED vars
  <2>1. ASSUME NEW c \in Calls PROVE TokenOK(c)' /\ LogoutOK(c)'
    BY <1>4 DEF vars, SoundInv, TokenOK, LogoutOK, HasToken
  <2> QED BY <1>1, <1>4, <2>1 DEF vars, SoundInv, TokenInv
<1> QED BY <1>2, <1>3, <1>4 DEF Next, Quiet

----------------------------------------------------------------------------
(* Refinement                                                              *)

Status == [c \in Calls |-> StatusOf(pc[c])]
Reached == [c \in Calls |-> IF pc[c] = "idle" THEN 0 ELSE 1]
Effects == [c \in Calls |-> [e \in {1} |-> applied[c]]]

LEMMA StatusValues ==
    /\ StatusOf("idle") = "new"
    /\ StatusOf("login") = "running"
    /\ StatusOf("resume") = "running"
    /\ StatusOf("sent") = "running"
    /\ StatusOf("resolved") = "resolved"
    /\ StatusOf("rejected") = "rejected"
BY DEF StatusOf, Settled

\* A step of a call that runs moves its status, and nothing else of Failover.
LEMMA RunningMoves ==
    ASSUME TypeOK, NEW c \in Calls, pc[c] \in {"login", "resume", "sent"}, applied' = applied,
           NEW p \in {"login", "resume", "sent", "resolved", "rejected"},
           pc' = [pc EXCEPT ![c] = p],
           p = "resolved" => applied[c] = 1
    PROVE  [Abstract!Next]_(Abstract!vars)
<1>1. Status' = [Status EXCEPT ![c] = StatusOf(p)] /\ Status[c] = "running"
  BY StatusValues DEF TypeOK, Status
<1>2. Reached' = Reached /\ Effects' = Effects /\ Reached[c] = 1 /\ Effects[c][1] = applied[c]
  BY DEF TypeOK, Reached, Effects
<1>3. CASE p \in {"login", "resume", "sent"}
  <2>1. Status' = Status
    BY <1>1, <1>3, StatusValues DEF Status
  <2> QED BY <1>2, <2>1 DEF Abstract!vars, Status, Reached, Effects
<1>4. CASE p = "resolved"
  <2>1. Abstract!Resolve(c)
    BY <1>1, <1>2, <1>4, StatusValues DEF Abstract!Resolve, Status, Reached, Effects
  <2> QED BY <2>1 DEF Abstract!Next
<1>5. CASE p = "rejected"
  <2>1. Abstract!Reject(c)
    BY <1>1, <1>2, <1>5, StatusValues DEF Abstract!Reject, Status, Reached, Effects
  <2> QED BY <2>1 DEF Abstract!Next
<1> QED BY <1>3, <1>4, <1>5

LEMMA AbstractStep == ASSUME IInv, [Next]_vars PROVE [Abstract!Next]_(Abstract!vars)
<1>1. TypeOK /\ CallInv
  BY DEF IInv
<1>2. ASSUME NEW c \in Calls, Execute(c) PROVE Abstract!Next
  <2>1. pc[c] = "idle" /\ applied' = applied
    BY <1>2 DEF Execute
  <2>2. PICK p \in {"login", "resume"} : pc' = [pc EXCEPT ![c] = p]
    BY <1>1, <1>2, LoginCases DEF Execute
  <2>3. Status' = [Status EXCEPT ![c] = "running"] /\ Status[c] = "new"
    BY <1>1, <2>1, <2>2, StatusValues DEF TypeOK, Status
  <2>4. Reached' = [Reached EXCEPT ![c] = 1] /\ Effects' = Effects
    BY <1>1, <2>1, <2>2 DEF TypeOK, Reached, Effects
  <2>5. Abstract!Start(c)
    BY <2>3, <2>4 DEF Abstract!Start, Status, Reached, Effects
  <2> QED BY <2>5 DEF Abstract!Next
<1>3. ASSUME NEW c \in Calls, LoginSucceeds(c) \/ Send(c)
      PROVE  [Abstract!Next]_(Abstract!vars)
  BY <1>1, <1>3, RunningMoves DEF LoginSucceeds, Send
<1>4. ASSUME NEW c \in Calls, LoginFails(c) \/ Timeout(c)
      PROVE  [Abstract!Next]_(Abstract!vars)
  <2>1. PICK error \in Errors : HandleError(c, error)
    BY <1>4 DEF LoginFails, Timeout, Errors
  <2>2. PICK p \in {"login", "resume", "rejected"} : pc' = [pc EXCEPT ![c] = p]
    BY <1>1, <2>1, HandleErrorCases
  <2> QED BY <1>1, <1>4, <2>2, RunningMoves DEF LoginFails, Timeout
<1>5. ASSUME NEW c \in Calls, Receive(c) PROVE [Abstract!Next]_(Abstract!vars)
  <2>1. pc[c] = "sent" /\ applied' = applied /\ reply[c] # "none" /\ CallOK(c)
    BY <1>1, <1>5 DEF Receive, CallInv
  <2>2. CASE reply[c] = "ok"
    <3>1. pc' = [pc EXCEPT ![c] = "resolved"] /\ applied[c] = 1
      BY <1>5, <2>1, <2>2 DEF Receive, CallOK
    <3> QED BY <1>1, <2>1, <3>1, RunningMoves
  <2>3. CASE reply[c] # "ok"
    <3>1. reply[c] \in Errors /\ HandleError(c, reply[c])
      BY <1>1, <1>5, <2>1, <2>3 DEF Receive, TypeOK, Answers, Errors
    <3>2. PICK p \in {"login", "resume", "rejected"} : pc' = [pc EXCEPT ![c] = p]
      BY <1>1, <3>1, HandleErrorCases
    <3> QED BY <1>1, <2>1, <3>2, RunningMoves
  <2> QED BY <2>2, <2>3
<1>6. ASSUME NEW c \in Calls, Serve(c) PROVE [Abstract!Next]_(Abstract!vars)
  <2>1. /\ pc' = pc /\ pending[c] /\ CallOK(c)
        /\ applied' = applied \/ applied' = [applied EXCEPT ![c] = @ + 1]
    BY <1>1, <1>6 DEF Serve, CallInv
  <2>2. applied[c] = 0 /\ pc[c] \in {"sent", "rejected"}
    BY <2>1 DEF CallOK
  <2>3. Status' = Status /\ Reached' = Reached /\ Reached[c] = 1 /\ Effects[c][1] = 0
    BY <2>1, <2>2 DEF Status, Reached, Effects
  <2>4. CASE applied' = applied
    BY <2>3, <2>4 DEF Abstract!vars, Status, Reached, Effects
  <2>5. CASE applied' = [applied EXCEPT ![c] = @ + 1]
    <3>1. Effects' = [Effects EXCEPT ![c][1] = 1]
      BY <1>1, <2>2, <2>5 DEF TypeOK, Effects
    <3>2. Abstract!TakeEffect(c, 1)
      BY <2>3, <3>1 DEF Abstract!TakeEffect, Status, Reached, Effects
    <3> QED BY <3>2 DEF Abstract!Next, Abstract!Endpoints
  <2> QED BY <2>1, <2>4, <2>5
<1>7. CASE UNCHANGED <<pc, applied>>
  BY <1>7 DEF Abstract!vars
<1> QED BY <1>2, <1>3, <1>4, <1>5, <1>6, <1>7
        DEF Next, Progress, LoginRefused, Logout, Expire, Quiet, vars

----------------------------------------------------------------------------
(* Theorems                                                                *)

\* The inductive invariant, for every set of calls and of settings.
THEOREM Invariant == Spec => []IInv
BY InitHolds, NextPreserves, PTL DEF Spec

\* Every variable stays in its type.
THEOREM TypeCorrect == Spec => []TypeOK
<1>1. IInv => TypeOK
  BY DEF IInv
<1> QED BY <1>1, Invariant, PTL

\* With the right credentials and without expiry a request is repeated as it was refused only
\* without a token, and only if there were two logouts.
THEOREM RefusedAgainCorrect ==
    ASSUME SoundSettings PROVE Spec => []RefusedAgainOnlyAfterLogouts
<1>1. Init => SoundInv
  BY InitSound
<1>2. SoundInv /\ [Next]_vars => SoundInv'
  BY NextSound
<1>3. SoundInv => RefusedAgainOnlyAfterLogouts
  BY DEF SoundInv, TokenOK, LogoutOK, RefusedAgainOnlyAfterLogouts, IInv, TypeOK
<1> QED BY <1>1, <1>2, <1>3, PTL DEF Spec

\* Whatever the settings, the executor of Server is a Failover with one endpoint: however
\* often a call is executed again, the server carries it out at most once.
THEOREM Refinement == Spec => ImplementsFailover
<1>1. Init => Abstract!Init
  BY StatusValues DEF Init, Abstract!Init, Abstract!Endpoints
<1>2. IInv /\ [Next]_vars => [Abstract!Next]_(Abstract!vars)
  BY AbstractStep
<1> QED BY <1>1, <1>2, Invariant, PTL DEF Spec, Abstract!Spec, ImplementsFailover
=============================================================================
