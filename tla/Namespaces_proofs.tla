-------------------------- MODULE Namespaces_proofs --------------------------
(***************************************************************************)
(* What Namespaces promises, proved for every set of prefixes and of       *)
(* namespaces and any number of overlapping calls.                         *)
(***************************************************************************)
EXTENDS Namespaces, SequenceTheorems, TLAPS

\* The request that a call was made with.
RequestFor(l) ==
    CASE l.op = "getNamespaces" -> GetNamespaces.request
      [] l.op = "getNamespace" -> GetNamespace(l.prefix).request
      [] l.op = "saveNamespace" -> SaveNamespace(l.prefix, l.data).request
      [] l.op = "deleteNamespace" -> DeleteNamespace(l.prefix).request
      [] l.op = "deleteNamespaces" -> DeleteNamespaces.request

\* A call is about one prefix that is not blank, unless it is about all of them.
AboutOnePrefix(l) ==
    l.op \in {"getNamespace", "saveNamespace", "deleteNamespace"} => l.prefix \in Prefixes

Fields == {"op", "prefix", "data", "request", "at", "answer"}

\* The calls that can have been made.
CallInv ==
    \A i \in DOMAIN lookups :
        /\ DOMAIN lookups[i] = Fields
        /\ lookups[i].op \in Operations
        /\ lookups[i].at \in {"pending", "resolved", "rejected"}
        /\ Len(lookups[i].answer) <= 1
        /\ lookups[i].data \in Namespace \cup {Blank}
        /\ AboutOnePrefix(lookups[i])

\* A request that has not been handled is still the one the call was made with.
RequestInv ==
    \A i \in DOMAIN lookups :
        lookups[i].request = <<>> \/ lookups[i].request = RequestFor(lookups[i])

IInv ==
    /\ declared \in [Prefixes -> Namespace \cup {Blank, Undeclared}]
    /\ \E S : lookups \in Seq(S)
    /\ Len(lookups) <= MaxLookups
    /\ CallInv
    /\ RequestInv

\* Only a request that is not a blank path of a prefix is ever made, so that its effect is
\* what the operation is for.
LEMMA EffectOfCall ==
    ASSUME NEW l, l.op \in Operations, AboutOnePrefix(l), Blank \notin Prefixes
    PROVE  LET after == Effect(RequestFor(l)[1], l.data) IN
           /\ l.op \in {"getNamespaces", "getNamespace"} => after = declared
           /\ l.op = "saveNamespace" => after = [declared EXCEPT ![l.prefix] = l.data]
           /\ l.op = "deleteNamespace" => after = [declared EXCEPT ![l.prefix] = Undeclared]
           /\ l.op = "deleteNamespaces" => after = [p \in Prefixes |-> Undeclared]
<1>1. CASE l.op = "getNamespaces"
  <2>1. RequestFor(l)[1] = [method |-> "get", path |-> <<"namespaces">>]
    BY <1>1 DEF RequestFor, GetNamespaces
  <2> QED BY <1>1, <2>1 DEF Effect
<1>2. CASE l.op = "getNamespace"
  <2>1. RequestFor(l)[1] = [method |-> "get", path |-> <<"namespaces", l.prefix>>]
    BY <1>2 DEF RequestFor, GetNamespace, PathOf
  <2> QED BY <1>2, <2>1 DEF Effect
<1>3. CASE l.op = "saveNamespace"
  <2>1. RequestFor(l)[1] = [method |-> "put", path |-> <<"namespaces", l.prefix>>]
    BY <1>3 DEF RequestFor, SaveNamespace, PathOf
  <2>2. ~Collection(RequestFor(l)[1].path)
    BY <1>3, <2>1 DEF Collection, AboutOnePrefix
  <2> QED BY <1>3, <2>1, <2>2 DEF Effect
<1>4. CASE l.op = "deleteNamespace"
  <2>1. RequestFor(l)[1] = [method |-> "delete", path |-> <<"namespaces", l.prefix>>]
    BY <1>4 DEF RequestFor, DeleteNamespace, PathOf
  <2>2. ~Collection(RequestFor(l)[1].path)
    BY <1>4, <2>1 DEF Collection, AboutOnePrefix
  <2> QED BY <1>4, <2>1, <2>2 DEF Effect
<1>5. CASE l.op = "deleteNamespaces"
  <2>1. RequestFor(l)[1] = [method |-> "delete", path |-> <<"namespaces">>]
    BY <1>5 DEF RequestFor, DeleteNamespaces
  <2>2. Collection(RequestFor(l)[1].path)
    BY <2>1 DEF Collection
  <2> QED BY <1>5, <2>1, <2>2 DEF Effect
<1> QED BY <1>1, <1>2, <1>3, <1>4, <1>5 DEF Operations

(***************************************************************************)
(* Steps                                                                   *)
(***************************************************************************)

\* A step that makes a call adds one to the sequence.
LEMMA Added ==
    ASSUME NEW S, lookups \in Seq(S), NEW l, lookups' = Append(lookups, l)
    PROVE  /\ \E T : lookups' \in Seq(T)
           /\ Len(lookups') = Len(lookups) + 1
           /\ DOMAIN lookups = 1..Len(lookups) /\ Len(lookups) \in Nat
           /\ DOMAIN lookups' = 1..(Len(lookups) + 1)
           /\ \A i \in DOMAIN lookups : lookups'[i] = lookups[i]
           /\ lookups'[Len(lookups) + 1] = l
<1> DEFINE T == S \cup {l}
<1>1. lookups \in Seq(T)
  BY SeqMonotonic
<1>2. l \in T
  OBVIOUS
<1>3. lookups' \in Seq(T)
  BY <1>1, <1>2, AppendProperties
<1> QED BY <1>1, <1>2, <1>3, AppendProperties, LenProperties

\* Any other step changes one of the calls.
LEMMA Changed ==
    ASSUME NEW S, lookups \in Seq(S), NEW i \in DOMAIN lookups, NEW l,
           lookups' = [lookups EXCEPT ![i] = l]
    PROVE  /\ \E T : lookups' \in Seq(T)
           /\ Len(lookups') = Len(lookups)
           /\ DOMAIN lookups' = DOMAIN lookups
           /\ \A j \in DOMAIN lookups : j # i => lookups'[j] = lookups[j]
           /\ lookups'[i] = l
<1> DEFINE T == S \cup {l}
<1>1. lookups \in Seq(T)
  BY SeqMonotonic
<1>2. l \in T /\ i \in 1..Len(lookups)
  BY LenProperties
<1>3. lookups' \in Seq(T) /\ Len(lookups') = Len(lookups)
  BY <1>1, <1>2, ExceptSeq
<1> QED BY <1>3

\* At first no call has been made.
LEMMA InitHolds == ASSUME ConstantsOK, Init PROVE IInv
<1>1. declared \in [Prefixes -> Namespace \cup {Blank, Undeclared}]
  BY DEF ConstantsOK, Init
<1>2. lookups = <<>> /\ lookups \in Seq({}) /\ Len(lookups) = 0 /\ DOMAIN lookups = {}
  BY EmptySeq, LenProperties DEF Init
<1> QED BY <1>1, <1>2 DEF IInv, CallInv, RequestInv, ConstantsOK

\* A call is made with a request of its own.
LEMMA LookupPreserves ==
    ASSUME ConstantsOK, IInv, NEW call, Lookup(call),
           call.op \in Operations, call.data \in Namespace \cup {Blank},
           AboutOnePrefix(call), call.request = RequestFor(call)
    PROVE  IInv'
<1> DEFINE l == [op |-> call.op, prefix |-> call.prefix, data |-> call.data,
                 request |-> call.request, at |-> "pending", answer |-> <<>>]
<1>1. PICK S : lookups \in Seq(S)
  BY DEF IInv
<1>2. lookups' = Append(lookups, l) /\ declared' = declared /\ Len(lookups) < MaxLookups
  BY DEF Lookup
<1> HIDE DEF l
<1>3. /\ \E T : lookups' \in Seq(T)
      /\ Len(lookups') = Len(lookups) + 1
      /\ DOMAIN lookups = 1..Len(lookups) /\ Len(lookups) \in Nat
      /\ DOMAIN lookups' = 1..(Len(lookups) + 1)
      /\ \A i \in DOMAIN lookups : lookups'[i] = lookups[i]
      /\ lookups'[Len(lookups) + 1] = l
  BY <1>1, <1>2, Added
<1>4. /\ DOMAIN l = Fields /\ l.op \in Operations /\ l.at = "pending" /\ Len(l.answer) = 0
      /\ l.data \in Namespace \cup {Blank} /\ AboutOnePrefix(l)
      /\ l.request = RequestFor(l)
  BY EmptySeq DEF l, Fields, AboutOnePrefix, RequestFor
<1>5. \A i \in DOMAIN lookups' : i \in DOMAIN lookups \/ i = Len(lookups) + 1
  BY <1>3
<1>6. CallInv'
  BY <1>3, <1>4, <1>5 DEF IInv, CallInv, AboutOnePrefix
<1>7. RequestInv'
  BY <1>3, <1>4, <1>5 DEF IInv, RequestInv, RequestFor
<1>8. Len(lookups') <= MaxLookups
  BY <1>2, <1>3 DEF ConstantsOK
<1> QED BY <1>2, <1>3, <1>6, <1>7, <1>8 DEF IInv

\* A step of a call keeps what the call is about, and keeps or drops its request.
LEMMA ChangePreserves ==
    ASSUME IInv, NEW i \in DOMAIN lookups, NEW l,
           lookups' = [lookups EXCEPT ![i] = l],
           declared' \in [Prefixes -> Namespace \cup {Blank, Undeclared}],
           DOMAIN l = Fields,
           l.op = lookups[i].op, l.prefix = lookups[i].prefix, l.data = lookups[i].data,
           l.at \in {"pending", "resolved", "rejected"}, Len(l.answer) <= 1,
           l.request \in {<<>>, lookups[i].request}
    PROVE  IInv'
<1>1. PICK S : lookups \in Seq(S)
  BY DEF IInv
<1>2. /\ \E T : lookups' \in Seq(T)
      /\ Len(lookups') = Len(lookups)
      /\ DOMAIN lookups' = DOMAIN lookups
      /\ \A j \in DOMAIN lookups : j # i => lookups'[j] = lookups[j]
      /\ lookups'[i] = l
  BY <1>1, Changed
<1>3. CallInv'
  BY <1>2 DEF IInv, CallInv, AboutOnePrefix
<1>4. RequestInv'
  <2>1. RequestFor(l) = RequestFor(lookups[i])
    BY DEF RequestFor
  <2>2. l.request = <<>> \/ l.request = RequestFor(l)
    BY <2>1 DEF IInv, RequestInv
  <2>3. \A j \in DOMAIN lookups :
           lookups'[j].request = <<>> \/ lookups'[j].request = RequestFor(lookups'[j])
    BY <1>2, <2>2 DEF IInv, RequestInv
  <2> QED BY <1>2, <2>3 DEF RequestInv, RequestFor
<1> QED BY <1>2, <1>3, <1>4 DEF IInv

\* What the repository does with a request: the one effect that the operation is for.
LEMMA ServeEffect ==
    ASSUME ConstantsOK, IInv, NEW i \in DOMAIN lookups, Serve(i)
    PROVE  /\ lookups[i].op \in {"getNamespaces", "getNamespace"} => declared' = declared
           /\ lookups[i].op = "saveNamespace"
                 => declared' = [declared EXCEPT ![lookups[i].prefix] = lookups[i].data]
           /\ lookups[i].op = "deleteNamespace"
                 => declared' = [declared EXCEPT ![lookups[i].prefix] = Undeclared]
           /\ lookups[i].op = "deleteNamespaces"
                 => declared' = [p \in Prefixes |-> Undeclared]
<1>1. /\ lookups[i].request = RequestFor(lookups[i])
      /\ declared' = Effect(lookups[i].request[1], lookups[i].data)
  BY DEF IInv, RequestInv, Serve
<1>2. lookups[i].op \in Operations /\ AboutOnePrefix(lookups[i])
  BY DEF IInv, CallInv
<1> QED BY <1>1, <1>2, EffectOfCall DEF ConstantsOK

\* Handling a request drops it, and answers the call if it is waited for.
LEMMA ServePreserves ==
    ASSUME ConstantsOK, IInv, NEW i \in DOMAIN lookups, Serve(i)
    PROVE  IInv'
<1> DEFINE l == [lookups[i] EXCEPT
                   !.request = <<>>,
                   !.answer = IF lookups[i].at = "pending"
                              THEN <<Response(lookups[i].request[1])>> ELSE @]
<1>1. lookups' = [lookups EXCEPT ![i] = l]
  BY DEF Serve
<1>2. /\ DOMAIN lookups[i] = Fields /\ lookups[i].op \in Operations
      /\ lookups[i].at \in {"pending", "resolved", "rejected"}
      /\ Len(lookups[i].answer) <= 1
      /\ lookups[i].data \in Namespace \cup {Blank}
      /\ AboutOnePrefix(lookups[i])
  BY DEF IInv, CallInv
<1>3. /\ DOMAIN l = Fields /\ l.op = lookups[i].op /\ l.prefix = lookups[i].prefix
      /\ l.data = lookups[i].data /\ l.at = lookups[i].at /\ l.request = <<>>
      /\ l.answer = IF lookups[i].at = "pending"
                    THEN <<Response(lookups[i].request[1])>> ELSE lookups[i].answer
  BY <1>2 DEF Fields
<1>4. \A x : Len(<<x>>) = 1
  OBVIOUS
<1>5. Len(l.answer) <= 1
  BY <1>2, <1>3, <1>4
<1>6. declared' \in [Prefixes -> Namespace \cup {Blank, Undeclared}]
  BY <1>2, ServeEffect DEF IInv, AboutOnePrefix, Operations
<1> HIDE DEF l
<1> QED BY <1>1, <1>2, <1>3, <1>5, <1>6, ChangePreserves

\* An answer settles its call.
LEMMA ReceivePreserves ==
    ASSUME IInv, NEW i \in DOMAIN lookups, Receive(i)
    PROVE  IInv'
<1> DEFINE at == IF lookups[i].op = "getNamespace"
                      /\ lookups[i].answer[1][lookups[i].prefix] = Undeclared
                 THEN "rejected" ELSE "resolved"
           l == [lookups[i] EXCEPT !.at = at]
<1>1. lookups' = [lookups EXCEPT ![i] = l]
  BY DEF Receive
<1>2. /\ DOMAIN lookups[i] = Fields /\ Len(lookups[i].answer) <= 1
  BY DEF IInv, CallInv
<1>3. at \in {"rejected", "resolved"}
  OBVIOUS
<1> HIDE DEF at
<1>4. /\ DOMAIN l = Fields /\ l.op = lookups[i].op /\ l.prefix = lookups[i].prefix
      /\ l.data = lookups[i].data /\ l.at = at /\ l.request = lookups[i].request
      /\ l.answer = lookups[i].answer
  BY <1>2 DEF Fields
<1>5. declared' \in [Prefixes -> Namespace \cup {Blank, Undeclared}]
  BY DEF IInv, Receive
<1> HIDE DEF l
<1> QED BY <1>1, <1>2, <1>3, <1>4, <1>5, ChangePreserves

\* A call given up keeps its request, or loses it.
LEMMA GiveUpPreserves ==
    ASSUME IInv, NEW i \in DOMAIN lookups, GiveUp(i)
    PROVE  IInv'
<1>1. PICK request \in {<<>>, lookups[i].request} :
        lookups' = [lookups EXCEPT ![i] = [@ EXCEPT !.at = "rejected", !.answer = <<>>,
                                                    !.request = request]]
  BY DEF GiveUp
<1> DEFINE l == [lookups[i] EXCEPT !.at = "rejected", !.answer = <<>>, !.request = request]
<1>2. lookups' = [lookups EXCEPT ![i] = l]
  BY <1>1
<1>3. DOMAIN lookups[i] = Fields
  BY DEF IInv, CallInv
<1>4. /\ DOMAIN l = Fields /\ l.op = lookups[i].op /\ l.prefix = lookups[i].prefix
      /\ l.data = lookups[i].data /\ l.at = "rejected" /\ l.request = request
      /\ l.answer = <<>>
  BY <1>3 DEF Fields
<1>5. Len(l.answer) <= 1
  BY <1>4, EmptySeq
<1>6. declared' \in [Prefixes -> Namespace \cup {Blank, Undeclared}]
  BY DEF IInv, GiveUp
<1> HIDE DEF l
<1> QED BY <1>1, <1>2, <1>4, <1>5, <1>6, ChangePreserves

\* Every call that Next can make is about one prefix that is not blank, or about all.
LEMMA NextPreserves == ASSUME ConstantsOK, IInv, [Next]_vars PROVE IInv'
<1>1. CASE Lookup(GetNamespaces)
  <2>1. /\ GetNamespaces.op \in Operations /\ GetNamespaces.data = Blank
        /\ AboutOnePrefix(GetNamespaces)
        /\ GetNamespaces.request = RequestFor(GetNamespaces)
    BY DEF GetNamespaces, Operations, AboutOnePrefix, RequestFor
  <2> QED BY <1>1, <2>1, LookupPreserves
<1>2. CASE Lookup(DeleteNamespaces)
  <2>1. /\ DeleteNamespaces.op \in Operations /\ DeleteNamespaces.data = Blank
        /\ AboutOnePrefix(DeleteNamespaces)
        /\ DeleteNamespaces.request = RequestFor(DeleteNamespaces)
    BY DEF DeleteNamespaces, Operations, AboutOnePrefix, RequestFor
  <2> QED BY <1>2, <2>1, LookupPreserves
<1>3. ASSUME NEW prefix \in Prefixes, Lookup(GetNamespace(prefix)) PROVE IInv'
  <2>1. /\ GetNamespace(prefix).op \in Operations /\ GetNamespace(prefix).data = Blank
        /\ AboutOnePrefix(GetNamespace(prefix))
        /\ GetNamespace(prefix).request = RequestFor(GetNamespace(prefix))
    BY DEF GetNamespace, Operations, AboutOnePrefix, RequestFor
  <2> QED BY <1>3, <2>1, LookupPreserves
<1>4. ASSUME NEW prefix \in Prefixes, Lookup(DeleteNamespace(prefix)) PROVE IInv'
  <2>1. /\ DeleteNamespace(prefix).op \in Operations
        /\ DeleteNamespace(prefix).data = Blank
        /\ AboutOnePrefix(DeleteNamespace(prefix))
        /\ DeleteNamespace(prefix).request = RequestFor(DeleteNamespace(prefix))
    BY DEF DeleteNamespace, Operations, AboutOnePrefix, RequestFor
  <2> QED BY <1>4, <2>1, LookupPreserves
<1>5. ASSUME NEW prefix \in Prefixes, NEW namespace \in Namespace \cup {Blank},
             Lookup(SaveNamespace(prefix, namespace))
      PROVE  IInv'
  <2> DEFINE call == SaveNamespace(prefix, namespace)
  <2>1. /\ call.op \in Operations /\ call.data = namespace /\ AboutOnePrefix(call)
        /\ call.request = RequestFor(call)
    BY DEF SaveNamespace, Operations, AboutOnePrefix, RequestFor
  <2> QED BY <1>5, <2>1, LookupPreserves
<1>6. ASSUME NEW i \in DOMAIN lookups, Serve(i) \/ Receive(i) \/ GiveUp(i) PROVE IInv'
  BY <1>6, ServePreserves, ReceivePreserves, GiveUpPreserves
<1>7. CASE UNCHANGED vars
  BY <1>7 DEF vars, IInv, CallInv, RequestInv, AboutOnePrefix, RequestFor
<1> QED BY <1>1, <1>2, <1>3, <1>4, <1>5, <1>6, <1>7 DEF Next, PrefixGiven

\* A call has at most one request and one answer.
LEMMA IInvTyped == ASSUME IInv PROVE TypeOK
<1>1. ASSUME NEW i \in DOMAIN lookups PROVE Len(lookups[i].request) <= 1
  <2>1. lookups[i].request = <<>> \/ lookups[i].request = RequestFor(lookups[i])
    BY DEF IInv, RequestInv
  <2>2. lookups[i].op \in Operations
    BY DEF IInv, CallInv
  <2>3. \A r : Len(<<r>>) = 1
    OBVIOUS
  <2>4. \E r : RequestFor(lookups[i]) = <<r>>
    BY <2>2 DEF RequestFor, Operations, GetNamespaces, GetNamespace, SaveNamespace,
                DeleteNamespace, DeleteNamespaces
  <2>5. Len(RequestFor(lookups[i])) <= 1
    BY <2>3, <2>4
  <2>6. Len(<<>>) <= 1
    BY EmptySeq
  <2> QED BY <2>1, <2>5, <2>6, Zenon
<1> QED BY <1>1 DEF IInv, CallInv, TypeOK

\* Handling the request of a call changes the repository as the call asked.
LEMMA AskedStep ==
    ASSUME ConstantsOK, IInv, [Next]_vars, declared' # declared
    PROVE  \E i \in DOMAIN lookups :
            /\ lookups[i].request # <<>> /\ lookups'[i].request = <<>>
            /\ \/ lookups[i].op = "deleteNamespaces"
               \/ /\ lookups[i].op = "saveNamespace"
                  /\ declared' = [declared EXCEPT ![lookups[i].prefix] = lookups[i].data]
               \/ /\ lookups[i].op = "deleteNamespace"
                  /\ declared' = [declared EXCEPT ![lookups[i].prefix] = Undeclared]
<1>1. PICK i \in DOMAIN lookups : Serve(i)
  BY DEF Next, vars, Lookup, Receive, GiveUp
<1>2. lookups[i].request # <<>> /\ lookups'[i].request = <<>>
  BY <1>1 DEF Serve, IInv, CallInv, Fields
<1>3. lookups[i].op \in Operations
  BY DEF IInv, CallInv
<1> QED BY <1>1, <1>2, <1>3, ServeEffect DEF Operations

(***************************************************************************)
(* Theorems                                                                *)
(***************************************************************************)

\* The inductive invariant, for any number of prefixes, namespaces and overlapping calls.
THEOREM Invariant == ASSUME ConstantsOK PROVE Spec => []IInv
BY InitHolds, NextPreserves, PTL DEF Spec

\* Every variable stays in its type: a call has at most one request and one answer.
THEOREM TypeCorrect == ASSUME ConstantsOK PROVE Spec => []TypeOK
BY Invariant, IInvTyped, PTL

\* The repository changes as one of the calls asked: requests of one prefix leave all others
\* alone, in any order in which they are handled, and also when nobody waits for them.
THEOREM AskedCorrect == ASSUME ConstantsOK PROVE Spec => NamespaceAsAsked
<1> DEFINE Asked == declared' # declared =>
         \E i \in DOMAIN lookups :
            /\ lookups[i].request # <<>> /\ lookups'[i].request = <<>>
            /\ \/ lookups[i].op = "deleteNamespaces"
               \/ /\ lookups[i].op = "saveNamespace"
                  /\ declared' = [declared EXCEPT ![lookups[i].prefix] = lookups[i].data]
               \/ /\ lookups[i].op = "deleteNamespace"
                  /\ declared' = [declared EXCEPT ![lookups[i].prefix] = Undeclared]
<1>1. IInv /\ [Next]_vars => [Asked]_vars
  BY AskedStep
<1> QED BY <1>1, Invariant, PTL DEF Spec, NamespaceAsAsked
=============================================================================
