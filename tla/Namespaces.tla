----------------------------- MODULE Namespaces -----------------------------
(***************************************************************************)
(* NamespaceService: the requests it builds out of prefixes, and what it   *)
(* makes of the answers.  Calls overlap, and the repository handles their  *)
(* requests in any order.  A prefix is part of the path of a request: the  *)
(* path of a blank one would be that of all namespaces.                    *)
(***************************************************************************)
EXTENDS Naturals, Sequences

CONSTANTS
    Prefixes,     \* prefixes that are not blank
    Blank,        \* a blank prefix, or a blank namespace
    Namespace,    \* namespaces that are not blank
    MaxLookups    \* bound: number of calls

VARIABLES
    declared,   \* the namespace of every prefix in the repository
    lookups     \* the calls made so far

vars == <<declared, lookups>>

\* What is assumed of the constants.
ConstantsOK == Blank \notin Prefixes /\ Namespace # {} /\ MaxLookups \in Nat

Undeclared == "undeclared"
Operations == {"getNamespaces", "getNamespace", "saveNamespace", "deleteNamespace",
               "deleteNamespaces"}

TypeOK ==
    /\ declared \in [Prefixes -> Namespace \cup {Blank, Undeclared}]
    /\ Len(lookups) <= MaxLookups
    /\ \A i \in DOMAIN lookups :
        /\ lookups[i].op \in Operations
        /\ lookups[i].at \in {"pending", "resolved", "rejected"}
        /\ Len(lookups[i].request) <= 1
        /\ Len(lookups[i].answer) <= 1

\* A repository starts with some namespaces, the same one here for every prefix.
Init ==
    /\ declared = [p \in Prefixes |-> CHOOSE n \in Namespace : TRUE]
    /\ lookups = <<>>

(***************************************************************************)
(* Requests                                                                *)
(***************************************************************************)

\* Slip: the prefix is not looked at.
AnyPrefix(prefix) == TRUE

\* StringUtils.isNotBlank, for want of which an operation throws.
PrefixGiven(prefix) == prefix # Blank

\* The namespace is a string, which must not be blank, or a NamedNode.
NamespaceGiven(namespace, node) == node \/ namespace # Blank

PathOf(prefix) == <<"namespaces", prefix>>

GetNamespaces == [op |-> "getNamespaces", prefix |-> Blank, data |-> Blank,
                  request |-> <<[method |-> "get", path |-> <<"namespaces">>]>>]

GetNamespace(prefix) ==
    [op |-> "getNamespace", prefix |-> prefix, data |-> Blank,
     request |-> <<[method |-> "get", path |-> PathOf(prefix)]>>]

SaveNamespace(prefix, namespace) ==
    [op |-> "saveNamespace", prefix |-> prefix, data |-> namespace,
     request |-> <<[method |-> "put", path |-> PathOf(prefix)]>>]

DeleteNamespace(prefix) ==
    [op |-> "deleteNamespace", prefix |-> prefix, data |-> Blank,
     request |-> <<[method |-> "delete", path |-> PathOf(prefix)]>>]

DeleteNamespaces == [op |-> "deleteNamespaces", prefix |-> Blank, data |-> Blank,
                     request |-> <<[method |-> "delete", path |-> <<"namespaces">>]>>]

(***************************************************************************)
(* The repository                                                          *)
(***************************************************************************)

\* A path that ends with a slash is that of the collection.
Collection(path) == Len(path) = 1 \/ path[2] = Blank

\* External: what a request does.
Effect(r, data) ==
    CASE r.method = "put" /\ ~Collection(r.path) -> [declared EXCEPT ![r.path[2]] = data]
      [] r.method = "delete" /\ ~Collection(r.path) ->
            [declared EXCEPT ![r.path[2]] = Undeclared]
      [] r.method = "delete" /\ Collection(r.path) -> [p \in Prefixes |-> Undeclared]
      [] OTHER -> declared

\* External: how it is answered, with all the declarations or with one of them.
Response(r) ==
    IF r.method = "get" /\ ~Collection(r.path)
    THEN [p \in {r.path[2]} |-> declared[p]] ELSE declared

(***************************************************************************)
(* Behaviour                                                               *)
(***************************************************************************)

Lookup(call) ==
    /\ Len(lookups) < MaxLookups
    /\ lookups' = Append(lookups,
           [op |-> call.op, prefix |-> call.prefix, data |-> call.data,
            request |-> call.request, at |-> "pending", answer |-> <<>>])
    /\ UNCHANGED declared

\* External: the repository handles a request, also one that was given up.
Serve(i) ==
    LET l == lookups[i] IN
    /\ l.request # <<>>
    /\ declared' = Effect(l.request[1], l.data)
    /\ lookups' = [lookups EXCEPT ![i] =
           [l EXCEPT !.request = <<>>,
                     !.answer = IF l.at = "pending" THEN <<Response(l.request[1])>> ELSE @]]

\* A prefix that is not declared is answered with 404.
Receive(i) ==
    LET l == lookups[i] IN
    /\ l.at = "pending"
    /\ l.answer # <<>>
    /\ lookups' = [lookups EXCEPT ![i].at =
           IF l.op = "getNamespace" /\ l.answer[1][l.prefix] = Undeclared
           THEN "rejected" ELSE "resolved"]
    /\ UNCHANGED declared

\* The request fails or its answer is lost.
GiveUp(i) ==
    /\ lookups[i].at = "pending"
    /\ \E request \in {<<>>, lookups[i].request} :
        lookups' = [lookups EXCEPT ![i] = [@ EXCEPT !.at = "rejected", !.answer = <<>>,
                                                    !.request = request]]
    /\ UNCHANGED declared

Next ==
    \/ Lookup(GetNamespaces)
    \/ Lookup(DeleteNamespaces)
    \/ \E prefix \in Prefixes \cup {Blank} :
        /\ PrefixGiven(prefix)
        /\ \/ Lookup(GetNamespace(prefix))
           \/ Lookup(DeleteNamespace(prefix))
           \/ \E namespace \in Namespace \cup {Blank}, node \in BOOLEAN :
                /\ NamespaceGiven(namespace, node)
                /\ Lookup(SaveNamespace(prefix, namespace))
    \/ \E i \in DOMAIN lookups : Serve(i) \/ Receive(i) \/ GiveUp(i)

Spec == Init /\ [][Next]_vars

----------------------------------------------------------------------------
(* Properties                                                              *)

\* The repository changes as one of the calls asked: a save or a deletion of one namespace
\* leaves those of all other prefixes alone, whatever order the requests are handled in
\* and whether or not anybody waits for them.  Only deleteNamespaces deletes several.
NamespaceAsAsked ==
    [][declared' # declared =>
         \E i \in DOMAIN lookups :
            /\ lookups[i].request # <<>> /\ lookups'[i].request = <<>>
            /\ \/ lookups[i].op = "deleteNamespaces"
               \/ /\ lookups[i].op = "saveNamespace"
                  /\ declared' = [declared EXCEPT ![lookups[i].prefix] = lookups[i].data]
               \/ /\ lookups[i].op = "deleteNamespace"
                  /\ declared' = [declared EXCEPT ![lookups[i].prefix] = Undeclared]]_vars
=============================================================================
