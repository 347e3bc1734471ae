------------------------------- MODULE Terms -------------------------------
(***************************************************************************)
(* The texts by which an application names resources, literals and graphs, *)
(* and what TermConverter makes of them: terms, when statements are added, *)
(* and N-Triples values, when they are looked for or deleted.  The two     *)
(* conversions are different, and meet in the repository only.             *)
(*                                                                         *)
(* A text is the form it has and the name in it:                           *)
(*   "iri"       http://a                                                  *)
(*   "encoded"   <http://a>                                                *)
(*   "blank"     _:a                                                       *)
(*   "variable"  ?a                                                        *)
(*   "literal"   "a", in quotes, perhaps with a language or a data type    *)
(*   "empty"     null, undefined, or nothing but white space               *)
(*   "mangled"   brackets around something else than an IRI                *)
(* The terms of a statement in the repository are written in the same way. *)
(***************************************************************************)
EXTENDS Naturals, FiniteSets

CONSTANTS
    Subjects,         \* texts that the application uses for subjects
    Predicates,       \* ... for predicates
    Objects,          \* ... for objects
    ContextLists,     \* ... for contexts, sets of texts
    Present,          \* the statements in the repository at the start
    MaxConversions    \* bound: number of calls

VARIABLES
    statements,    \* the statements in the repository
    last,          \* the last call, and what it returned
    conversions    \* number of calls so far

vars == <<statements, last, conversions>>

Forms == {"iri", "encoded", "blank", "variable", "literal", "empty"}
Default == [form |-> "empty", name |-> "default"]
NoCall == [op |-> "none", subject |-> Default, predicate |-> Default, object |-> Default,
           contexts |-> {}, found |-> {}]

TypeOK ==
    /\ \A s \in statements :
        /\ s.subject.form \in {"encoded", "blank"}
        /\ s.predicate.form = "encoded"
        /\ s.object.form \in {"encoded", "blank", "literal"}
        /\ s.graph.form = "encoded" \/ s.graph = Default
    /\ last.op \in {"none", "add", "get", "deleteStatements", "getSize", "deleteAllStatements"}
    /\ last.found \subseteq statements
    /\ conversions \in 0..MaxConversions

Init == statements = Present /\ last = NoCall /\ conversions = 0

(***************************************************************************)
(* TermConverter                                                           *)
(***************************************************************************)

Bracketed(text) ==
    [form |-> IF text.form = "iri" THEN "encoded" ELSE "mangled", name |-> text.name]

\* toTerm as the writer serializes it: all that is no blank node and no variable becomes
\* a named node.
ToTerm(text) == IF text.form \in {"blank", "variable"} THEN text ELSE Bracketed(text)

ToPredicate(text) == IF text.form = "variable" THEN text ELSE Bracketed(text)

\* toObject, or toObjectWithLanguage and toObjectWithDataType for a literal.
ToObject(text) == IF text.form = "literal" THEN text ELSE ToTerm(text)

\* toGraphs and toQuads: a quad for every graph.
ToQuads(subject, predicate, object, contexts) ==
    {[subject |-> ToTerm(subject), predicate |-> ToPredicate(predicate),
      object |-> ToObject(object), graph |-> g] :
        g \in IF contexts = {} THEN {Default} ELSE {ToTerm(c) : c \in contexts}}

\* Slip: a text that is encoded already is encoded again.
EncodedAgain(text) == IF text.form \in {"empty", "literal"} THEN text ELSE Bracketed(text)

ToNTripleValue(text) ==
    IF text.form \in {"empty", "literal", "encoded"} THEN text ELSE Bracketed(text)

\* toNTripleValues, which leaves out what is empty.
ToNTripleValues(texts) == {ToNTripleValue(t) : t \in {u \in texts : u.form # "empty"}}

(***************************************************************************)
(* The repository                                                          *)
(***************************************************************************)

\* External: the statements that can be parsed.
Parsed(quad) ==
    /\ quad.subject.form \in {"encoded", "blank"}
    /\ quad.predicate.form = "encoded"
    /\ quad.object.form \in {"encoded", "blank", "literal"}
    /\ quad.graph.form = "encoded" \/ quad.graph = Default

\* What is assumed of the constants: texts have a form and a name, and the repository starts
\* with statements.
IsText(t) == t = [form |-> t.form, name |-> t.name] /\ t.form \in Forms

ConstantsOK ==
    /\ \A t \in Subjects \cup Predicates \cup Objects \cup UNION ContextLists : IsText(t)
    /\ \A s \in Present : Parsed(s)
    /\ MaxConversions \in Nat

\* External: the context parameter overrides the graphs in the data.
Stored(quads, contexts) ==
    IF contexts = {} THEN quads
    ELSE {[q EXCEPT !.graph = c] : q \in quads, c \in contexts}

\* External: an absent parameter is a wildcard, and so is an absent context.
Selected(subject, predicate, object, contexts) ==
    {s \in statements :
        /\ subject.form = "empty" \/ s.subject = subject
        /\ predicate.form = "empty" \/ s.predicate = predicate
        /\ object.form = "empty" \/ s.object = object
        /\ contexts = {} \/ s.graph \in contexts}

(***************************************************************************)
(* Calls                                                                   *)
(***************************************************************************)

Call(op, subject, predicate, object, contexts, found) ==
    /\ conversions < MaxConversions
    /\ conversions' = conversions + 1
    /\ last' = [op |-> op, subject |-> subject, predicate |-> predicate, object |-> object,
                contexts |-> contexts, found |-> found]

\* add: without an empty subject, predicate or object; its contexts are not empty, and its
\* object is a literal if setObjectLiteral described it.  The request fails if the data
\* cannot be parsed.
Add(subject, predicate, object, contexts) ==
    LET quads == ToQuads(subject, predicate, object, contexts) IN
    /\ \A t \in {subject, predicate, object} \cup contexts : t.form # "empty"
    /\ statements' = IF \A q \in quads : Parsed(q)
                     THEN statements \cup Stored(quads, ToNTripleValues(contexts))
                     ELSE statements
    /\ Call("add", subject, predicate, object, contexts, {})

Filtered(subject, predicate, object, contexts) ==
    Selected(ToNTripleValue(subject), ToNTripleValue(predicate), ToNTripleValue(object),
             ToNTripleValues(contexts))

\* get and download.
Get(subject, predicate, object, contexts) ==
    /\ Call("get", subject, predicate, object, contexts,
            Filtered(subject, predicate, object, contexts))
    /\ UNCHANGED statements

\* getSize, which returns the number of the statements found.
GetSize(contexts) ==
    /\ Call("getSize", Default, Default, Default, contexts,
            Selected(Default, Default, Default, ToNTripleValues(contexts)))
    /\ UNCHANGED statements

DeleteStatements(subject, predicate, object, contexts) ==
    /\ statements' = statements \ Filtered(subject, predicate, object, contexts)
    /\ Call("deleteStatements", subject, predicate, object, contexts, {})

DeleteAllStatements ==
    /\ statements' = {}
    /\ Call("deleteAllStatements", Default, Default, Default, {}, {})

Next ==
    \/ \E s \in Subjects, p \in Predicates, o \in Objects, c \in ContextLists :
        \/ Add(s, p, o, c)
        \/ Get(s, p, o, c)
        \/ DeleteStatements(s, p, o, c)
    \/ \E c \in ContextLists : GetSize(c)
    \/ DeleteAllStatements

Spec == Init /\ [][Next]_vars

----------------------------------------------------------------------------
(* Properties                                                              *)

\* What a text stands for when it is looked for: an IRI, encoded or not, for itself, a
\* literal or a blank node for itself, an empty text for anything, a variable for nothing.
Denotes(text, term) ==
    CASE text.form \in {"iri", "encoded"} -> term = [form |-> "encoded", name |-> text.name]
      [] text.form \in {"literal", "blank"} -> term = text
      [] text.form = "empty" -> TRUE
      [] OTHER -> FALSE

\* The statements that the texts of a call stand for.
Denoted(call) ==
    {s \in statements :
        /\ Denotes(call.subject, s.subject)
        /\ Denotes(call.predicate, s.predicate)
        /\ Denotes(call.object, s.object)
        /\ (\A c \in call.contexts : c.form = "empty")
           \/ \E c \in call.contexts : c.form # "empty" /\ Denotes(c, s.graph)}

\* No text of a call names a blank node.
WithoutBlanks(call) ==
    \A t \in {call.subject, call.predicate, call.object} \cup call.contexts : t.form # "blank"

\* Reading, counting and deleting are about exactly the statements that the texts stand for,
\* however they are written, and deleting leaves all others alone: "Provided values will be
\* automatically converted to N-Triples if they are not already encoded as such"
\* (statements-service.js:234-235).  So what was added under plain texts is found and
\* deleted under the same ones.  Calls that name blank nodes are left out: toNTripleValue
\* puts their names in brackets (see BlankNodesDeleted).
MatchesAsDenoted ==
    [][/\ last'.op \in {"get", "getSize"} /\ WithoutBlanks(last')
             => last'.found = Denoted(last')
       /\ last'.op = "deleteStatements" /\ WithoutBlanks(last')
             => statements' = statements \ Denoted(last')
       /\ last'.op = "add"
          /\ (\A t \in {last'.subject, last'.predicate} \cup last'.contexts : t.form = "iri")
          /\ last'.object.form \in {"iri", "literal"}
             => \A c \in last'.contexts \cup (IF last'.contexts = {} THEN {Default} ELSE {}) :
                \E s \in statements' :
                    /\ Denotes(last'.subject, s.subject)
                    /\ Denotes(last'.predicate, s.predicate)
                    /\ Denotes(last'.object, s.object)
                    /\ Denotes(c, s.graph)]_vars

\* Deleting is about exactly the statements that the texts stand for when they name blank
\* nodes as well.  The name of a blank node is N-Triples as it is, and values are converted
\* only "if they are not already encoded as such" (statements-service.js:234-235).
BlankNodesDeleted ==
    [][last'.op = "deleteStatements" => statements' = statements \ Denoted(last')]_vars
=============================================================================
