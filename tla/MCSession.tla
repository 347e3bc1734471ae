----------------------------- MODULE MCSession -----------------------------
(***************************************************************************)
(* Small instances of Session for TLC.                                     *)
(***************************************************************************)
EXTENDS Session

CONSTANTS g1, q1      \* calls, model values
CONSTANTS pg1, pq1    \* payload objects, model values
CONSTANT graph1       \* a named graph, a model value
CONSTANTS qo1, uo1    \* payload objects, model values
CONSTANT array1       \* an array, a model value
CONSTANTS c1, c2, s1  \* configurations, model values
CONSTANTS h1, l1      \* a headers object and an endpoint array, model values

AskingOnly == {"asking"}
MatchingOnly == {"matching"}
ConfiguringOnly == {"configuring"}
AllParts == {"reading", "writing", "asking", "matching", "configuring", "administering", "naming"}

OneGet == {g1}
OneQuery == {q1}
OnePayload == {pg1}
OneQueryPayload == {pq1}

\* A parser that does not read streams, one of the same type that does, and the
\* predefined one for SPARQL results.
SomeParsers ==
    {[type |-> "TURTLE", streaming |-> FALSE], [type |-> "TURTLE", streaming |-> TRUE],
     [type |-> "SPARQL_RESULTS_JSON", streaming |-> TRUE]}
TwoTypes == {"TURTLE", "SPARQL_RESULTS_JSON"}
SomeTypesOfQueries == {"CONSTRUCT", "SELECT", "ASK"}

Text == [js |-> "string", integral |-> FALSE, truthy |-> TRUE]
Four == [js |-> "number", integral |-> TRUE, truthy |-> TRUE]
Pi == [js |-> "number", integral |-> FALSE, truthy |-> TRUE]
No == [js |-> "boolean", integral |-> FALSE, truthy |-> FALSE]
SomeValues == {Text, Four, Pi, No}

OneLanguage == {"en"}
SomeDataTypes == {"xsd:string", "xsd:boolean"}
OneGraph == {graph1}
TextQuad(g) ==
    [object |-> [value |-> Text, dataType |-> "none", language |-> "none"], graph |-> g]
SomeBatches == {{TextQuad("default"), TextQuad(graph1)}}

OneQueryObject == {qo1}
OneUpdateObject == {uo1}
TwoTexts == {"text1", "text2"}
\* A parameter of both kinds of payload, and one that takes arrays.
InferOnly == {"infer"}
InferAndGraphs == {"infer", "using-graph-uri"}
SomeParamValues ==
    [n \in InferAndGraphs |-> IF n = "infer" THEN {{"true"}}
                             ELSE {{}, array1}]
OneArray == {array1}
ArraysOfGraphs == {{"g"}, {"g", "h"}}
SomeContexts == {{"g", "h"}}

Named(form, name) == [form |-> form, name |-> name]
Empty == Named("empty", "")
SomeSubjects == {Named("iri", "a"), Named("encoded", "a"), Named("blank", "b"), Empty}
SomePredicates == {Named("iri", "p"), Empty}
SomeObjects == {Named("iri", "a"), Named("literal", "l"), Named("variable", "x"), Empty}
SomeContextLists ==
    {{}, {Named("iri", "g")}, {Named("encoded", "g"), Empty}, {Empty},
     {Named("iri", "g"), Named("iri", "h")}}
\* Statements that differ in their objects, in their graphs, and in everything, one of them
\* about a blank node.
Statement(s, o, g) ==
    [subject |-> Named("encoded", s), predicate |-> Named("encoded", "p"), object |-> o,
     graph |-> IF g = "default" THEN Named("empty", "default") ELSE Named("encoded", g)]
SomeStatements ==
    {Statement("a", Named("encoded", "a"), "default"), Statement("a", Named("encoded", "a"), "g"),
     Statement("a", Named("literal", "l"), "g"),
     [Statement("b", Named("blank", "b"), "h") EXCEPT !.subject = Named("blank", "b")]}

TwoConfigs == {c1, c2}
OneServerConfig == {s1}
OneHeaders == {h1}
OneList == {l1}
TwoEndpoints == {"e1", "e2"}
OneEndpoint == {"e1"}
OneLocation == {"far"}
TwoLocations == {"far", "farther"}
OneTimeout == {30}
OneBasic == {"alice by password"}
OneGdb == {"alice by token"}
NoElements == {}

OneId == {"repository"}
OneName == {"bob"}
OldAndNew == {"old", "new"}

TwoPrefixes == {"p", "q"}
TwoNamespaces == {"n", "m"}
=============================================================================
