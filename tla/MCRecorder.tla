----------------------------- MODULE MCRecorder -----------------------------
(***************************************************************************)
(* Two clients and a mux with documented routes that shadow one another, a *)
(* HEAD route beside a GET route, the document, a health check and a mount.*)
(***************************************************************************)
EXTENDS Recorder, TLC

CONSTANTS c1, c2

Literal(value) == [kind |-> "literal", text |-> value]
Param == [kind |-> "param"]
Rest == [kind |-> "rest"]

Task == <<Literal("tasks"), Param>>
New == <<Literal("tasks"), Literal("new")>>
SpecPath == <<Literal("spec")>>
Health == <<Literal("health")>>
Assets == <<Literal("assets"), Rest>>
Top == <<Param>>

Listed == <<Assets, Health, SpecPath, New, Task, Top>>
MCTemplates == {Listed[i] : i \in DOMAIN Listed}
MCStringOrder == [t \in MCTemplates |-> CHOOSE i \in DOMAIN Listed : Listed[i] = t]
MCValues == {"", "tasks", "new", "7", "spec", "health", "assets"}

Route(method, template) == [method |-> method, template |-> template, kind |-> "route"]
Document(method) == [method |-> method, template |-> SpecPath, kind |-> "document"]
HealthCheck == [method |-> AnyMethod, template |-> Health, kind |-> "stray"]
Mount == [method |-> AnyMethod, template |-> Assets, kind |-> "subtree"]

Outcome(status, hijacked, upgrade, toggles) ==
    [status |-> status, hijacked |-> hijacked, upgrade |-> upgrade, toggles |-> toggles]

\* Writes nothing, writes a code, upgrades, takes over, redirects to its slash.
AllOutcomes ==
    {Plain(0), Plain(503), Outcome(0, TRUE, TRUE, FALSE), Outcome(0, TRUE, FALSE, FALSE),
     Outcome(307, FALSE, FALSE, TRUE)}
FewOutcomes == {Plain(0), Plain(404)}

MCPaths == [1..1 -> MCValues] \cup [1..2 -> MCValues]

\* The recorder wraps the mux itself.
Direct(entries) ==
    [mux |-> entries, middleware |-> {"none"}, outcomes |-> AllOutcomes,
     sent |-> ({"GET", "HEAD"} \X {<<"tasks", "7">>, <<"spec">>, <<"health">>, <<"assets">>})
                \cup {<<"POST", <<"tasks", "7">>>>, <<"POST", <<"spec">>>>}]

\* The recorder wraps the production handler: the patterns are hidden.
Wrapped(entries, other) ==
    [mux |-> entries, middleware |-> {"copies", "answers"}, outcomes |-> FewOutcomes,
     sent |-> ({"GET", "HEAD"} \X {<<"tasks", "new">>, <<"tasks", "7">>, <<"spec">>})
                \cup {<<"GET", other>>}]

MCSetups ==
    {Direct({Route("GET", Task), Document(AnyMethod), HealthCheck}),
     Direct({Route("GET", Task), Route("HEAD", Task), Document(AnyMethod), Mount}),
     Wrapped({Route("GET", Task), Route("GET", New), Route("HEAD", New), Document("GET"), Mount}, <<"assets", "7">>),
     Wrapped({Route("GET", Task), Route("HEAD", New), Route("GET", Top), Document("GET")}, <<"7">>)}

ASSUME ProgramsInScope == \A s \in MCSetups : HiddenRoutesAreKnown(s) /\ DocumentStandsAlone(s)

\* The document as README.md mounts it.
HeadSetups ==
    {[Direct({Route("GET", Task), Document("GET")}) EXCEPT
        !.outcomes = FewOutcomes, !.sent = {"GET", "HEAD"} \X {<<"tasks", "7">>, <<"spec">>}]}

MCDeclared ==
    [key \in RouteKeys |-> IF key[1] = "HEAD" THEN {200}
                           ELSE IF key[2] = New THEN {200, 404} ELSE {200, 503}]
HealthSkipped == {Health}
NoneSkipped == {}
ClientSymmetry == Permutations({c1, c2})
=============================================================================
