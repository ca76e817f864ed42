# specout: TLA+ models, checks and proofs

specout is a Go library that generates an OpenAPI 3.1 document from Go types and
the routes a program registers, serves it, and compares it with the statuses
that tests observe. This directory holds TLA+ models of its stateful parts and
of its order-sensitive algorithms, the TLC runs that check them on small
instances, and TLAPS proofs that hold for every instance.

## Inventory

| Part (source) | State | Operations | What is hard |
|---|---|---|---|
| Generator lifecycle (`specout.go`, `serve.go`, `build.go`) | `records`, `webhooks`, `variants`, `nameOverrides`, `sources`, `specJSON`, `outer`, `inputs`, `buildErr`, `errAt`, `served`, all under `mu` | `Register`, `SchemaName`, `Webhook`, `addRoute`, `addSource`, `Build`, `WriteJSON`, `ServeHTTP` | registrations race builds; a failed build is kept until an input changes; a request leaves the lock between its answer, the log and its mark; builds may panic under the lock |
| Chi route resolution (`routes.go`, `register_chi.go`) | `rec.full`, the live routers of the program | walk, `pairPaths`, `validateRecords`, `checkChiMount`, `Adopt`, `lookup` | routers change without the generator: mounts, replaced handlers, adoptions in any order |
| Status maps (`statusmap.go`) | none of its own | `DeclaredStatuses`, `SpecStatuses` | resolve the routes again, also after the freeze |
| Response plan (`responses.go`, `response.go`, `errors.go`) | the order, the last declaration and the omissions of one route's responses | `put`, `putSuccess`, `putDefaultErrors`, omission, `planStatuses` | later declarations replace, omit or restore earlier ones; the document and the drift maps read one plan |
| Recorder (`recorder/`, `internal/hijack`) | observed codes and unmatched requests, under the recorder's lock | `ServeHTTP`, `Observe`, `Verify`, route matching | requests race a verification that reads three maps at three moments; fallback matching iterates a map |
| Bind, the other binders and the adapters (`bind.go`, `register_std.go`, `register_gorilla.go`, `document.go`, `adapters/*`) | the host router; the gate of each route; documented paths of Gin, registered routes of Echo v4 | `Handle`, `Bind`, `Document`, `Record` | the router has a route before the generator accepts it, so requests race a registration that may still fail |
| Stray routes (`stray.go`, `CheckRoutes`, the adapters' `Adopt`) | none of its own | `collect`, `lookup`, `twins` | a route table names routes by method and path, and several routers share one document |
| Path translators (`internal/echopath`, `internal/fiberpath`, Gin's `openAPIPath`) | the position in the path | `OpenAPI` | the router scans the same text in its own way |
| Operations, links, callbacks (`operation.go`, `links.go`, `callbacks.go`) | `records`, `webhooks`, `rec.parent` | `Webhook`, `checkRoute`, `checkOperationIDs`, `checkLinks` | unique ids over routes, webhooks and shared callbacks; ids that a later `Adopt` gives |
| Component names (`schema.go`, `build.go`) | `owners`, `reserved` names of one reflection | `claimName`, `nextAnonymousName`, retry | the reflection runs again with names reserved until none clashes |
| Schemas (`schema.go`, `fields.go`, `fixups.go`, `defs.go`, `unions.go`, `walk.go`, `body.go`, `params_body.go`) | the schema registry of one build: `byType`, `byName`, `fixed` | `refFor`, `applySchemaFixes`, `closeSchema`, `reflectAllVariants`, `makeUnionEnvelope`, `formSchema` | passes over schemas that several components share; a hoisted struct and the same struct as a root take different ways; generated names may be taken |
| Tags, values, parameter styles, encodings, security schemes, examples, Raw | none | checks of one value each | width of the input space, not order |
| Examples (`examples/`), tools | not part of the library | | |

The parts that are not modelled, and why, are listed at the end and, with the
status of each component, in `PROJECT.json`.

## Modules

| Module | Kind | Models |
|---|---|---|
| `Routes` | operators | what `resolveLocked`, `checkChiMount` and chi's walk compute from the live routers |
| `Generator` | state machine, EXTENDS `Routes` | `specout.Generator` under concurrent calls |
| `SpecServing` | abstract specification | what a generator promises, without builds and kept errors; `Generator!PromiseKept` is the refinement |
| `ResponsePlan` | state machine | the walk of `responsePlan` over one route's declarations, and the two drift views of `statusmap.go` |
| `RouteMatching` | operators | templates, their rank, and the best route for a request (`recorder/match.go`) |
| `RouteMatch` | state machine, EXTENDS `RouteMatching` | the loop of `matchRoute` over a Go map |
| `Recorder` | state machine, EXTENDS `RouteMatching` | `recorder.Recorder` around an `http.ServeMux`, with concurrent clients, middleware and `Verify` |
| `Binding` | state machine | registrations on live routers through every binder, requests, `Record` and `Adopt`, interleaved |
| `Exposure` | abstract specification | what registering a route promises, without routers, gates and locks; `Binding!ServedIsRecorded` is the refinement |
| `Paths` | state machine | the three path translators, one turn of their loops per step, and a grammar of what the routers read |
| `Operations` | state machine | routes, webhooks and nested callbacks that register in any order, and the checks of a build over all of them |
| `Naming` | state machine | component names: `claimName`, `nextAnonymousName` and the repeated runs of `pathsAndSchemas` |
| `Fields` | operators | the fields of a struct on the wire, and the split of a request into parameters and body |
| `Schemas` | state machine, EXTENDS `Fields` | the schema registry of one build, from the first reflection to the union envelopes |
| `GeneratorProofs`, `ResponsePlanProofs`, `RouteMatchProofs`, `RecorderProofs`, `BindingProofs`, `NamingProofs`, `OperationsProofs`, `PathsProofs` | proofs | theorems about the module of that name; `RouteMatchProofs` also has the facts about matching that `RecorderProofs` cites through an INSTANCE |
| `MC...` | instances | the constants of the runs, one module for each state machine |

A definition whose comment begins with `Fault:` is the next definition with a
plausible bug (a dropped guard, a missing reset). No specification uses it; it is
there to show that a property would notice the bug.

### Generator: state and actions

Each locked region of the code is one step. `mustBeOpen` runs in the same region
as the change it guards, so `AddRoute`, `Webhook`, `Register`, `SchemaName` and
`Adopt` are one action each; a registration that panics after `mustBeOpen` has
counted an input change without making one (`RejectedDeclaration`). `Build` and
`WriteJSON` hold the lock until they return or panic: one action. `ServeHTTP` is
`Serve` (the region of `bytes`), then, unlocked, `LogFailure` and `ReplyFailed`, or
`ReplyDocument` with the second region that marks the route. A program may `Mount`
one chi router in another or put a plain handler on a pattern (`Stray`) at any
moment, without the generator. `log` is what the server's log got, and the history
`failed` which builds a request ran in vain: `FailuresReachTheLog` starts from the
build, before it is decided whether its error counts as fresh.

A build reads `BuildInputs` and the live routers. It fails with an error when a
route is not served by exactly one path, two records conflict, or the router of
the request has an undeclared mount (`Problems`), and panics when a union
variant is missing or two types claim one component name (`SchemaPanics`). The
text of the document is left out: its operations with their paths, its webhooks
and its components are what the properties tell apart.

### ResponsePlan

One behaviour is one route and one configuration: `ResDefault`, one `Declaration`
for each `Response` in order, `EndDeclared`, one `DefaultError` for each default
error, `EndDefaults`, then `CheckResponses`; a route with `Raw.responses` takes
`CheckRawValues` (no content on HEAD) and one `RawResponse` for each member
instead. A member keeps whether it is a Response object, a reference or neither,
and whether it has content, because the document shows it as written. `Panic`
ends a walk that the code ends with a panic.
The plan is `order` and `byKey` as in `plannedResponses`; `PlanStatuses` is what
`DeclaredStatuses` and `SpecStatuses` fold out of it.

### RouteMatch and Recorder

`RouteMatch` ranges over the documented keys in any order, one `Iterate` for each
iteration, and repeats with GET when no HEAD route matched. `RouteMatching`
defines the result directly (`MatchRoute`), and the run and the proofs compare.
Segments are literals, parameters, catch-alls, or mixed segments (`{id}.json`),
which stand for the set of values that their regular expression fits.

`Recorder` splits a request in two: the router answers (an action for each kind
of answer: a handler, the document, the router itself, middleware), then `Record`
books the answer under the recorder's lock. `Verify` is `ReadStatuses` and then
`Compare`: the code reads `DeclaredStatuses`, `SpecStatuses` and the snapshot under
separate locks. `DeclaredStatuses` of a frozen program does not change, so one step
for the two reads loses no behaviour: only `served` moves between them. `Verify`
leaves no state behind, so a behaviour ends with its first report.

### Binding

A *site* is a place in a program that registers a route, through specout or on
the router itself. Registering through specout is `RejectEarly` or `TooLate`
(nothing happened), or `Mount` (under `mu` the router takes the route), `Record`
(still under `mu`: the checks that need the full path, then the record), and what
`Handle` does after `Bind` returns: `LoadOrStore` and `StoreShared` for the
spellings of Gin's `documentedPaths`, `StoreRegistered` for Echo v4, `Open` for the
gate. Between any two of these steps requests arrive (`Arrive`) and are answered by
a handler (`Run`), by a closed gate or middleware (`TurnAway`), or go on to Fiber's
next route (`PassOn`); `Record` of the adapter names the route (`Observe`). `Adopt`
is `AdoptRead` (the tables, without a lock), one `AdoptCollect` for each entry
under the lock, and `AdoptReturn`. The routers are external: a table is a
sequence of sites, and what each router does with a second route on a path, with
the order of routes and with Gin's escaped colons is a definition of its own.

### Paths

A path is a sequence of characters and a document path a sequence of pieces
(a character, a parameter, a catch-all). One step is one turn of a translator's
loop. The reference is a grammar for each router that *builds* every spelling of
every document path from pieces and never scans: the run compares the two on
every word over the characters that a scanner tells apart, and the proof on every
word over any alphabet.

### Operations

`Check` is `checkRoute` of a registration with everything below it in callbacks
(`checkCallbacks` copies the list and sets the parents), `AddRoute` and `AddWebhook`
are the locked regions, `Adopt` gives late routes their path, and `Build` computes
the problems of paths, ids and links and freezes when there are none. An
operation is a *node*: the site and then, for each callback on the way, its name
and its position in the list that holds it, so a `Callback` that several routes
share is several nodes of one declaration. Its *place* is where the document shows
it: a path or the name of a webhook, then the name and url of each callback, by
method. Two operations of one place would overwrite each other.

### Fields and Schemas

`Fields` holds the functions that decide which fields of a struct JSON writes
(`collectBodyFields`, `dominantBodyField`), which Go can select
(`exportedFields`), and what is left of a request (`requestBody`). A Go type is a
sequence such as `<<"ptr", "list", "Item">>`. `Schemas` is one build. `Start` is an
operation up to the reflection of its type: `Register` enters the type in `byType`
and what the reflector hoisted in `byName`. `FixComponent` is `applySchemaFixes` on
one component, `CloseRegistered` the end of `refFor`, `Complete` the form schema.
When all operations are reflected, `ReflectVariant` reflects the variants that
unions name until none is missing, `MakeUnionEnvelope` turns one union into its
branches, and `Finish` is `checkTypes`. The panics are `RefuseParams`, `RefuseForm`,
`RefuseHidden` and `RefuseVariant`. Operations, components and unions are taken in
any order, although the code fixes it: the properties then hold for every order
of the routes of a program.

The reflector (`invopop/jsonschema`) is external and modelled as `refFor` configures
it: declaration order with the JSON winners once more, later visits replace
properties, required names add up. What a schema is measured by is defined apart
from the code's functions: `Winning`, `Shown` and `Given` are the rules of
encoding/json as a quantifier over all ways down to a field.

### Naming

One action for each reflection of a type: `Claim`, `StartOver` (the `nameClash`
panic, recovered, and the registry made anew with the name reserved), `Duplicate`
(the build panics) and `Finish`. Names are values such as `<<"Anonymous", 1>>`; what
`sanitizeName` computes from a Go type is the constant `DefaultName`.

## Runs

| Run | Instance | Shows |
|---|---|---|
| `generator_caching` | two callers, a chi route, a webhook, two types of one name, requests for GET and HEAD, 3 counted inputs, 2 builds, fair | `DocumentIsComplete`, `KeptErrorIsCurrent`, `KeptPanicsReachBuild`, `LoggedAtMostOnce`, `OneBuildPerBrokenSpec`, `PromiseKept`, `FailuresReachTheLog`, `DocumentRoutesAreMarked` |
| `generator_routing` | one caller, two chi routes on two routers that may be mounted, a stray that may replace one, a union, 6 inputs, 2 builds | `StatusesAgree`, `PublishedPathsAreLive` |
| `response_plan` | every sequence of up to two of 26 kinds of declaration, every sequence of up to four of the six that interact, with and without default errors, `Public`, HEAD, outgoing, and every object of eleven `Raw.responses` members on GET and HEAD | `LastWordStands`, `DemandedIsAllowed`, `AllowedIsDocumented`, `NoForbiddenContent`, `SomeResponse` |
| `route_match` | every set of up to three of ten GET templates, with and without a HEAD route, nine paths, every order | `NoRouteBeatsBest`, `OrderDoesNotMatter`, `NarrowerRouteWins` |
| `recorder` | two clients, three requests, four programs under test: two whose recorder wraps the mux, with handlers that write nothing, write a code, upgrade, take the connection or redirect; two with middleware that copies the request or answers itself, and templates that shadow one another | `GapsAreTrue`, `DriftIsTrue`, `ReportIsExact`, `DocumentIsNotDrift` |
| `recorder_head_of_document` | the mount of `README.md:88` and a HEAD request | a violation, see Known divergences |
| `binding` | fifteen programs of two or three sites on Gin, Echo, Echo v4 with host routers, Fiber, gorilla and net/http, one request, one `Adopt` and a build at any moment | `ServedIsRecorded`, `RecordedAnswers`, `ObservedIsDocumented`, `AdoptIsExact` |
| `paths` | every path of up to five characters over six (Gin, Echo), of up to six over seven (Fiber) | `AcceptedAsRead`, `RefusedWhenUnread` |
| `operations` | eight programs of four or five routes and webhooks, callbacks three deep, routes without a path until `Adopt` | `UniqueIds`, `LinksResolve`, `LinkErrorsStand`, `ParentsAreTrue`, `NoOperationOverwritten` |
| `naming` | every order of three to five reflections of eleven kinds of type | `EveryTypeHasComponent`, `AnonymousAvoidsNamed`, `DuplicateIsReal`, `Terminates` |
| `schemas` | thirteen programs over 33 Go types: nested, recursive, embedded, anonymous, unions in unions, requests with parameters and form names; open and closed | `SchemasDescribeJSON`, `UnionsAreWhole`, `SplitLosesNothing` |
| `closed_maps` | a `map[string]any` in a struct that another struct holds, closed | a violation, see Known divergences |

### Why these bounds are enough

- `MaxInputs`, `MaxAttempts` (Generator) count registrations and builds; the
  shortest runs into each hazard need a registration, a failed build, a fixing
  registration and a second build with a request between them. Two callers are
  enough for a shared error: one that ran the build and one that is told of it.
  The proofs need no bound on either.
- `MaxRequests = 3` (Recorder): a route needs two requests to produce two codes,
  and a third that overlaps or hides one. One `Verify` per behaviour loses nothing,
  since it changes no state that a request or another `Verify` reads.
- The declarations of `response_plan`: a key is decided by the default, the last
  two words about it and the default errors; four words over the six kinds that
  meet each other cover declare, omit and declare again on both sides.
- The paths of `recorder` have one and two segments over seven values, every value
  in every position: a request can meet any parameter and the redirect of a
  subtree.
- Three templates (RouteMatch): a failure of transitivity in the order of
  candidates needs three. The proof covers every set.
- `naming`: five reflections let two named types contend for the numbers of two
  anonymous structs while an override fixes a third.
- `binding`: a request writes nothing that another request reads, except that the
  first one makes Gin rewrite its trees, and that can happen at any moment; so one
  request shows every answer. Three sites give a route, one that takes its place
  or its spelling, and a stray. An engine serves one kind of router.
- `MaxLength` (Paths) is 5 for Gin and Echo: that holds a parameter that an escaped
  colon ends (`:+\:+`) and a catch-all after a segment. It is 6 for Fiber, so that a
  constraint holds an escaped bracket (`:a<\>>`). The alphabets have one letter,
  the slash, and each character that the scanner gives a meaning; `+` is a letter of
  Gin and Echo, which only Fiber's scanner tells apart. The proof needs no bound.
- `operations`: `Depth = 3` is a callback of a callback, the least at which a parent is
  itself a callback; one list holds the same callback twice. The assumption that
  no node of `Depth` entries has callbacks says that the bound cuts nothing off:
  a `Callback` exists before the operation that lists it, so nesting ends.
- `schemas`: each program holds the types that can meet in one registry (a struct as
  a root and hoisted, a branch name that a type bears, a variant that brings
  another union). A program has at most four operations, taken in every order.

Deadlock is checked in RouteMatch, ResponsePlan and Naming, which say when they
are done. The other behaviours end where a program stops calling, a bound is
reached, a path is read, or a build has ended.

### Fairness

- `Generator!FairSpec` has weak fairness for each goroutine that has begun to
  answer a request: the Go runtime schedules a runnable goroutine, and nothing
  in those steps waits for a lock that another holds for ever. Nothing makes a
  program register, build or send a request, so no other action is fair.
- `Naming!Spec` has weak fairness of `Next`: `pathsAndSchemas` is a loop of one
  goroutine that holds the lock.

## Known divergences

Where the code does something else than its documents or its comments say. Two are
runs that TLC ends with a counterexample; the properties of the passing runs
except the others, or the instances leave them out.

- `recorder_head_of_document` (`serve.go:47`): the recorder books a HEAD request of
  a GET mount under GET, the generator marks it under HEAD, so a test that
  fetches the document with HEAD alone sees it reported as drift.
  `README.md:648` says it is none.
- `closed_maps` (`defs.go:50`): a hoisted definition is closed before its maps are
  opened, so with `ClosedSchemas` a `map[string]any` in a nested struct rejects every
  key, while the same struct as a root keeps it open.
  `skills/specout/references/configuration.md:66` promises that map values are
  preserved.
- `responses.go:198`: a member `1XX` of `Raw.responses` may have content: `rawEntry`
  checks the content of a range as that of status 0. A typed `Response` with the
  key `1XX` may have none (`bodylessResponse`), and `raw_checks.go:12` says that the
  checks of the typed fields run on Raw too. `NoForbiddenContent` excepts it.
- `recorder/verify.go:27`: the document may be served for the first time between the
  maps of statuses and the snapshot; `Verify` then reports it as drift, which
  `README.md:648` says it is not. `DriftIsTrue` and `DocumentIsNotDrift` except that
  window (`report.current`).
- `specoutgin.go:229`: Gin drops the escape of `/a\:b` from its table when
  its first request arrives, and `remember` keeps both spellings of a Router's routes
  only. A route of the program that `Document("GET", "/a:b", ...)` names is documented
  for an `Adopt` before that request and a stray for one after it
  (`README.md:609`, `stray.go:54`). `AdoptIsExact` leaves such a route out (`Renamed`).
- `serve.go:98`: a build that failed in `Build` leaves its error to later requests,
  which answer "see the server log" although nothing was logged
  (`README.md:557`). `LoggedAtMostOnce` and `FailuresReachTheLog` are about builds
  that a request ran.
- `serve.go:94`: two chi routers that serve the document in turn count as input
  changes, so each request runs a broken build again (`serve.go:81`). The requests
  of `generator_caching`, where `OneBuildPerBrokenSpec` holds, come through none.
- `serve.go:91`: after a `Build` at startup the mount check never runs, since the
  frozen document is returned before the router of the request is noted
  (`README.md:620`).
- `body.go:27`: the number of an anonymous request is taken without being claimed,
  so a named type may bear it later; the names then depend on the order of the
  routes (`build.go:84`).
- `body.go:110`: a field tagged `json:"-,"` is written by JSON as `-`, but the split
  of a request turns its tag into `json:"-"`, and the body loses it.
- `fields.go:26`: a field tagged as a parameter that Go cannot select by its name,
  because two embedded structs hold one, is no parameter.
- `fixups.go:325`: a type that only a shadowed embedded field names keeps its
  component, which nothing refers to. `SchemasDescribeJSON` is about the components
  that a reader comes to.
- `specoutechov4.go:210`: routes that the program puts on two routers of one Echo are
  told apart for host routers only, as
  `skills/specout/references/routers-and-verification.md:195` says; a stray on the
  default router with the key of a documented host route is taken for it.
  `AdoptIsExact` says so.
- `register_gorilla.go:49`: a gorilla template that fails its check is live and
  undocumented when the caller recovers. The refinement of `Exposure` excepts it.

## Proofs

TLAPS checks every step; the assumptions are those of the `ASSUME` of each
module, which TLC evaluates in the runs.

**GeneratorProofs**. `KeptErrors` rests on `KeptInv`: what the kept error saw is what
a build would read now, unless the count moved. That alone is inductive, because
every action that changes an input also raises `inputs`. `Freezes` follows from the
guard each registration shares. `TypeCorrect` is proved action by action, with
`TypeBytes` for the region that `Build` and `ServeHTTP` share. `DocumentsComplete` and
`KeepsPromise` use `DocInv`, which adds that no caller holds a document before one
is published; `PromiseStep` maps each step to one of `SpecServing` or a stutter.
`StatusesNeverContradict` and `PublishedLive` need the most: the routers change
behind the generator. `AgreeInv` says that each published path is one at which
the record's own endpoint is or was reachable (`Known`), and `KnownGrows` that
mounts and adoptions only add such paths; a status query that resolves finds
exactly one hit, so the published path is that one.

**ResponsePlanProofs**. `TypedOrder` (the order has no repeats and lists every key of
`byKey`) gives `PlanTypeCorrect` and `KeysStandOnce`. `LastWordsStand` uses `WalkInv`:
at each position of the walk the plan shows the last word among the words taken
so far. `GoodEntries` and `CheckedPlan` carry the bodies and the passed checks of the
typed declarations, and `RawInv` those of the members of `Raw.responses`, to
`NoContentIsForbidden`, `DemandIsAllowed`, `AllowedStandsInDocument` and
`ResponsesAreNeverMissing`.

**RouteMatchProofs**. `BeatsTransitive` and `BeatsIrreflexive` show that the rank with
its tie break is a strict order; `LoopInv` says that no candidate already seen beats
the best, and `BestIsUnbeaten` is its last instance. `OrderIsImmaterial` adds that of
two different candidates one beats the other, so the unbeaten one is unique and
equals `MatchRoute`. `NarrowestRouteWins` compares segment
by segment: a template that takes strictly fewer paths has the better rank. It
needs two hypotheses. `AnyValueAnywhere`: a path may hold any value in any segment,
as URLs do. `MixedApart`: no mixed segment fits only part of what another one
fits, because mixed segments have one rank and `match.go:37` breaks the tie by the
string of the template, which knows nothing of what they fit.

**RecorderProofs**. `RecorderCorrect` is the inductive invariant: every answer that a
client carries, every booked code and every unmatched request goes back to a
request of the program under test, with what the mux made of it; nothing that a
route produced is lost, since it is booked, or an unmatched request is evidence
of it (`KeptInv`), unless a skip rule names the route; and a `Verify` that nothing
overlaps compares all that was produced. Most of the module is about one request: which
pattern of the mux takes it, and that the recorder books it under that pattern's
template (`match.go`). `MissingIsMissing` needs no hypothesis. `DriftIsProduced` needs
`HiddenRoutesAreKnown`: where the recorder cannot see the pattern that ran, it asks
`matchRoute`, which knows documented routes only, so a stray that shadows one would
be booked under it. `DocumentIsNoDrift` and `ReportExact` also need
`DocumentStandsAlone`: the document has a path of its own, and a mount that the
recorder sees has no method (`recorder_head_of_document` is the run without it).
`MCRecorder` asserts both of the programs of the run `recorder`.

**BindingProofs**. `OnlyDocumentedServes` is the refinement of `Exposure`. `BindInv` ties the
places of one site together: the records are the sites whose registration went
past `Record`; a gate is open only on a record whose registration is over; and a
route that a table or a request in progress holds has left `idle` and, on net/http
and gorilla, is recorded, about to be, or a template that failed its check. `ExposureStep` then maps `Record`
of a live route to a stutter, the step that decides a registration to a step of
`Exposure`, and everything else to a stutter. `ReportsNameTheEntry` needs more, since
`documentedPaths` of Gin is changed in two steps by any engine: `ReportInv` says of
every key of that map that a record which spells it explains its value, or that
two records spell it (`Explained`); and of every Gin registration how far `remember`
came, so that both spellings are stored when its gate opens (`Remembered`).
`DocumentedAnswers` adds `RouterInv`: a registration that goes on has its route on its
router, or on Echo one on the same spot, and no two records behind a gate share an
entry. Fiber then comes to the route itself before any copy of a GET route
(`FilterFirstOfBoth`), and the other routers run one that no other is narrower than
(`NarrowestIsNarrow`). `ReportsAreExact` rests on `AdoptInv`. While an `Adopt` is
quiet no registration takes a step, since each one disturbs it (`RegisterDisturbs`), and
only the spellings of Gin's routes move, one way. `QuietInv` says of each route that
it is still to be looked up, under a key that one of its spellings gives
(`ReadKey`), or that what the report says of it holds (`Reported`); of the routes of a
host router that have a twin, that the report has them already. `KeyRead` then names
all that a key can be: the entry of the route, that of a Gin record with its
spelling, or one that a renaming made.
The assumptions are few. `Document` is a call of specout, a pattern of net/http
has no group prefix, unescaping a path twice changes nothing more, and `ANY` is not
a method of OpenAPI. A router has one kind of routes, an adapter adopts routers of
its own kind, and net/http has none to adopt. A gorilla template fails the checks
that `Document` makes too (`checkOpenAPIPath`, `checkSegments`), so no `Document` names it.

**NamingProofs**. `OneComponentEach` rests on `OwnersInv`: `owners` is injective and has
every type reflected so far, and `StartOver` empties both. `GivenInv` and `SourceInv`
say where each name comes from: the program fixed it, or it is a number that
`nextAnonymousName` found free and that `owners` gives to that type. They are
inductive only under `NamedRequests` (no body is that of an anonymous request),
because `body.go:27` takes a number without claiming it: `NumbersAvoidNames` and
`FailuresAreReal` have that hypothesis, the first known divergence of `body.go` is
why, and `MCNaming` asserts it of the programs of the run.

**OperationsProofs**. The lemmas come first. `Nodes`, `Flatten` and `Yield` are recursive
functions; that they exist and unfold is shown by the least number for which they
would not (`LeastNumber`), and the nesting of callbacks ends by the assumption on
`Depth`. `OperationsListed` says which operations a document has: those under a
webhook, or under a route that is not a resolved catch-all; and `RoutesAreRecords`
that the only routes among them are the records. `FrozenInv` is the inductive
invariant: a frozen document has no problem, and its records, webhooks and
adopted routes are those of the build. `LinksLead` follows, because a route that
puts the check of links off (`IdsOpen`) is a problem itself. `IdsNameOne`: the first
operation with an id is the same for all that share it (`FirstIsShared`), and each
of them is that first one, or one route with it; two records of one route are a
problem of their own, so they are equal (`SameRouteIsOne`). `LinkErrorsHold` is kept by
every step but `Build`, and there by `LaterIds`: a later path takes operations away
but adds none, and changes an id only of a route that `IdsOpen` waits for.
`ParentsName` rests on `ParentsInv`, that a cell of `parents` holds the operation above it.
`OperationsKeepTheirPlace` rests on `PlacesInv`: every site of a document passed its
checks, and no two webhooks have one name and method. Two operations of one place
then stand under one site (`ListedSite`, `SitesApart`), and level by level on one
callback of one list (`PlacesBelow`, `CallbacksApart`).

**PathsProofs**. Two theorems say that translator and grammar agree, for every set of
routers, alphabet and length of path: `TranslationIsAReading` that what is accepted
is read as it is documented, and `RefusalIsJustified` that what is refused is read
as no document path. `PathsAssumption` is all that they need: the mark for the end
is no character, and a slash is one. The grammar builds words from their ends and
the scanners read them from their beginnings, so the proof has three parts.

- *The grammar, unfolded.* `Grammar` is a recursive function of the length; that its
  levels exist and are what they should be is shown by the least number for which
  they would not be (`GrammarLevels`, `LevelShape`). `Parse` is membership in a level.
  `TokenMore` and `TokenFirst` turn it round: a word from `k` on has a reading
  when a *token* stands at `k`, a spelling of one piece that the router reads there
  in front of the rest, and the rest has a reading.
- *One turn.* `GinTurn`, `EchoTurn` and `FiberTurn`: where the translator emits a piece
  and goes on to `n`, that piece is a token and every token ends at `n` (`Only`); where
  it fails there is no token (`None`). This is where the two ways of reading
  meet: `EchoName` has the inline verbs, which the translator looks for up to the end
  of the segment and the grammar finds in what follows the name; `FiberName` has the
  constraints, where the `>` that `ConstraintEnd` finds is the only one that closes
  the brackets (`ConstraintFound`, `Brackets`). Echo reads nothing behind its wildcard,
  and there the path is cut (`Cut`, `Read`).
- *The invariant.* `AcceptInv`: the pieces so far, with any reading of what is left,
  are a reading of the whole path. `RefuseInv`: if the path has a reading at all, what
  is left has one and nothing failed. `IInv` adds the types and that Echo does not
  stop between its wildcard and the end of the path. Neither part says more than
  it must: `AcceptedAsRead` is `AcceptInv` with nothing left, and `RefusedWhenUnread` is
  the contraposition of `RefuseInv`. `AcceptInv` is kept because a token stays one
  whatever pieces stand in front of it, `RefuseInv` because all tokens end together.

**GeneratorProofs, errors**. `LoggedOnce` rests on `LogInv`: the build whose error a request is
about to log is in nobody else's hands and not in the log, since only the call
that ran it gets a fresh error, with a new number. `PanicsReachBuild` rests on
`PanicInv`: what a kept panic panicked on is still there while no input is counted,
so a later `Build` fails with an error of its own or panics too, whoever met the
panic first. `BrokenSpecBuiltOnce` assumes that all requests come through one chi router,
or through none: each further one counts as an input (`serve.go:94`, a known
divergence), and two in turn would build at every request.

`TypeCorrect`, `Freezes`, `PlanTypeCorrect`, `LoopTypeCorrect`, `KeysStandOnce`, `RecorderCorrect` and
`PathsInductive` are theorems without a run: what a proof shows for every instance needs none.
What `Freezes` says of routes and webhooks, `PromiseKept` checks as well.

Only model-checked:

- `Schemas` (`SchemasDescribeJSON`, `UnionsAreWhole`, `SplitLosesNothing`): a walk over
  schemas and types is induction over data, and `Fields` and `Schemas` have RECURSIVE
  operators, which the prover does not take;
- liveness (`FailuresReachTheLog`, `DocumentRoutesAreMarked`, `Terminates`), which is
  beyond the prover.

## Abstractions worth knowing

- A path is a prefix and a pattern in `Generator`; parameters are not renamed.
  `DocPath` and `IsCatchAll` stand for `paths.go`.
- The ServeMux of `Recorder` is external: patterns take sets of requests, the
  narrowest runs, overlapping patterns of which neither is narrower are refused.
  Middleware that answers for the document is outside the instances
  (`Guarded`): the code reports a 401 written outside the router at the path of
  the document as drift, or credits it to a broader documented route.
- A handler's 404 or 405 that middleware hides is never counted, as
  `matchMisses` says; `Produces` leaves those answers out of what a route
  produced.
- `Binding` translates paths by a table (`OpenAPI`); `Paths` has the translators. Its
  `AdoptIsExact` is about an `Adopt` that no registration overlaps: the code makes
  no promise for the others.
- `RouteMatch` gives every mixed segment one rank, as `match.go` does: of two nested
  ones the string order decides, so the wider may win (`MixedApart`).
- An anonymous struct that `Naming` reflects as a body may also be a type of its
  own; `DuplicateIsReal` then names that pair.
- `Schemas` has one scalar, no enums, formats, examples or descriptions, and its
  struct tags are records. A schema is a tree, and only components are shared, as
  they are in the registry after `unwrapDefs`.

## Plan

The model is complete as far as the list below. What is left is a proof about
`Schemas`: that no pass loses a component that another one refers to. It needs the
recursive operators of `Fields` and `Schemas` as recursive functions on the nesting
of types, as `Operations` has them for callbacks and `Paths` for the grammar.

## Not modelled

| Part | Why |
|---|---|
| Struct tags, values and enums (`schema_tags.go`, `schema_values.go`, `enum.go`, the tag passes of `fixups.go`) | functions of one tag and one value, without state or order |
| Text marshalers, promoted encoders, inline scalars (`schema.go`, `schema_inline.go`), integer map keys | they replace the schema of one type before any of the passes, and none reads what another wrote |
| `const` and `allOf` in `nullable`, unions in forms, a union that stands in a union without a name, recursive embedding | rare shapes; the first two are branches of one function, recursive embedding panics before any schema exists |
| Parameter styles, encodings, security schemes, examples, URLs, the other Raw keys (`params.go`, `encoding.go`, `security.go`, `request_checks.go`, `raw_checks.go`, `examples.go`) | checks of one route, independent of order and of other routes |
| Handler, response and configuration types, the ordered encoder | data; `checkConfig` panics before any state exists |
| `chiPattern`, `chiFind` and gorilla's `mux.Match` in the recorder, cleaning of paths | they ask the router for the pattern that it ran; `Recorder` has that lookup for the ServeMux |
| Copying parameters onto the request, hijacked connections under the adapters, mount prefixes of Fiber sub-apps | per request, without shared state |
| Test kits, examples, tools | not in the library at run time |
