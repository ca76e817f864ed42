----------------------------- MODULE Generator -----------------------------
(***************************************************************************)
(* A specout.Generator under concurrent use (specout.go, serve.go,         *)
(* statusmap.go, build.go, routes.go).  Each locked region of the code is  *)
(* one step.  Build, WriteJSON and the status queries are one region;      *)
(* ServeHTTP is a region (bytes), unlocked steps that log or write, and a  *)
(* second region that marks the route of the document as served.           *)
(*                                                                         *)
(* What a build reads and how it may fail is kept: routes that no adopted  *)
(* router serves once, conflicting paths, an undeclared mount prefix       *)
(* (errors), a union variant nobody registered and two types with one      *)
(* component name (panics).  The text of the document is not.              *)
(***************************************************************************)
EXTENDS Routes, Naturals, Sequences

CONSTANTS
    Callers,        \* goroutines that call the generator
    Requests,       \* spec requests: method, path, and the chi router they came through
    Webhooks,       \* calls of Generator.Webhook
    WebhookKey,     \* WebhookKey[w]: name and method of webhook w
    PossibleMounts, \* mounts that the program may perform
    Strays,         \* handlers the program may register on a router by itself
    Types, Names, VariantNames, NoType, NoName,
    DefaultName,    \* DefaultName[t]: component name of type t without an override
    Uses,           \* Uses[x]: types that route or webhook x reflects
    Unions,         \* Unions[x]: variant names in the oneof_type tags of x
    NoDocument, NoError, NoAnswer, Refused,
    MaxInputs,      \* bound on the counted input changes
    MaxAttempts     \* bound on the builds run

\* What the document shows: the path of each operation, the webhooks, and the
\* component name of each type.
Documents ==
    [operations : UNION {[S -> Paths \cup {NoPath}] : S \in SUBSET Routes},
     webhooks : SUBSET Webhooks,
     components : SUBSET (Types \X Names)]

\* A failed build: its number, whether it panicked, and what it read.
Failures ==
    [id : Nat, panic : BOOLEAN,
     seen : (SUBSET Routes) \X (SUBSET Webhooks) \X [VariantNames -> Types \cup {NoType}]
            \X [Types -> Names \cup {NoName}] \X (SUBSET Routers) \X (Routers \cup {NoRouter})]

ASSUME GeneratorAssumption ==
    /\ MaxInputs \in Nat /\ MaxAttempts \in Nat
    /\ PossibleMounts \subseteq MountPoints
    /\ Strays \subseteq [router : Routers, method : Methods, pattern : Patterns, handler : {Foreign}]
    /\ Requests \subseteq [method : STRING, path : (Prefixes \cup {NoPrefix}) \X DOMAIN Hierarchy,
                           via : Routers \cup {NoRouter}]
    /\ DOMAIN WebhookKey = Webhooks
    /\ \A doc \in Documents \cup SUBSET (Routes \cup Webhooks) : doc # NoDocument
    /\ NoError \notin Failures
    /\ NoType \notin Types /\ NoName \notin Names
    /\ DefaultName \in [Types -> Names]
    /\ Uses \in [Routes \cup Webhooks -> SUBSET Types]
    /\ Unions \in [Routes \cup Webhooks -> SUBSET VariantNames]

VARIABLES
    table,      \* endpoints of the live chi routers
    mounts,     \* routers mounted in routers
    records,    \* Generator.records
    webhooks,   \* Generator.webhooks
    variants,   \* Generator.variants
    overrides,  \* Generator.nameOverrides
    sources,    \* Generator.sources: the adopted routers
    full,       \* rec.full of every record
    specJSON,   \* Generator.specJSON: the frozen document
    outer,      \* Generator.outer
    inputs,     \* Generator.inputs
    buildErr,   \* Generator.buildErr, with the inputs the failed build read
    errAt,      \* Generator.errAt
    served,     \* Generator.served
    pc,         \* where each caller is in ServeHTTP
    request,    \* the request each caller serves
    result,     \* what bytes returned to each caller last
    statuses,   \* what SpecStatuses returned last
    log,        \* the standard logger: which failed builds it got, in order
    attempts,   \* history: builds run so far
    spent,      \* history: builds that requests ran since the last declaration
    failed      \* history: builds that requests ran and that failed

routers == <<table, mounts>>
declared == <<records, webhooks, variants, overrides>>
frozen == <<specJSON, buildErr, errAt>>
calls == <<pc, request, result, statuses>>
history == <<log, attempts, spent, failed>>
vars == <<table, mounts, records, webhooks, variants, overrides, sources, full, specJSON,
          outer, inputs, buildErr, errAt, served, pc, request, result, statuses, log,
          attempts, spent, failed>>

\* Everything of the generator that a build reads.
BuildInputs == <<records, webhooks, variants, overrides, sources, outer>>

Init ==
    /\ table = {} /\ mounts = {}
    /\ records = {} /\ webhooks = {}
    /\ variants = [v \in VariantNames |-> NoType]
    /\ overrides = [t \in Types |-> NoName]
    /\ sources = {} /\ full = [r \in Routes |-> NoPath]
    /\ specJSON = NoDocument /\ outer = NoRouter
    /\ inputs = 0 /\ buildErr = NoError /\ errAt = 0 /\ served = {}
    /\ pc = [c \in Callers |-> "idle"]
    /\ request = [c \in Callers |-> NoRouter]
    /\ result = [c \in Callers |-> [kind |-> "none"]] /\ statuses = [kind |-> "none"]
    /\ log = <<>> /\ attempts = 0 /\ spent = 0 /\ failed = {}
-----------------------------------------------------------------------------
(* Registration.  A call after the freeze panics and changes nothing. *)

\* mustBeOpen, and the counters that a declaration resets.
MustBeOpen ==
    /\ specJSON = NoDocument
    /\ inputs < MaxInputs
    /\ inputs' = inputs + 1
    /\ spent' = 0

\* addRoute: the record is bound to its router and appended.
AddRoute(r) ==
    /\ r \notin records
    /\ MustBeOpen
    /\ table' = IF Relative(r) THEN Endpoint(table, EntryOf(r)) ELSE table
    /\ records' = records \cup {r}
    /\ UNCHANGED <<mounts, webhooks, variants, overrides, sources, full, outer, served,
                   frozen, calls, log, attempts, failed>>

\* A registration that panics after mustBeOpen: the router rejects the route,
\* the webhook repeats a name and method, or SchemaName gets a bad name.
RejectedDeclaration ==
    /\ MustBeOpen
    /\ UNCHANGED <<routers, declared, sources, full, outer, served, frozen, calls, log, attempts, failed>>

Webhook(w) ==
    /\ w \notin webhooks
    /\ \A v \in webhooks : WebhookKey[v] # WebhookKey[w]
    /\ MustBeOpen
    /\ webhooks' = webhooks \cup {w}
    /\ UNCHANGED <<routers, records, variants, overrides, sources, full, outer, served,
                   frozen, calls, log, attempts, failed>>

Register(t, v) ==
    /\ MustBeOpen
    /\ variants' = [variants EXCEPT ![v] = t]
    /\ UNCHANGED <<routers, records, webhooks, overrides, sources, full, outer, served,
                   frozen, calls, log, attempts, failed>>

SchemaName(t, n) ==
    /\ MustBeOpen
    /\ overrides' = [overrides EXCEPT ![t] = n]
    /\ UNCHANGED <<routers, records, webhooks, variants, sources, full, outer, served,
                   frozen, calls, log, attempts, failed>>

\* Fault: a newly adopted router is not counted as an input change.
AdoptUncounted(s) ==
    /\ s \notin sources
    /\ sources' = sources \cup {s}
    /\ spent' = 0
    /\ UNCHANGED <<routers, declared, full, outer, inputs, served, frozen, calls, log, attempts, failed>>

\* addSource: idempotent per router, and not guarded by the freeze.
Adopt(s) ==
    /\ s \notin sources
    /\ inputs < MaxInputs
    /\ sources' = sources \cup {s}
    /\ inputs' = inputs + 1
    /\ spent' = 0
    /\ UNCHANGED <<routers, declared, full, outer, served, frozen, calls, log, attempts, failed>>
-----------------------------------------------------------------------------
(* The program changes its chi routers without a call of the generator. *)

Mount(m) ==
    /\ m \in PossibleMounts \ mounts
    /\ mounts' = mounts \cup {m}
    /\ UNCHANGED <<table, declared, sources, full, outer, inputs, served, frozen, calls, history>>

\* A plain handler on a router, which may replace a registration.
Stray(e) ==
    /\ e \in Strays \ table
    /\ table' = Endpoint(table, e)
    /\ UNCHANGED <<mounts, declared, sources, full, outer, inputs, served, frozen, calls, history>>
-----------------------------------------------------------------------------
(* The build. *)

\* Routes and webhooks whose operations the document holds.
Described == {r \in records : Documented[Decl[r].pattern] \notin CatchAlls} \cup webhooks

NeededVariants == UNION {Unions[x] : x \in Described}

ReflectedTypes ==
    (UNION {Uses[x] : x \in Described}) \cup ({variants[v] : v \in NeededVariants} \ {NoType})

ComponentName(t) == IF overrides[t] = NoName THEN DefaultName[t] ELSE overrides[t]

\* variantType and claimName panic.
SchemaPanics ==
    \/ \E v \in NeededVariants : variants[v] = NoType
    \/ \E t, u \in ReflectedTypes : t # u /\ ComponentName(t) = ComponentName(u)

\* buildDoc's joined errors; a panic comes after them.
Problems ==
    ResolveProblems(table, mounts, sources, records, full')
        \cup MountProblems(table, mounts, sources, records, outer', full')

\* Fault: the webhooks are left out.
NewDocumentNoWebhooks ==
    [operations |-> [r \in Described \ webhooks |-> full'[r]],
     webhooks   |-> {},
     components |-> {<<t, ComponentName(t)>> : t \in ReflectedTypes}]

NewDocument ==
    [operations |-> [r \in Described \ webhooks |-> full'[r]],
     webhooks   |-> webhooks,
     components |-> {<<t, ComponentName(t)>> : t \in ReflectedTypes}]

\* Fault: a path that an earlier query resolved is kept.
EncodeKeepsPaths ==
    /\ attempts < MaxAttempts
    /\ attempts' = attempts + 1
    /\ full' = [r \in Routes |-> IF full[r] # NoPath THEN full[r]
                                 ELSE Paired(table, mounts, sources, records)[r]]

\* encode, with its outcome; it assigns every rec.full on the way.
Encode ==
    /\ attempts < MaxAttempts
    /\ attempts' = attempts + 1
    /\ full' = Paired(table, mounts, sources, records)

Fails == Problems # {}
Panics == Problems = {} /\ SchemaPanics
Succeeds == Problems = {} /\ ~SchemaPanics

KeepError(panic) ==
    /\ buildErr' = [id |-> attempts', panic |-> panic, seen |-> BuildInputs']
    /\ errAt' = inputs'
    /\ UNCHANGED specJSON

\* Fault: the encoded document is not kept.
FreezeForgets ==
    /\ buildErr' = NoError
    /\ UNCHANGED <<specJSON, errAt>>

Freeze ==
    /\ specJSON' = NewDocument
    /\ buildErr' = NoError
    /\ UNCHANGED errAt

Returns(c, value) == result' = [result EXCEPT ![c] = value]

\* Fault: a kept error counts as fresh.
FailureAlwaysFresh(id, fresh) == [kind |-> "failure", id |-> id, fresh |-> TRUE]

\* Fault: the error of a failed build is returned as a kept one.
FailureNeverFresh(id, fresh) == [kind |-> "failure", id |-> id, fresh |-> FALSE]

Failure(id, fresh) == [kind |-> "failure", id |-> id, fresh |-> fresh]
Document(doc) == [kind |-> "document", document |-> doc]

\* bytes notes a chi router that differs from the last one as an input change.
NoteOuter(via) ==
    IF via \in {NoRouter, outer}
    THEN UNCHANGED <<outer, inputs>>
    ELSE inputs < MaxInputs /\ outer' = via /\ inputs' = inputs + 1

\* Fault: a kept panic answers no request either.
IsKeptNoPanic(catch) == buildErr # NoError /\ errAt = inputs' /\ ~buildErr.panic

\* Fault: a kept panic answers Build with its error.
IsKeptAny(catch) == buildErr # NoError /\ errAt = inputs'

\* A kept error answers the call when no input changed since.  A kept panic
\* answers only a request (catch).
IsKept(catch) == buildErr # NoError /\ errAt = inputs' /\ (catch \/ ~buildErr.panic)

\* Generator.bytes in one locked region, run for caller c.
Bytes(c, via, catch) ==
    /\ UNCHANGED <<routers, declared, sources, served, log>>
    /\ \/ /\ specJSON # NoDocument
          /\ Returns(c, Document(specJSON))
          /\ UNCHANGED <<frozen, outer, inputs, full, attempts, spent, failed>>
       \/ /\ specJSON = NoDocument
          /\ NoteOuter(via)
          /\ IsKept(catch)
          /\ Returns(c, Failure(buildErr.id, FALSE))
          /\ UNCHANGED <<frozen, full, attempts, spent, failed>>
       \/ /\ specJSON = NoDocument
          /\ NoteOuter(via)
          /\ ~IsKept(catch)
          /\ Encode
          /\ spent' = IF catch THEN spent + 1 ELSE spent
          /\ failed' = IF catch /\ ~Succeeds THEN failed \cup {attempts'} ELSE failed
          /\ \/ Fails /\ KeepError(FALSE) /\ Returns(c, Failure(attempts', TRUE))
             \/ Panics /\ catch /\ KeepError(TRUE) /\ Returns(c, Failure(attempts', TRUE))
             \/ Panics /\ ~catch /\ UNCHANGED frozen /\ Returns(c, [kind |-> "panic"])
             \/ Succeeds /\ Freeze /\ Returns(c, Document(NewDocument))
-----------------------------------------------------------------------------
(* The calls that read the document. *)

\* Build and WriteJSON.
Build(c) ==
    /\ pc[c] = "idle"
    /\ Bytes(c, NoRouter, FALSE)
    /\ UNCHANGED <<pc, request, statuses>>

\* ServeHTTP of a GET or HEAD up to the unlock in bytes.
Serve(c, q) ==
    /\ pc[c] = "idle"
    /\ Bytes(c, q.via, TRUE)
    /\ request' = [request EXCEPT ![c] = q]
    /\ UNCHANGED statuses
    /\ pc' = [pc EXCEPT ![c] =
                IF result'[c].kind = "document" THEN "writing"
                ELSE IF result'[c].fresh THEN "logging" ELSE "refusing"]

\* log.Print of an error from a build that ran in this call.
LogFailure(c) ==
    /\ pc[c] = "logging"
    /\ log' = Append(log, result[c].id)
    /\ pc' = [pc EXCEPT ![c] = "refusing"]
    /\ UNCHANGED <<routers, declared, sources, full, outer, inputs, served, frozen, request,
                   result, statuses, attempts, spent, failed>>

\* The 500 that names no route.
ReplyFailed(c) ==
    /\ pc[c] = "refusing"
    /\ pc' = [pc EXCEPT ![c] = "idle"]
    /\ UNCHANGED <<routers, declared, sources, full, outer, inputs, served, frozen, request,
                   result, statuses, history>>

\* Fault: a HEAD request returns before its route is marked.
ReplyDocumentHeadUnmarked(c) ==
    /\ pc[c] = "writing"
    /\ served' = IF request[c].method = "HEAD" THEN served
                 ELSE served \cup {<<request[c].method, request[c].path>>}
    /\ pc' = [pc EXCEPT ![c] = "idle"]
    /\ UNCHANGED <<routers, declared, sources, full, outer, inputs, frozen, request, result,
                   statuses, history>>

\* The document is written; the second locked region marks its route.
ReplyDocument(c) ==
    /\ pc[c] = "writing"
    /\ served' = served \cup {<<request[c].method, request[c].path>>}
    /\ pc' = [pc EXCEPT ![c] = "idle"]
    /\ UNCHANGED <<routers, declared, sources, full, outer, inputs, frozen, request, result,
                   statuses, history>>

\* SpecStatuses resolves the routes again, also after the freeze.
SpecStatuses ==
    /\ full' = Paired(table, mounts, sources, records)
    /\ statuses' =
         IF ResolveProblems(table, mounts, sources, records, full') # {}
         THEN [kind |-> "unresolved"]
         ELSE [kind |-> "statuses", routes |-> [r \in records |-> full'[r]], served |-> served]
    /\ UNCHANGED <<routers, declared, sources, outer, inputs, served, frozen, pc, request, result, history>>

Serving(c) == LogFailure(c) \/ ReplyFailed(c) \/ ReplyDocument(c)

Next ==
    \/ \E r \in Routes : AddRoute(r)
    \/ \E w \in Webhooks : Webhook(w)
    \/ \E t \in Types, v \in VariantNames : Register(t, v)
    \/ \E t \in Types, n \in Names : SchemaName(t, n)
    \/ RejectedDeclaration
    \/ \E s \in Routers : Adopt(s)
    \/ \E m \in PossibleMounts : Mount(m)
    \/ \E e \in Strays : Stray(e)
    \/ \E c \in Callers :
        \/ Build(c)
        \/ \E q \in Requests : Serve(c, q)
        \/ Serving(c)
    \/ SpecStatuses

\* The runtime schedules the goroutine of a request that has begun.  Nothing
\* makes a program register, adopt, build or request.
Fairness == \A c \in Callers : WF_vars(Serving(c))

Spec == Init /\ [][Next]_vars
FairSpec == Spec /\ Fairness
-----------------------------------------------------------------------------
(* Properties. *)

Answers ==
    [kind : {"none", "panic"}]
        \cup [kind : {"failure"}, id : Nat, fresh : BOOLEAN]
        \cup [kind : {"document"}, document : Documents]

\* Every variable holds a value of its kind, and a caller that is answering a
\* request holds the document or the failure it will answer with.
TypeOK ==
    /\ table \subseteq Entries /\ mounts \subseteq PossibleMounts
    /\ records \subseteq Routes /\ webhooks \subseteq Webhooks
    /\ variants \in [VariantNames -> Types \cup {NoType}]
    /\ overrides \in [Types -> Names \cup {NoName}]
    /\ sources \subseteq Routers
    /\ full \in [Routes -> Paths \cup {NoPath}]
    /\ outer \in Routers \cup {NoRouter}
    /\ inputs \in Nat /\ errAt \in Nat /\ attempts \in Nat /\ spent \in Nat
    /\ pc \in [Callers -> {"idle", "logging", "refusing", "writing"}]
    /\ specJSON \in Documents \cup {NoDocument}
    /\ failed \subseteq Nat
    /\ buildErr # NoError => buildErr.id \in Nat /\ buildErr.panic \in BOOLEAN
    /\ result \in [Callers -> Answers]
    /\ statuses.kind \in {"none", "unresolved", "statuses"}

\* The routes and webhooks that a document shows.
Shown(doc) == DOMAIN doc.operations \cup doc.webhooks

\* The document never lacks a registration that was accepted and never shows
\* one that was not: the routes and webhooks of specJSON are the records.
DocumentIsComplete ==
    specJSON # NoDocument =>
        /\ Shown(specJSON) = Described
        /\ \A c \in Callers : result[c].kind = "document" => result[c].document = specJSON

\* A kept build error answers for the inputs the failed build read: whatever a
\* build reads and the generator can see has counted as a change (inputs).
KeptErrorIsCurrent ==
    buildErr # NoError /\ errAt = inputs => buildErr.seen = BuildInputs

\* No failed build is logged twice, whatever requests share its error.
LoggedAtMostOnce == \A i, j \in 1..Len(log) : log[i] = log[j] => i = j

\* Requests run at most one build of a broken spec between two declarations.
OneBuildPerBrokenSpec == spent <= 1

\* After the freeze a status query names the paths of the document, or fails:
\* it walks the routers again, and they may have changed since.
StatusesAgree ==
    specJSON # NoDocument /\ statuses.kind = "statuses" =>
        \A r \in DOMAIN specJSON.operations \cap DOMAIN statuses.routes :
            statuses.routes[r] = specJSON.operations[r]

\* A document is published only when every relative route in it is served at
\* that one path by the adopted routers, and by no second one.
PublishedPathsAreLive ==
    [][specJSON' # specJSON =>
        \A r \in DOMAIN specJSON'.operations :
            Relative(r) => Hits(table', mounts', sources', r) = {specJSON'.operations[r]}]_vars

\* A generator that published takes no registration and never changes its
\* document, whatever other goroutines call.
FrozenForever ==
    [][specJSON # NoDocument => UNCHANGED <<specJSON, declared>>]_vars

\* A build that a request ran and that failed reaches the logger, whoever
\* carries its error out of the locked region and whatever runs before the log.
FailuresReachTheLog ==
    \A n \in 1..MaxAttempts : n \in failed ~> \E i \in 1..Len(log) : log[i] = n

\* A panic kept from a request answers no Build and no WriteJSON with its
\* error: while the inputs stand, the next of them builds again and panics
\* itself, or fails with the error of its own build, and publishes nothing.
KeptPanicsReachBuild ==
    [][\A c \in Callers :
        /\ Build(c)
        /\ buildErr # NoError /\ buildErr.panic /\ errAt = inputs
        /\ specJSON = NoDocument
        => /\ specJSON' = NoDocument
           /\ attempts' = attempts + 1
           /\ \/ result'[c].kind = "panic"
              \/ result'[c].kind = "failure" /\ result'[c].id = attempts']_vars

\* Every request that got the document marks its route as served.
DocumentRoutesAreMarked ==
    \A c \in Callers : \A q \in Requests :
        (pc[c] = "writing" /\ request[c] = q) ~> (<<q.method, q.path>> \in served)

\* The generator implements the promise of SpecServing.
Told(answer) ==
    IF answer.kind = "none" THEN NoAnswer
    ELSE IF answer.kind = "document" THEN Shown(answer.document)
    ELSE Refused

Promise == INSTANCE SpecServing WITH
    Declarations <- Routes \cup Webhooks,
    taken <- Described,
    document <- IF specJSON = NoDocument THEN NoDocument ELSE Shown(specJSON),
    answer <- [c \in Callers |-> Told(result[c])]

PromiseKept == Promise!Spec
=============================================================================
