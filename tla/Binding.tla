------------------------------ MODULE Binding -------------------------------
(***************************************************************************)
(* Routes on live routers (bind.go, register_std.go, register_gorilla.go,  *)
(* document.go, stray.go and the adapters): registrations that race        *)
(* requests, middleware that records them, and Adopt.                      *)
(*                                                                         *)
(* A site is a place in a program that registers a route, through specout  *)
(* or on the router itself (a stray).  A registration through specout puts *)
(* the route on the router and then in the document, both under the        *)
(* generator's lock, and opens the gate of the route last.  The routers    *)
(* are external: their tables are sequences of sites.                      *)
(***************************************************************************)
EXTENDS Naturals, Sequences, FiniteSets

CONSTANTS
    Setups,         \* the programs: each is the set of its sites
    Apps,           \* what an Adopt is called on
    Engines,        \* the routers of the apps
    EnginesOf,      \* EnginesOf[app]: its default router, then those of its hosts
    Methods,
    OpenAPIMethods, \* the methods that a path item can name
    AnyMethod,      \* the method of a route that serves every method
    Paths,          \* paths as the routers spell them
    DocPaths,       \* paths as the document spells them
    OpenAPI,        \* OpenAPI[kind][path]: the translation
    Bad,            \* a path without a translation
    Untranslated,   \* Untranslated[path]: a path in a report that has no translation
    Invalid,        \* translations that checkOpenAPIPath or checkSegments rejects
    Unescaped,      \* Unescaped[path]: Gin's spelling after its first request
    Refuses,        \* Refuses[kind]: paths on which the router panics
    Targets,        \* URL paths of requests
    Takes,          \* Takes[path]: the URL paths that a route on it takes
    Skips,          \* documented paths that a skip rule matches
    Clients,        \* goroutines that serve requests
    NoSite,
    Shared,         \* the value of a spelling that two Gin routes share
    MaxRequests     \* bound on the requests of a behaviour

Kinds == {"gin", "echo", "echov4", "fiber", "gorilla", "std", "document"}

\* The kinds that register through Bind, behind a gate, and are documented by path.
Gated == {"gin", "echo", "echov4", "fiber"}

\* rel is the path as passed, path the one with the prefixes of its groups.
SiteType == [kind : Kinds, own : BOOLEAN, engine : Engines, method : Methods,
             rel : Paths, path : Paths, id : Nat]

Sites == UNION Setups

ASSUME BindingAssumption ==
    /\ \A setup \in Setups : setup \subseteq SiteType
    /\ \A s \in Sites :
        \* Document is a call of specout; a pattern of net/http has no group.
        /\ s.kind = "document" => s.own
        /\ s.kind = "std" => s.rel = s.path
    /\ \A s, t \in Sites : s.engine = t.engine => s.kind = t.kind
    /\ \A app \in Apps :
        /\ EnginesOf[app] \in Seq(Engines)
        \* An adapter adopts routers of its own kind, and net/http has no Adopt.
        /\ \A s, t \in Sites : {s.engine, t.engine} \subseteq {EnginesOf[app][i] : i \in DOMAIN EnginesOf[app]} =>
            s.kind = t.kind /\ s.kind \in Gated \cup {"gorilla"}
    /\ OpenAPI \in [Kinds -> [Paths -> DocPaths \cup {Bad}]] /\ Bad \notin DocPaths
    /\ Untranslated \in [Paths -> DocPaths] /\ Invalid \subseteq DocPaths
    \* A gorilla template fails the checks of Document, and Document fails them too.
    /\ \A s, d \in Sites : s.kind = "gorilla" /\ OpenAPI[s.kind][s.path] = Bad /\ d.kind = "document" =>
            OpenAPI[d.kind][d.path] # Untranslated[s.path]
    /\ Unescaped \in [Paths -> Paths]
    /\ \A p \in Paths : Unescaped[Unescaped[p]] = Unescaped[p]
    /\ Takes \in [Paths -> SUBSET Targets]
    /\ Shared \notin DocPaths /\ NoSite \notin Sites /\ AnyMethod \notin OpenAPIMethods
    /\ MaxRequests \in Nat

VARIABLES
    sites,          \* the program, fixed
    frozen,         \* the document was built
    lock,           \* the site that registers under Generator.mu
    phase,          \* where each registration is
    spelling,       \* Gin: which of the two spellings a registration stores next
    table,          \* the routes of each router, in order of registration
    records,        \* Generator.records
    bound,          \* the open gates
    known,          \* documentedPaths of specoutgin, a partial function
    registered,     \* registered of specoutechov4
    started,        \* the engines that served a request
    dropped,        \* Gin: routes whose spelling lost its escapes
    at,             \* the request that each client serves
    requests,       \* history: requests so far
    ran,            \* history: sites whose handler has run
    observed,       \* history: what Record told the recorder, and of which route
    adopt           \* the Adopt in progress and what it reported

router == <<table, started, dropped>>
registry == <<frozen, lock, phase, spelling, records, bound, known, registered>>
serving == <<at, requests, ran, observed>>
vars == <<sites, router, registry, serving, adopt>>

NoRequest == [engine |-> NoSite, method |-> NoSite, target |-> NoSite, todo |-> <<>>]
NoAdopt == [state |-> "none"]

Init ==
    /\ sites \in Setups
    /\ frozen = FALSE /\ lock = NoSite
    /\ phase = [s \in sites |-> "idle"]
    /\ spelling = [s \in sites |-> 1]
    /\ table = [e \in Engines |-> <<>>]
    /\ records = {} /\ bound = {} /\ registered = {} /\ started = {} /\ dropped = {}
    /\ known = [k \in {} |-> Shared]
    /\ at = [c \in Clients |-> NoRequest]
    /\ requests = 0 /\ ran = {} /\ observed = {}
    /\ adopt = NoAdopt

Elements(seq) == {seq[i] : i \in DOMAIN seq}

\* The elements of seq that are in S, in order.
Filter(seq, S) ==
    LET upTo[n \in 0..Len(seq)] ==
            IF n = 0 THEN <<>>
            ELSE IF seq[n] \in S THEN Append(upTo[n - 1], seq[n]) ELSE upTo[n - 1]
    IN  upTo[Len(seq)]

\* The documented path of a site, or Bad.
Doc(s) == OpenAPI[s.kind][s.path]

\* A path of a route table: one that has no translation keeps its spelling.
TablePath(kind, path) ==
    IF OpenAPI[kind][path] = Bad THEN Untranslated[path] ELSE OpenAPI[kind][path]

\* Generator.mu is free.
Unlocked == lock = NoSite

\* The registration of s moves on; an Adopt that it overlaps, or that returned
\* before it, says nothing of the routers as they are.
Disturb == adopt' = IF adopt = NoAdopt THEN adopt ELSE [adopt EXCEPT !.quiet = FALSE]

MoveTo(s, next) == phase' = [phase EXCEPT ![s] = next] /\ Disturb
-----------------------------------------------------------------------------
(* Registration. *)

\* The checks that run before the generator is locked: the method, and the
\* path as far as the binder knows it.  Echo and gorilla know their prefixes
\* only after the router has the route.
EarlyPath(s) == IF s.kind \in {"gin", "fiber"} THEN s.path ELSE s.rel

PassesEarlyChecks(s) == s.method \in OpenAPIMethods /\ OpenAPI[s.kind][EarlyPath(s)] # Bad

RejectEarly(s) ==
    /\ s.own /\ phase[s] = "idle" /\ ~PassesEarlyChecks(s)
    /\ MoveTo(s, "failed")
    /\ UNCHANGED <<sites, router, frozen, lock, spelling, records, bound, known, registered, serving>>

\* Another goroutine builds the document.
Build ==
    /\ Unlocked /\ ~frozen
    /\ frozen' = TRUE
    /\ UNCHANGED <<sites, router, lock, phase, spelling, records, bound, known, registered, serving, adopt>>

\* mustBeOpen: the router stays as it is.
TooLate(s) ==
    /\ s.own /\ phase[s] = "idle" /\ PassesEarlyChecks(s)
    /\ Unlocked /\ frozen
    /\ MoveTo(s, "failed")
    /\ UNCHANGED <<sites, router, frozen, lock, spelling, records, bound, known, registered, serving>>

SameSpot(r, s) == r.method = s.method /\ r.path = s.path

\* Routers that refuse a second route for the same requests.
RouterAccepts(s) ==
    /\ s.path \notin Refuses[s.kind]
    /\ s.kind \in {"gin", "std"} =>
        \A r \in Elements(table[s.engine]) : r.method = s.method => Takes[r.path] # Takes[s.path]

\* Echo drops the route that it replaces from its table.
Replaces(s, r) == s.kind \in {"echo", "echov4"} /\ SameSpot(r, s)

\* The table of the router of s with s in it.
AddTo(s) ==
    LET kept == Filter(table[s.engine], {r \in sites : ~Replaces(s, r)})
    IN  table' = [table EXCEPT ![s.engine] = Append(kept, s)]

\* addRoute locks the generator, and the mount of the binder adds the route.
Mount(s) ==
    /\ s.own /\ s.kind # "document" /\ phase[s] = "idle" /\ PassesEarlyChecks(s)
    /\ Unlocked /\ ~frozen
    /\ IF RouterAccepts(s)
       THEN AddTo(s) /\ lock' = s /\ MoveTo(s, "mounted")
       ELSE MoveTo(s, "failed") /\ UNCHANGED <<table, lock>>
    /\ UNCHANGED <<sites, frozen, spelling, records, bound, known, registered, started, dropped, serving>>

\* Fault: Bind compares the patterns as passed, without the prefixes of groups.
DuplicateByPattern(s) == \E r \in records : r.method = s.method /\ r.rel = s.rel

\* Bind looks for a record with the method and the documented path of s.
Duplicate(s) == \E r \in records : r.method = s.method /\ Doc(r) = Doc(s)

BinderAccepts(s) ==
    /\ Doc(s) # Bad
    /\ s.kind \in Gated => Doc(s) \notin Invalid /\ ~Duplicate(s)

\* The steps of Handle after Bind returns.
AfterBind(s) ==
    CASE s.kind = "gin" -> "remember"
      [] s.kind = "echov4" -> "store"
      [] s.kind \in {"echo", "fiber"} -> "open"
      [] OTHER -> "done"

\* Still under the lock: the checks that need the full path, then the record.
Record(s) ==
    /\ phase[s] = "mounted"
    /\ lock' = NoSite
    /\ IF BinderAccepts(s)
       THEN records' = records \cup {s} /\ MoveTo(s, AfterBind(s))
       ELSE MoveTo(s, "failed") /\ UNCHANGED records
    /\ UNCHANGED <<sites, router, frozen, spelling, bound, known, registered, serving>>

\* Document: the handler is on a router already.
Document(s) ==
    /\ s.kind = "document" /\ phase[s] = "idle" /\ PassesEarlyChecks(s)
    /\ Unlocked /\ ~frozen
    /\ records' = records \cup {s} /\ MoveTo(s, "done")
    /\ UNCHANGED <<sites, router, frozen, lock, spelling, bound, known, registered, serving>>

\* A route that the program registers on the router itself.
Stray(s) ==
    /\ ~s.own /\ phase[s] = "idle" /\ RouterAccepts(s)
    /\ AddTo(s) /\ MoveTo(s, "done")
    /\ UNCHANGED <<sites, frozen, lock, spelling, records, bound, known, registered, started, dropped, serving>>

Key(method, path) == <<method, path>>

Store(key, value) == known' = [k \in DOMAIN known \cup {key} |-> IF k = key THEN value ELSE known[k]]

\* Fault: remember stores the path as Gin has it before its first request.
AsWritten(s) == <<s.path>>

Spellings(s) == <<s.path, Unescaped[s.path]>>

NextSpelling(s) ==
    IF spelling[s] < Len(Spellings(s))
    THEN spelling' = [spelling EXCEPT ![s] = @ + 1] /\ MoveTo(s, "remember")
    ELSE MoveTo(s, "open") /\ UNCHANGED spelling

\* Gin: remember stores the documented path under both spellings.  Another
\* goroutine, for another engine, may store the same spelling at any moment.
LoadOrStore(s) ==
    /\ phase[s] = "remember"
    /\ LET key == Key(s.method, Spellings(s)[spelling[s]])
       IN  IF key \in DOMAIN known
           THEN /\ IF known[key] = Doc(s) THEN NextSpelling(s)
                   ELSE MoveTo(s, "clash") /\ UNCHANGED spelling
                /\ UNCHANGED known
           ELSE Store(key, Doc(s)) /\ NextSpelling(s)
    /\ UNCHANGED <<sites, router, frozen, lock, records, bound, registered, serving>>

StoreShared(s) ==
    /\ phase[s] = "clash"
    /\ Store(Key(s.method, Spellings(s)[spelling[s]]), Shared)
    /\ NextSpelling(s)
    /\ UNCHANGED <<sites, router, frozen, lock, records, bound, registered, serving>>

\* Echo v4: registered.Store follows Bind.
StoreRegistered(s) ==
    /\ phase[s] = "store"
    /\ registered' = registered \cup {s}
    /\ MoveTo(s, "open")
    /\ UNCHANGED <<sites, router, frozen, lock, spelling, records, bound, known, serving>>

\* bound.Store(true).
Open(s) ==
    /\ phase[s] = "open"
    /\ bound' = bound \cup {s}
    /\ MoveTo(s, "done")
    /\ UNCHANGED <<sites, router, frozen, lock, spelling, records, known, registered, serving>>

Register(s) ==
    \/ RejectEarly(s) \/ TooLate(s) \/ Mount(s) \/ Record(s) \/ Document(s) \/ Stray(s)
    \/ LoadOrStore(s) \/ StoreShared(s) \/ StoreRegistered(s) \/ Open(s)
-----------------------------------------------------------------------------
(* Requests. *)

\* The path that Gin shows for a route, in its table and on the context.
Spelling(r) == IF r \in dropped THEN Unescaped[r.path] ELSE r.path

\* documentedPath of specoutgin, and Table of the other routers.
Documented(r) ==
    LET key == Key(r.method, Spelling(r))
    IN  IF r.kind = "gin" /\ key \in DOMAIN known /\ known[key] # Shared
        THEN known[key] ELSE TablePath(r.kind, Spelling(r))

Matching(e, method, target) ==
    Filter(table[e], {r \in sites : r.method \in {method, AnyMethod} /\ target \in Takes[r.path]})

\* Gin and Echo run the narrowest route, and the latest of those on one path.
Narrowest(rs) ==
    LET Beats(i, j) == Takes[rs[i].path] \subseteq Takes[rs[j].path]
                       /\ (Takes[rs[j].path] \subseteq Takes[rs[i].path] => i > j)
        best == CHOOSE i \in DOMAIN rs : \A j \in DOMAIN rs : ~Beats(j, i)
    IN  IF rs = <<>> THEN rs ELSE <<rs[best]>>

\* The routes that a router tries in turn.  Fiber goes down its table, for
\* HEAD also the copies of the GET routes; gorilla takes the first route.
Candidates(e, method, target) ==
    LET rs == Matching(e, method, target)
        kinds == {r.kind : r \in Elements(table[e])}
    IN  CASE kinds = {"fiber"} -> rs \o (IF method = "HEAD" THEN Matching(e, "GET", target) ELSE <<>>)
          [] kinds = {"gorilla"} -> SubSeq(rs, 1, IF rs = <<>> THEN 0 ELSE 1)
          [] OTHER -> Narrowest(rs)

\* Gin rewrites its trees when its first request arrives.
Arrive(c) ==
    /\ at[c] = NoRequest /\ requests < MaxRequests
    /\ requests' = requests + 1
    /\ \E e \in Engines, method \in Methods \ {AnyMethod}, target \in Targets :
        /\ \E s \in sites : s.engine = e /\ target \in Takes[s.path]
        /\ LET todo == Candidates(e, method, target)
           IN  at' = [at EXCEPT ![c] =
                    IF todo = <<>> THEN NoRequest
                    ELSE [engine |-> e, method |-> method, target |-> target, todo |-> todo]]
        /\ started' = started \cup {e}
        /\ dropped' = IF e \in started THEN dropped
                      ELSE dropped \cup {r \in Elements(table[e]) : r.kind = "gin"}
    /\ UNCHANGED <<sites, table, registry, ran, observed, adopt>>

\* The middleware of Record reports the request of c, that r answered on the
\* documented path given.
Observe(c, r, path) ==
    LET method == IF r.method = AnyMethod THEN at[c].method ELSE r.method
        seen == [site |-> r, key |-> Key(method, path), sure |-> r \in bound]
    IN  observed' = IF r.kind \in Gated THEN observed \cup {seen} ELSE observed

\* Fault: nothing closes the gate of a route.
ClosedNever(r) == FALSE

\* gate, and the check of bound in the handlers of the Echo adapters.
Closed(r) == r.own /\ r.kind \in Gated /\ r \notin bound

\* Fiber goes on to the next route.
PassOn(c) ==
    /\ Len(at[c].todo) > 1 /\ Closed(Head(at[c].todo))
    /\ at' = [at EXCEPT ![c].todo = Tail(@)]
    /\ UNCHANGED <<sites, router, registry, requests, ran, observed, adopt>>

\* The handler runs.  In Gin and Fiber it names its route to Record.
Run(c) ==
    /\ at[c].todo # <<>>
    /\ LET r == Head(at[c].todo)
       IN  /\ ~Closed(r)
           /\ ran' = IF r.own THEN ran \cup {r} ELSE ran
           /\ Observe(c, r, IF r.own /\ r.kind \in {"gin", "fiber"} THEN Doc(r) ELSE Documented(r))
    /\ at' = [at EXCEPT ![c] = NoRequest]
    /\ UNCHANGED <<sites, router, registry, requests, adopt>>

\* No handler runs: middleware answers, or the closed gate of the last
\* candidate.  Fiber then names the first endpoint of the table that matches,
\* and Echo v4 looks for the route in its table.
TurnAway(c) ==
    /\ at[c].todo # <<>>
    /\ LET first == Head(Candidates(at[c].engine, at[c].method, at[c].target))
           r == IF first.kind = "fiber" THEN first ELSE Head(at[c].todo)
           routed == r.kind = "echov4" => \E t \in Elements(table[at[c].engine]) : SameSpot(t, r)
       IN  IF routed THEN Observe(c, r, Documented(r)) ELSE UNCHANGED observed
    /\ at' = [at EXCEPT ![c] = NoRequest]
    /\ UNCHANGED <<sites, router, registry, requests, ran, adopt>>
-----------------------------------------------------------------------------
(* Adopt. *)

Settled(s) == phase[s] \in {"idle", "done", "failed"}

Tables(app) == UNION {Elements(table[e]) : e \in Elements(EnginesOf[app])}

Skipped(path) == path \in Skips

TableKey(r) == Key(r.method, Documented(r))

\* Fault: only the default router counts.
OwnKeysOfDefault(app) == {TableKey(r) : r \in Elements(table[EnginesOf[app][1]]) \cap registered}

\* Echo v4: the keys of the routes that a Router registered on any router of e.
OwnKeys(app) == {TableKey(r) : r \in Tables(app) \cap registered}

\* Echo v4: the routes of the host routers that no Router registered and that
\* have a key of OwnKeys; Adopt reports them with the host before the path.
Twins(app) ==
    {r \in Tables(app) \ registered :
        /\ r.kind = "echov4" /\ r.engine # EnginesOf[app][1]
        /\ TableKey(r) \in OwnKeys(app) /\ ~Skipped(Documented(r))}

\* Adopt reads the tables without a lock.  It is quiet when no registration
\* is under way until it returns.
AdoptRead(app) ==
    /\ adopt = NoAdopt
    /\ adopt' = [state |-> "looking", app |-> app,
                 quiet |-> \A s \in sites : Settled(s),
                 seen |-> Tables(app),
                 skipped |-> {r \in Tables(app) : Skipped(Documented(r))},
                 todo |-> {[site |-> r, key |-> TableKey(r)] : r \in {t \in Tables(app) : ~Skipped(Documented(t))}},
                 strays |-> Twins(app)]
    /\ UNCHANGED <<sites, router, registry, serving>>

\* lookup: gorilla hands back the handler, so a record answers for itself; the
\* other routers show a method and a path.
Lookup(entry) ==
    LET r == entry.site
        ByKey == \E rec \in records :
                    rec.kind \in Gated \cup {"document"} /\ Key(rec.method, Doc(rec)) = entry.key
    IN  IF r.kind = "gorilla" /\ r.own THEN r \in records ELSE ByKey

\* collect: one entry, under the lock of the generator.
AdoptCollect ==
    /\ adopt.state = "looking" /\ Unlocked
    /\ \E entry \in adopt.todo :
        LET stray == entry.site.method = AnyMethod \/ ~Lookup(entry)
        IN  adopt' = [adopt EXCEPT !.todo = @ \ {entry},
                                   !.strays = IF stray THEN @ \cup {entry.site} ELSE @]
    /\ UNCHANGED <<sites, router, registry, serving>>

AdoptReturn ==
    /\ adopt.state = "looking" /\ adopt.todo = {}
    /\ adopt' = [adopt EXCEPT !.state = "done"]
    /\ UNCHANGED <<sites, router, registry, serving>>

Next ==
    \/ \E s \in sites : Register(s)
    \/ Build
    \/ \E c \in Clients : Arrive(c) \/ PassOn(c) \/ Run(c) \/ TurnAway(c)
    \/ \E app \in Apps : (\E s \in sites : s.engine \in Elements(EnginesOf[app])) /\ AdoptRead(app)
    \/ AdoptCollect \/ AdoptReturn

Spec == Init /\ [][Next]_vars
-----------------------------------------------------------------------------
(* Properties. *)

\* A route that net/http or gorilla serves from the moment its router has it.
LiveAtOnce(s) == s.own /\ s.kind \in {"std", "gorilla"}

\* The abstract promise of registration (Exposure): the handler of a route
\* runs only once the route is in the document or, on net/http and gorilla,
\* certain to be; a failed registration serves nothing, even when the caller
\* recovers (bound in the adapters).  A gorilla template that fails its check
\* is live, and the exception that register_gorilla.go:49 leaves.
Promise == INSTANCE Exposure WITH
    documented <- records \cup {s \in sites : LiveAtOnce(s) /\ phase[s] = "mounted" /\ BinderAccepts(s)},
    rejected <- {s \in sites : s.own /\ phase[s] = "failed"},
    served <- {s \in ran : s.kind = "gorilla" => BinderAccepts(s)}

ServedIsRecorded == Promise!Spec

\* The route whose handler a request of this kind runs: Fiber goes past
\* closed gates.
Answers(e, method, target) ==
    LET todo == Candidates(e, method, target)
        opened == Filter(todo, {r \in sites : ~Closed(r)})
    IN  IF todo # <<>> /\ Head(todo).kind = "fiber" THEN opened ELSE todo

Narrower(s, r) == Takes[s.path] \subseteq Takes[r.path] /\ Takes[s.path] # Takes[r.path]

\* A documented route whose registration returned answers its requests: what
\* hides it is a stray, a documented route of another path or, where a closed
\* gate answers 404 itself, a registration on a path that is no broader
\* (Bind's check for duplicates, gate in specoutfiber, bound in the others).
RecordedAnswers ==
    \A s \in bound : \A target \in Takes[s.path] :
        LET rs == Answers(s.engine, s.method, target)
            r == Head(rs)
        IN  /\ rs # <<>>
            /\ \/ r = s
               \/ ~r.own
               \/ r \in records /\ Doc(r) # Doc(s)
               \/ Closed(r) /\ r.kind \in {"gin", "echo", "echov4"} /\ ~Narrower(s, r)

\* Record reports a route by the method and path of its document entry, from
\* the moment its registration has returned, whether its handler ran or other
\* middleware answered first (ranRoute, endpointFor, Table).  A Gin spelling
\* that two engines share names no route.
ObservedIsDocumented ==
    \A seen \in observed :
        LET s == seen.site
        IN  s.own /\ seen.sure =>
            \/ seen.key = Key(s.method, Doc(s))
            \/ s.kind = "gin" /\ \E t \in records \ {s} : t.kind = "gin" /\ t.method = s.method
                                                       /\ Elements(Spellings(t)) \cap Elements(Spellings(s)) # {}

\* Its handler is in the document: it was registered through specout, or
\* Document names its method and path.
InDocument(r) ==
    \/ r \in records
    \/ \E rec \in records : rec.kind = "document" /\ Key(rec.method, Doc(rec)) = Key(r.method, TablePath(r.kind, r.path))

\* A route of another router, or of the same path, that has the key of r in
\* the document: Adopt takes r for it.
MistakenFor(r, rec) ==
    /\ rec \in records /\ rec.kind \in Gated /\ rec.method = r.method
    /\ \/ Doc(rec) = TablePath(r.kind, r.path)
       \/ r.kind = "gin" /\ Elements(Spellings(rec)) \cap Elements(Spellings(r)) # {}

\* Echo v4 tells the routes of a host router from those of other routers.
ToldApart(app, r, rec) ==
    r.kind = "echov4" /\ r.engine # EnginesOf[app][1] /\ rec \in Tables(app) /\ rec.engine # r.engine

\* Two entries with the key of r, which a build refuses.
Contested(r) ==
    \E a, b \in records :
        a # b /\ \A rec \in {a, b} : Key(rec.method, Doc(rec)) = Key(r.method, TablePath(r.kind, r.path))

\* The first request gave r a spelling with another documented path.
Renamed(r) == r \in dropped /\ TablePath(r.kind, Unescaped[r.path]) # TablePath(r.kind, r.path)

\* An Adopt that no registration overlaps reports the routes of its routers
\* that are not in the document, and no others (Adopt of the adapters, twins,
\* CheckRoutes, lookup), but for a stray that Gin has renamed.
AdoptIsExact ==
    adopt.state = "done" /\ adopt.quiet =>
        \A r \in {s \in adopt.seen : s \in records \/ ~Renamed(s)} :
            IF InDocument(r) /\ r.method # AnyMethod
            THEN \/ r \notin adopt.strays
                 \/ r.kind = "gin" /\ Shared \in Elements(known)
                 \/ Contested(r)
            ELSE \/ r \in adopt.strays
                 \/ r \in adopt.skipped
                 \/ \E rec \in sites : MistakenFor(r, rec) /\ ~ToldApart(adopt.app, r, rec)
=============================================================================
