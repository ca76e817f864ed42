------------------------------ MODULE Recorder ------------------------------
(***************************************************************************)
(* A recorder that wraps an http.ServeMux, and Verify (recorder/).  A      *)
(* request is two steps: the router answers it (and the document, if it    *)
(* served the request, marks its route in the generator), then the         *)
(* recorder books the answer under its lock.  Verify is two steps as well: *)
(* it reads the statuses that the generator allows, then takes a snapshot  *)
(* of the recorder and compares.  Nothing joins the two locks, so requests *)
(* may fall between any two of these steps.                                *)
(*                                                                         *)
(* The ServeMux is external.  Its entries are routes that a generator      *)
(* documents, strays that it does not, the document itself, and subtree    *)
(* mounts without a method.  Middleware around the mux may copy the        *)
(* request, which hides the pattern that ran, or answer for it.            *)
(***************************************************************************)
EXTENDS RouteMatching

CONSTANTS
    Clients,        \* goroutines that send requests
    Paths,          \* request paths
    AnyMethod,      \* the method of a mux entry registered without one
    Setups,         \* the programs under test and what their tests send
    NoEntry,        \* no mux entry
    Guarded,        \* kinds of entries that middleware answers for
    Declared,       \* Declared[key]: codes that a documented route declares
    Defaults,       \* codes of the global error envelope, 0 for any code
    Skips,          \* templates that a skip rule matches
    NoReport,
    MaxRequests     \* bound on the requests of a run

Kinds == {"route", "stray", "document", "subtree"}

MuxEntries == [method : Methods \cup {AnyMethod}, template : Templates, kind : Kinds]

\* An answer: the status that the writer saw (0: none), whether a handler took
\* over the connection, whether the request asked to switch protocols, and
\* whether a redirect only cleans the path or toggles its last slash.
Answers == [status : Nat, hijacked : BOOLEAN, upgrade : BOOLEAN, toggles : BOOLEAN]

\* A program under test: the entries of its mux, what wraps the mux ("none",
\* "copies" or "answers"), the requests of its tests and what its handlers do.
SetupsOf(entries) ==
    [mux : SUBSET entries, middleware : SUBSET {"none", "copies", "answers"},
     sent : SUBSET (Methods \X Paths), outcomes : SUBSET Answers]

Plain(status) == [status |-> status, hijacked |-> FALSE, upgrade |-> FALSE, toggles |-> FALSE]

AllEntries == UNION {s.mux : s \in Setups}

\* The requests that each pattern of ServeMux takes.
Accepts ==
    [entry \in AllEntries |->
        {request \in Methods \X Paths :
            /\ \/ entry.method \in {AnyMethod, request[1]}
               \/ entry.method = "GET" /\ request[1] = "HEAD"
            /\ TemplateMatches(entry.template, request[2])}]

\* ServeMux refuses patterns that overlap when neither is narrower.
Conflict(e, f) ==
    /\ Accepts[e] \cap Accepts[f] # {}
    /\ ~(Accepts[e] \subseteq Accepts[f]) /\ ~(Accepts[f] \subseteq Accepts[e])

ASSUME RecorderAssumption ==
    /\ AnyMethod \notin Methods /\ \E m \in Methods : m \notin {"GET", "HEAD"}
    /\ Paths \subseteq Seq(Values) /\ AnyValueAnywhere(Paths)
    \* A pattern of ServeMux has whole segments as parameters.
    /\ \A t \in Templates : \A i \in DOMAIN t : t[i].kind # "mixed"
    /\ Setups \subseteq SetupsOf(MuxEntries)
    /\ \A s \in Setups : IsFiniteSet(s.mux)
    /\ \A s \in Setups : \A e, f \in s.mux :
        e # f => ~Conflict(e, f) /\ Accepts[e] # Accepts[f]
    /\ \A e \in AllEntries :
        /\ e # NoEntry
        /\ e.kind = "route" => e.method \in Methods
        /\ e.kind = "subtree" => e.method = AnyMethod
        \* The document is fetched under one literal path.
        /\ e.kind = "document" => \A i \in DOMAIN e.template : e.template[i].kind = "literal"
    /\ \A s \in Setups : \A o \in s.outcomes : o.toggles => o.status \in {301, 307, 308}
    /\ Guarded \subseteq Kinds
    /\ Declared \in [RouteKeys -> SUBSET Nat]
    /\ Defaults \subseteq Nat
    /\ Skips \subseteq Templates
    /\ MaxRequests \in Nat

\* Where a recorder that sees no pattern can be right: what hides the patterns
\* of a program hides no route that is not documented, and does not answer for
\* the document.
HiddenRoutesAreKnown(s) ==
    "document" \notin Guarded /\ (s.middleware # {"none"} => \A e \in s.mux : e.kind # "stray")

\* The document has a path of its own and, where the recorder sees its pattern,
\* is mounted without a method.
DocumentStandsAlone(s) ==
    \A d \in {e \in s.mux : e.kind = "document"} :
        /\ \A e \in s.mux : e.template = d.template => e.kind = "document"
        /\ "none" \in s.middleware => d.method = AnyMethod

VARIABLES
    setup,      \* the program under test, fixed
    served,     \* Generator.served
    codes,      \* Recorder.codes, as pairs of a route key and a code
    misses,     \* Recorder.misses
    pc,         \* where each client is in Recorder.ServeHTTP
    answer,     \* the answer that each client got from the router
    verify,     \* where Verify is
    known,      \* Generator.served when Verify read SpecStatuses
    report,     \* what the last Verify reported
    produced,   \* history: the routes and codes of the requests booked so far
    before,     \* history: produced when Verify began
    overlap,    \* history: a request overlapped Verify
    requests    \* history: requests so far

books == <<codes, misses, produced>>
verifying == <<verify, known, report, before>>
vars == <<setup, served, codes, misses, pc, answer, verify, known, report, produced, before,
          overlap, requests>>

\* The entries of the ServeMux.
mux == setup.mux

Init ==
    /\ setup \in Setups
    /\ served = {} /\ codes = {} /\ misses = {}
    /\ pc = [c \in Clients |-> "idle"]
    /\ answer = [c \in Clients |-> NoEntry]
    /\ verify = "idle" /\ known = {} /\ report = NoReport
    /\ produced = {} /\ before = {} /\ overlap = FALSE
    /\ requests = 0
-----------------------------------------------------------------------------
(* The router answers. *)

\* The entry that ServeMux runs: the narrowest that takes the request.
Dispatch(method, path) ==
    LET taking == {e \in mux : <<method, path>> \in Accepts[e]} IN
    IF taking = {} THEN NoEntry
    ELSE CHOOSE e \in taking : \A f \in taking : Accepts[e] \subseteq Accepts[f]

\* Client c has its answer: target is the entry that the request was for, and
\* the recorder sees the pattern of `seen`.
Answered(c, method, path, target, seen, outcome) ==
    /\ pc[c] = "idle" /\ requests < MaxRequests
    /\ pc' = [pc EXCEPT ![c] = "answered"]
    /\ answer' = [answer EXCEPT ![c] = [method |-> method, path |-> path, target |-> target,
                                        seen |-> seen, outcome |-> outcome]]
    /\ requests' = requests + 1
    /\ overlap' = (overlap \/ verify # "idle")
    /\ UNCHANGED <<setup, books, verifying>>

Seen(entry, middleware) == IF middleware = "copies" THEN NoEntry ELSE entry

\* Middleware outside the router answers: no route runs.
MiddlewareAnswers(c, method, path) ==
    /\ "answers" \in setup.middleware
    /\ LET entry == Dispatch(method, path) IN entry # NoEntry => entry.kind \in Guarded
    /\ \E status \in {401, 404} :
        Answered(c, method, path, Dispatch(method, path), NoEntry, Plain(status))
    /\ UNCHANGED served

\* A route or a mount runs its handler.
HandlerAnswers(c, method, path, middleware) ==
    LET entry == Dispatch(method, path) IN
    /\ entry # NoEntry /\ entry.kind # "document"
    /\ \E outcome \in setup.outcomes :
        Answered(c, method, path, entry, Seen(entry, middleware), outcome)
    /\ UNCHANGED served

\* The path of a request as a route key: NewRouteKey(r.Method, r.URL.Path).
PathKey(method, path) == <<method, [i \in DOMAIN path |-> [kind |-> "literal", text |-> path[i]]]>>

\* Generator.ServeHTTP: the frozen document, and the mark of its route.
DocumentAnswers(c, method, path, middleware) ==
    LET entry == Dispatch(method, path) IN
    /\ entry # NoEntry /\ entry.kind = "document"
    /\ IF method \in {"GET", "HEAD"}
       THEN /\ Answered(c, method, path, entry, Seen(entry, middleware), Plain(0))
            /\ served' = served \cup {PathKey(method, path)}
       ELSE /\ Answered(c, method, path, entry, Seen(entry, middleware), Plain(405))
            /\ UNCHANGED served

\* No entry takes the request: ServeMux redirects to a subtree, or answers 405
\* or 404.  It sets no pattern that the recorder reads.
RouterAnswers(c, method, path) ==
    /\ Dispatch(method, path) = NoEntry
    /\ LET slashed == Dispatch(method, Append(path, Empty))
           otherMethod == \E m \in Methods : Dispatch(m, path) # NoEntry IN
       Answered(c, method, path, NoEntry, NoEntry,
                IF slashed # NoEntry /\ IsCatchAll(slashed.template)
                THEN [Plain(307) EXCEPT !.toggles = TRUE]
                ELSE Plain(IF otherMethod THEN 405 ELSE 404))
    /\ UNCHANGED served
-----------------------------------------------------------------------------
(* Recorder.ServeHTTP books the answer. *)

Skipped(key) == key[2] \in Skips

OrOK(status) == IF status = 0 THEN 200 ELSE status

\* Fault: the codes of a route are replaced, not added to.
ObserveReplaces(booked, key, status) ==
    IF Skipped(key) THEN booked
    ELSE {b \in booked : b[1] # key} \cup {<<key, OrOK(status)>>}

\* Observe.
Observe(booked, key, status) ==
    IF Skipped(key) THEN booked ELSE booked \cup {<<key, OrOK(status)>>}

\* hijack.Status: 0 with FALSE when the handler wrote the response itself.
HasStatus(outcome) == ~outcome.hijacked \/ outcome.status # 0 \/ outcome.upgrade

StatusOf(outcome) ==
    IF outcome.hijacked /\ outcome.status = 0 THEN 101 ELSE outcome.status

\* Fault: a redirect of the router counts for the route of its path.
RouterRedirectNever(outcome) == FALSE

\* routerRedirect.
RouterRedirect(outcome) == outcome.toggles /\ outcome.status \in {301, 307, 308}

\* stdPattern: a subtree without a method may be an outer mount.
HasPattern(entry) == entry # NoEntry /\ entry.kind # "subtree"

\* servedRoute: HEAD that a GET pattern served counts for GET.
ServedRoute(entry, method) ==
    <<IF method = "HEAD" /\ entry.method = "GET" THEN "GET" ELSE method, entry.template>>

\* Truth, for the properties: the handler that the request was for, by the
\* entry it is registered under, and the code that the client saw.  An answer
\* of a router or middleware that says there is no route is for no route.
Production(a) ==
    <<<<IF a.target.method = AnyMethod THEN a.method ELSE a.target.method, a.target.template>>,
      OrOK(StatusOf(a.outcome))>>

Produces(a) ==
    /\ HasPattern(a.target) /\ HasStatus(a.outcome) /\ ~a.outcome.toggles
    /\ a.seen = NoEntry => StatusOf(a.outcome) \notin {404, 405}

\* ServeHTTP, after the router has returned.
Record(c) ==
    LET a == answer[c] IN
    /\ pc[c] = "answered"
    /\ pc' = [pc EXCEPT ![c] = "idle"]
    /\ answer' = [answer EXCEPT ![c] = NoEntry]
    /\ produced' = IF Produces(a) THEN produced \cup {Production(a)} ELSE produced
    /\ overlap' = (overlap \/ verify # "idle")
    /\ IF RouterRedirect(a.outcome) \/ ~HasStatus(a.outcome)
       THEN UNCHANGED <<codes, misses>>
       ELSE IF HasPattern(a.seen)
       THEN /\ codes' = Observe(codes, ServedRoute(a.seen, a.method), StatusOf(a.outcome))
            /\ UNCHANGED misses
       ELSE /\ misses' = misses \cup {[method |-> a.method, path |-> a.path,
                                       status |-> OrOK(StatusOf(a.outcome))]}
            /\ UNCHANGED codes
    /\ UNCHANGED <<setup, served, verifying, requests>>
-----------------------------------------------------------------------------
(* Verify. *)

\* The documented routes of the mux.
Documented == {<<e.method, e.template>> : e \in {e \in mux : e.kind = "route"}}

\* Fault: the route of the document is left out of SpecStatuses.
AllowedWithoutServed(key) == IF key \in Documented THEN Declared[key] \cup Defaults ELSE {}

\* SpecStatuses, as Verify read it.
Allowed(key) ==
    (IF key \in Documented THEN Declared[key] \cup Defaults ELSE {})
        \cup (IF key \in known THEN {200} ELSE {})

\* Verify reads the statuses that the generator declares and allows.
ReadStatuses ==
    /\ verify = "idle"
    /\ verify' = "comparing"
    /\ known' = served
    /\ before' = produced
    /\ overlap' = \E c \in Clients : pc[c] # "idle"
    /\ UNCHANGED <<setup, served, books, pc, answer, report, requests>>

\* The documented route that a miss is for.
RouteOf(m) == MatchRoute(Documented \cup known, m.method, m.path)

\* Fault: the 404 of a router counts for the route of its path.
UnmatchedAnyStatus == {m \in misses : RouteOf(m) = NoRoute}

\* matchMisses: the misses that count for no route.
Unmatched == {m \in misses : RouteOf(m) = NoRoute \/ m.status \in {404, 405}}

\* snapshot and matchMisses.
Observed ==
    codes \cup {<<RouteOf(m), m.status>> : m \in {m \in misses \ Unmatched : ~Skipped(RouteOf(m))}}

\* Every code that a documented route declares.
DeclaredCodes == UNION {{key} \X Declared[key] : key \in Documented}

\* reportNeverProduced.
NeverProduced == DeclaredCodes \ Observed

\* reportUndeclared.
Undeclared == {b \in Observed : {0, b[2]} \cap Allowed(b[1]) = {}}

\* Verify takes the snapshot and reports.
Compare ==
    /\ verify = "comparing"
    /\ verify' = "idle"
    /\ report' = [gaps |-> NeverProduced, drift |-> Undeclared,
                  hidden |-> Observed = {} /\ Unmatched # {} /\ Documented # {},
                  before |-> before, exact |-> ~overlap, current |-> known = served]
    /\ UNCHANGED <<setup, served, books, pc, answer, known, before, overlap, requests>>

\* Verify changes nothing that a request or a later Verify reads, so a run
\* ends with its first report.
Next ==
    /\ report = NoReport
    /\ \/ \E c \in Clients, method \in Methods, path \in Paths :
            /\ <<method, path>> \in setup.sent
            /\ \/ MiddlewareAnswers(c, method, path)
               \/ \E middleware \in setup.middleware \ {"answers"} :
                    \/ HandlerAnswers(c, method, path, middleware)
                    \/ DocumentAnswers(c, method, path, middleware)
               \/ RouterAnswers(c, method, path)
       \/ \E c \in Clients : Record(c)
       \/ ReadStatuses
       \/ Compare

Spec == Init /\ [][Next]_vars
-----------------------------------------------------------------------------
(* Properties. *)

Reported == report # NoReport

\* A code that a route produced before Verify began is not reported as missing,
\* whatever the requests do meanwhile: through the mux or around it, as GET or
\* as HEAD, first or last of several codes.
GapsAreTrue == Reported => \A gap \in report.gaps : gap \notin report.before \/ Skipped(gap[1])

\* Every reported drift is a code that this route wrote to a client, whatever
\* requests overlap, unless the document was served for the first time on a
\* path after Verify read the statuses.
DriftIsTrue == Reported /\ report.current => \A drift \in report.drift : drift \in produced

\* The codes of the document's own route when it serves the document.
FromDocument(b) == b[2] = 200 /\ \E e \in mux : e.kind = "document" /\ b[1][2] = e.template

\* What a Verify that no request overlaps reports is exact: every declared code
\* that no request produced, every produced code that is not declared, and the
\* advice to wrap the router itself only when no request reached a route.
ReportIsExact ==
    Reported /\ report.exact =>
        LET booked == {b \in report.before : ~Skipped(b[1])} IN
        /\ report.gaps = DeclaredCodes \ booked
        /\ report.drift =
            {b \in booked : ~FromDocument(b) /\ b[1] \notin Documented}
                \cup {b \in booked : b[1] \in Documented
                                      /\ {0, b[2]} \cap (Declared[b[1]] \cup Defaults) = {}}
        /\ report.hidden => booked = {}

\* "A request for the document itself is not drift" (README.md:648): the 200 of
\* the document is reported under no method, unless the document was served for
\* the first time on a path after Verify read the statuses.
DocumentIsNotDrift == Reported /\ report.current => \A b \in report.drift : ~FromDocument(b)
=============================================================================
