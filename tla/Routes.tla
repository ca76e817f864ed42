------------------------------- MODULE Routes -------------------------------
(***************************************************************************)
(* What a generator reads from the chi routers it saw (routes.go,          *)
(* register_chi.go): the walk of a live router, the one path of each       *)
(* relative registration, and the checks of the resolved records.  The     *)
(* operators take the router tables and the registrations as arguments, so *)
(* that the modules which change them share one definition of a walk.      *)
(*                                                                         *)
(* A path is <<prefix, pattern>>: the mount prefix under which a walk saw  *)
(* the entry, and the pattern of the registration.  A prefix is empty      *)
(* (NoPrefix) for an entry of the walked router itself.  Mounts nest one   *)
(* level deep.                                                             *)
(***************************************************************************)
EXTENDS FiniteSets

CONSTANTS
    Routes,        \* registrations the program may perform, one record each
    Routers,       \* chi routers of the program
    NoRouter,      \* "no chi router" (nil)
    Prefixes,      \* prefixes at which a router may be mounted
    NoPrefix,      \* the empty prefix
    NoPath,        \* rec.full = ""
    Methods,       \* HTTP methods
    Patterns,      \* router patterns
    Decl,          \* Decl[r]: method, pattern, router and kind of registration r
    Documented,    \* Documented[p]: p as the document writes it (docPath)
    Hierarchy,     \* Hierarchy[d]: d with its parameter names blanked
    CatchAlls,     \* documented patterns that OpenAPI cannot express
    Declared,      \* prefixes that the path of a Config.Servers URL ends with
    Foreign        \* a handler that no generator registered

Kinds == {"relative", "absolute"}

Handlers == Routes \cup {Foreign}

Paths == (Prefixes \cup {NoPrefix}) \X Patterns

\* One row of a chi routing tree: the endpoint of a method on a pattern.
Entries == [router : Routers, method : Methods, pattern : Patterns, handler : Handlers]

\* One Mount: router `inner` under `prefix` of router `outer`.
MountPoints == [inner : Routers, prefix : Prefixes, outer : Routers]

ASSUME RoutesAssumption ==
    /\ NoRouter \notin Routers
    /\ NoPrefix \notin Prefixes
    /\ NoPath \notin Paths
    /\ Foreign \notin Routes
    /\ Decl \in [Routes -> [method : Methods, pattern : Patterns,
                            router : Routers \cup {NoRouter}, kind : Kinds]]
    /\ \A r \in Routes : Decl[r].kind = "relative" <=> Decl[r].router \in Routers
    /\ DOMAIN Documented = Patterns
    /\ \A p \in Patterns : Documented[p] \in DOMAIN Hierarchy
    /\ Declared \subseteq Prefixes

Relative(r) == Decl[r].kind = "relative"

\* The endpoint that the chi binder registers for r.
EntryOf(r) == [router |-> Decl[r].router, method |-> Decl[r].method,
               pattern |-> Decl[r].pattern, handler |-> r]

\* chi.Router.Method: the endpoint of a method on a node is overwritten, so a
\* later registration replaces an earlier one.
Endpoint(table, e) ==
    {f \in table : <<f.router, f.method, f.pattern>> # <<e.router, e.method, e.pattern>>} \cup {e}

\* chi.Walk of router s: its own entries, and under its prefix each entry of a
\* router mounted in it.
Walk(table, mounts, s) ==
    {[method |-> e.method, path |-> <<NoPrefix, e.pattern>>, handler |-> e.handler] :
        e \in {f \in table : f.router = s}}
    \cup
    {[method |-> y[2].method, path |-> <<y[1].prefix, y[2].pattern>>, handler |-> y[2].handler] :
        y \in {z \in mounts \X table : z[1].outer = s /\ z[2].router = z[1].inner}}

\* Fault: a path below a mount hides the path on the adopted router itself.
HitsMountedFirst(table, mounts, sources, r) ==
    LET paths == {w.path : w \in {v \in UNION {Walk(table, mounts, s) : s \in sources} :
                                     v.handler = r /\ v.method = Decl[r].method}}
        mounted == {p \in paths : p[1] # NoPrefix}
    IN  IF mounted # {} THEN mounted ELSE paths

\* walkHits: the distinct paths at which the walked routers serve registration r.
Hits(table, mounts, sources, r) ==
    {w.path : w \in {v \in UNION {Walk(table, mounts, s) : s \in sources} :
                        v.handler = r /\ v.method = Decl[r].method}}

\* pairPaths: rec.full of every registered record.  It is fixed at registration
\* for an absolute record, else the one live path, and empty for none or several.
Paired(table, mounts, sources, records) ==
    [r \in Routes |->
        IF r \notin records THEN NoPath
        ELSE IF ~Relative(r) THEN <<NoPrefix, Decl[r].pattern>>
        ELSE LET hits == Hits(table, mounts, sources, r)
             IN  IF \E p \in Paths : hits = {p} THEN CHOOSE p \in Paths : hits = {p} ELSE NoPath]

DocPath(path) == <<path[1], Documented[path[2]]>>

IsCatchAll(path) == Documented[path[2]] \in CatchAlls

\* NewRouteKey(rec.method, rec.full)
Key(r, path) == <<Decl[r].method, DocPath(path)>>

SameTemplate(p, q) ==
    /\ p[1] = q[1]
    /\ Hierarchy[Documented[p[2]]] = Hierarchy[Documented[q[2]]]

\* pathClaims.claim fails for one of two resolved records: they are one
\* documented operation, or two templates that OpenAPI cannot tell apart.  The code
\* reports the later record of the two; here both are named.
Conflict(r, p, s, q) ==
    \/ Key(r, p) = Key(s, q)
    \/ ~IsCatchAll(p) /\ ~IsCatchAll(q) /\ SameTemplate(p, q) /\ DocPath(p) # DocPath(q)

\* pairPaths: a relative registration that several live paths reach.
Multiple(table, mounts, sources, r) ==
    Relative(r) /\ \E p, q \in Hits(table, mounts, sources, r) : p # q

\* resolveLocked, given the paths that pairPaths assigned: an error of pairPaths
\* hides those of validateRecords.
ResolveProblems(table, mounts, sources, records, full) ==
    LET multiple == {r \in records : Multiple(table, mounts, sources, r)}
        resolved == {r \in records : full[r] # NoPath}
        clashing == {r \in resolved :
                        \E s \in resolved \ {r} : Conflict(r, full[r], s, full[s])}
    IN  IF multiple # {}
        THEN {<<"multiple paths", r>> : r \in multiple}
        ELSE {<<"unresolved", r>> : r \in records \ resolved} \cup {<<"conflict", r>> : r \in clashing}

\* checkChiMount: the router that served the spec request serves a record below
\* the path of the document, under a prefix that no server URL declares.
MountProblems(table, mounts, sources, records, outer, full) ==
    IF outer = NoRouter \/ outer \in sources THEN {}
    ELSE {<<"undeclared mount", r>> :
            r \in {s \in records :
                     /\ Relative(s) /\ full[s] # NoPath /\ full[s][1] = NoPrefix
                     /\ \E p \in Hits(table, mounts, {outer}, s) : p[1] \in Prefixes \ Declared}}
=============================================================================
