----------------------------- MODULE Operations -----------------------------
(***************************************************************************)
(* The operations of a document (operation.go, callbacks.go, links.go,     *)
(* security.go): routes, webhooks and the callbacks under them, which      *)
(* register in any order, some without a path until their router is        *)
(* adopted; and the checks of a build over all of them.                    *)
(*                                                                         *)
(* A program declares operations.  One callback declaration can go on      *)
(* several operations, so an operation is a node: the site of a            *)
(* registration, followed by an entry for each callback on the way to it.  *)
(***************************************************************************)
EXTENDS Naturals, Sequences, FiniteSets

CONSTANTS
    Programs,       \* the programs: each is the set of sites it registers
    Declared,       \* Declared[name]: the declaration of a site or a callback
    Depth,          \* bound on the nesting of callbacks, the site included
    Methods, Ids, NoId,
    DerivedId,      \* DerivedId[method][path]: operationID
    Paths,          \* documented paths, names of webhooks and of callbacks
    Schemes         \* the names in Config.Auth

Names == DOMAIN Declared

DeclarationType ==
    [kind : {"route", "webhook", "callback"}, method : Methods, path : Paths, url : Paths,
     id : Ids \cup {NoId}, raw : Ids \cup {NoId}, public : BOOLEAN, security : SUBSET STRING,
     links : SUBSET Ids, callbacks : Seq(Names), late : BOOLEAN, catchAll : BOOLEAN]

Sites == UNION Programs

\* An operation by its name and its position in a list of callbacks.
Entry(name, i) == [name |-> name, at |-> i]

Root(s) == <<Entry(s, 0)>>

NameOf(node) == node[Len(node)].name

Children(node) ==
    LET callbacks == Declared[NameOf(node)].callbacks
    IN  [i \in 1..Len(callbacks) |-> Append(node, Entry(callbacks[i], i))]

Elements(seq) == {seq[i] : i \in DOMAIN seq}

\* The sites, the callbacks on them, the callbacks on those, and so on.
Nodes ==
    LET level[n \in 1..Depth] ==
            IF n = 1 THEN {Root(s) : s \in Sites}
            ELSE UNION {Elements(Children(node)) : node \in level[n - 1]}
    IN  UNION {level[n] : n \in 1..Depth}

Decl == [node \in Nodes |-> Declared[NameOf(node)]]

Front(node) == SubSeq(node, 1, Len(node) - 1)

ASSUME OperationsAssumption ==
    /\ \A program \in Programs : program \subseteq Names
    /\ \A name \in Names : Declared[name] \in DeclarationType
    \* Only a Callback goes on a list of callbacks, and none is a site.
    /\ \A s \in Sites : Declared[s].kind # "callback"
    /\ \A name \in Names : \A i \in DOMAIN Declared[name].callbacks :
            Declared[Declared[name].callbacks[i]].kind = "callback"
    /\ NoId \notin Ids /\ DerivedId \in [Methods -> [Paths -> Ids \cup {NoId}]]
    /\ Depth \in Nat \ {0}
    \* A Callback exists before the operation that lists it, so nesting ends.
    /\ \A node \in Nodes : Len(node) = Depth => Decl[node].callbacks = <<>>

VARIABLES
    program,        \* the sites, fixed
    state,          \* state[site]: idle, checked, added or failed
    parents,        \* rec.parent of the callbacks, by the memory that holds them
    records,        \* Generator.records, in order
    webhooks,       \* Generator.webhooks, in order
    resolved,       \* late routes whose router was adopted
    report,         \* the problems of the last build
    built,          \* the records of the last build
    frozen          \* a build succeeded

vars == <<program, state, parents, records, webhooks, resolved, report, built, frozen>>

Init ==
    /\ program \in Programs
    /\ state = [s \in program |-> "idle"]
    /\ parents = [cell \in {} |-> <<>>]
    /\ records = <<>> /\ webhooks = <<>>
    /\ resolved = {} /\ report = {} /\ built = <<>> /\ frozen = FALSE
-----------------------------------------------------------------------------
(* Registration. *)

\* rec.public: outgoingRecord makes a request without Security public.
Public(node) == Decl[node].public \/ (Decl[node].kind # "route" /\ Decl[node].security = {})

\* checkSecurity, checkRawReplaces and the list of callbacks in checkCallbacks.
GoodNode(node) ==
    LET d == Decl[node]
    IN  /\ ~(d.raw # NoId /\ d.id # NoId)
        /\ ~(Public(node) /\ d.security # {})
        /\ d.security \subseteq Schemes
        /\ \A i, j \in DOMAIN Children(node) :
            LET a == Decl[Children(node)[i]]
                b == Decl[Children(node)[j]]
            IN  <<a.path, a.url, a.method>> = <<b.path, b.url, b.method>> => i = j

Below(s) == {node \in Nodes : node[1].name = s}

\* Fault: the operations that hold one Callback share its list of callbacks.
SharedCell(node) == IF Len(node) = 1 THEN node ELSE <<NameOf(Front(node)), node[Len(node)]>>

\* checkCallbacks clones the list before it sets parents in it.
Cell(node) == node

\* checkRoute runs before the lock, for the callbacks under a route too.
Check(s) ==
    /\ state[s] = "idle"
    /\ LET below == {n \in Below(s) : Len(n) > 1}
           cells == {Cell(n) : n \in below}
       IN  IF \A n \in Below(s) : GoodNode(n)
           THEN /\ state' = [state EXCEPT ![s] = "checked"]
                /\ parents' = [c \in DOMAIN parents \cup cells |->
                        IF c \in cells THEN Front(CHOOSE n \in below : Cell(n) = c) ELSE parents[c]]
           ELSE state' = [state EXCEPT ![s] = "failed"] /\ UNCHANGED parents
    /\ UNCHANGED <<program, records, webhooks, resolved, report, built, frozen>>

AddRoute(s) ==
    /\ state[s] = "checked" /\ Declared[s].kind = "route" /\ ~frozen
    /\ records' = Append(records, s)
    /\ state' = [state EXCEPT ![s] = "added"]
    /\ UNCHANGED <<program, parents, webhooks, resolved, report, built, frozen>>

\* Webhook: each name takes each method once.
AddWebhook(s) ==
    /\ state[s] = "checked" /\ Declared[s].kind = "webhook" /\ ~frozen
    /\ IF \E w \in Elements(webhooks) :
            Declared[w].path = Declared[s].path /\ Declared[w].method = Declared[s].method
       THEN state' = [state EXCEPT ![s] = "failed"] /\ UNCHANGED webhooks
       ELSE state' = [state EXCEPT ![s] = "added"] /\ webhooks' = Append(webhooks, s)
    /\ UNCHANGED <<program, parents, records, resolved, report, built, frozen>>

\* mustBeOpen.
TooLate(s) ==
    /\ state[s] = "checked" /\ frozen
    /\ state' = [state EXCEPT ![s] = "failed"]
    /\ UNCHANGED <<program, parents, records, webhooks, resolved, report, built, frozen>>

\* The router of a late route is adopted, and the next build finds its path.
Adopt(s) ==
    /\ s \notin resolved /\ Declared[s].late /\ ~frozen
    /\ resolved' = resolved \cup {s}
    /\ UNCHANGED <<program, state, parents, records, webhooks, report, built, frozen>>
-----------------------------------------------------------------------------
(* A build. *)

\* rec.full # "" for a node, when the late routes of R are resolved.
HasPath(node, R) == Decl[node].kind = "route" /\ (Decl[node].late => node[1].name \in R)

\* emittedOperationID.
EmittedId(node, R) ==
    LET d == Decl[node]
    IN  IF d.raw # NoId THEN d.raw
        ELSE IF d.id # NoId \/ ~HasPath(node, R) THEN d.id
        ELSE DerivedId[d.method][d.path]

Flatten(seqs) ==
    LET upTo[n \in 0..Len(seqs)] == IF n = 0 THEN <<>> ELSE upTo[n - 1] \o seqs[n]
    IN  upTo[Len(seqs)]

\* yieldOperation: a node, then the callbacks under it.
Yield ==
    LET yield[node \in Nodes] ==
            LET children == Children(node)
            IN  <<node>> \o Flatten([i \in DOMAIN children |-> yield[children[i]]])
    IN  yield

\* operations: routes that are no catch-alls, as far as their path tells, then
\* webhooks.
OperationsOf(recs, hooks, R) ==
    Flatten([i \in DOMAIN recs |->
                IF Decl[Root(recs[i])].catchAll /\ HasPath(Root(recs[i]), R) THEN <<>> ELSE Yield[Root(recs[i])]])
    \o Flatten([i \in DOMAIN hooks |-> Yield[Root(hooks[i])]])

\* Fault: an operation without a path is the same route as another.
SameMethodAndPath(a, b, R) ==
    /\ Decl[a].method = Decl[b].method
    /\ HasPath(a, R) = HasPath(b, R) /\ (HasPath(a, R) => Decl[a].path = Decl[b].path)

SameRoute(a, b, R) ==
    /\ HasPath(a, R) /\ HasPath(b, R)
    /\ Decl[a].method = Decl[b].method /\ Decl[a].path = Decl[b].path

\* checkOperationIDs: each id belongs to the first operation that has it.
IdProblems(ops, R) ==
    LET First(i) == CHOOSE j \in 1..i : /\ EmittedId(ops[j], R) = EmittedId(ops[i], R)
                                        /\ \A k \in 1..(j - 1) : EmittedId(ops[k], R) # EmittedId(ops[i], R)
    IN  {[what |-> "duplicateId", op |-> ops[i], other |-> ops[First(i)]] :
            i \in {k \in DOMAIN ops : /\ EmittedId(ops[k], R) # NoId /\ First(k) # k
                                      /\ ~SameRoute(ops[First(k)], ops[k], R)}}

\* Fault: only the links of routes are checked.
LinksOfRoutes(recs, hooks, R) == OperationsOf(recs, <<>>, R)

Linking(recs, hooks, R) == OperationsOf(recs, hooks, R)

\* Fault: a link to a missing id is always an error.
NothingOpen(recs, R) == FALSE

\* checkLinks: a route without a path and an id of its own may yet get one.
IdsOpen(recs, R) == \E s \in Elements(recs) : ~HasPath(Root(s), R) /\ EmittedId(Root(s), R) = NoId

LinkProblems(recs, hooks, R) ==
    LET ids == {EmittedId(n, R) : n \in Elements(OperationsOf(recs, hooks, R))}
    IN  IF IdsOpen(recs, R) THEN {}
        ELSE UNION {{[what |-> "missingId", op |-> n, other |-> id] : id \in Decl[n].links \ ids} :
                        n \in Elements(Linking(recs, hooks, R))}

\* Fault: a route claims its path when it registers, one without a path never.
ResolveProblemsEarly(recs, R) ==
    {[what |-> "unresolved", op |-> Root(s), other |-> NoId] : s \in {r \in Elements(recs) : ~HasPath(Root(r), R)}}
    \cup {[what |-> "duplicateRoute", op |-> Root(s), other |-> NoId] :
            s \in {r \in Elements(recs) : \E q \in Elements(recs) \ {r} : SameRoute(Root(q), Root(r), {})}}

\* validateRecords: routes without a path, and routes of one method and path.
ResolveProblems(recs, R) ==
    {[what |-> "unresolved", op |-> Root(s), other |-> NoId] : s \in {r \in Elements(recs) : ~HasPath(Root(r), R)}}
    \cup {[what |-> "duplicateRoute", op |-> Root(s), other |-> NoId] :
            s \in {r \in Elements(recs) : \E q \in Elements(recs) \ {r} : SameRoute(Root(q), Root(r), R)}}

Build ==
    /\ ~frozen
    /\ report' = ResolveProblems(records, resolved)
                 \cup IdProblems(OperationsOf(records, webhooks, resolved), resolved)
                 \cup LinkProblems(records, webhooks, resolved)
    /\ built' = records
    /\ frozen' = (report' = {})
    /\ UNCHANGED <<program, state, parents, records, webhooks, resolved>>

Next ==
    \/ \E s \in program : Check(s) \/ AddRoute(s) \/ AddWebhook(s) \/ TooLate(s) \/ Adopt(s)
    \/ Build

Spec == Init /\ [][Next]_vars
-----------------------------------------------------------------------------
(* Properties. *)

Document == Elements(OperationsOf(records, webhooks, resolved))

\* No two operations of a document have one operationId, wherever they stand
\* (checkOperationIDs): its exception for one route registered twice is safe
\* only because validateRecords refuses that document.
UniqueIds ==
    frozen => \A a, b \in Document :
        EmittedId(a, resolved) = EmittedId(b, resolved) /\ EmittedId(a, resolved) # NoId => a = b

\* Every link of a document, also of a webhook or a callback, leads to one of
\* its operations (checkLinks).
LinksResolve ==
    frozen => \A n \in Document : Decl[n].links \subseteq {EmittedId(m, resolved) : m \in Document}

\* A build that reports a link has no route left whose path could give the
\* link its target (checkLinks: the resolve error comes first).
LinkErrorsStand ==
    \A p \in report : p.what = "missingId" =>
        \A R \in SUBSET program : resolved \subseteq R =>
            p.other \notin {EmittedId(n, R) : n \in Elements(OperationsOf(built, <<>>, R))}

\* The parent of a callback is the operation that it stands under, also when
\* one list of callbacks goes on several routes (checkCallbacks): messages name
\* the right route (label).
ParentsAreTrue ==
    \A s \in program : state[s] \in {"checked", "added"} =>
        \A n \in Below(s) : Len(n) > 1 => parents[Cell(n)] = Front(n)

\* Where the document shows an operation: under a path or the name of a webhook,
\* then under the name and the url of each callback on the way, by method.
Place(node) ==
    [i \in 1..Len(node) |->
        LET d == Declared[node[i].name]
        IN  <<d.kind, d.path, IF d.kind = "callback" THEN d.url ELSE d.path, d.method>>]

\* No operation of a document overwrites another in its object: routes that
\* come to one path by a later Adopt are found by the build (validateRecords),
\* a webhook or a callback by the registration (Webhook, checkCallbacks), and
\* callbacks that several operations share stay apart.
NoOperationOverwritten ==
    frozen => \A a, b \in Document : Place(a) = Place(b) => a = b
=============================================================================
