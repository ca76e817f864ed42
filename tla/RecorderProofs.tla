--------------------------- MODULE RecorderProofs ---------------------------
(***************************************************************************)
(* Theorems about the recorder and Verify for every mux, every number of   *)
(* clients and every interleaving.  The first part is about one request:   *)
(* the route that matchRoute finds for a path is the one that ServeMux ran,*)
(* although the two know nothing of each other.  The second part follows   *)
(* what the recorder has booked.                                           *)
(***************************************************************************)
EXTENDS Recorder, FiniteSetTheorems, WellFoundedInduction, TLAPS

(***************************************************************************)
(* The facts about match.go that RouteMatchProofs proves beside the loop:  *)
(* they speak of keys and templates alone, so the state of a loop is not   *)
(* needed to cite them.                                                    *)
(***************************************************************************)

Match == INSTANCE RouteMatchProofs
            WITH Documents <- {}, routes <- {}, request <- <<>>, method <- NoRoute,
                 todo <- {}, best <- NoRoute, done <- FALSE

LEMMA SameMatching ==
    /\ Match!RouteKeys = RouteKeys
    /\ \A key, best : Match!Beats(key, best) = Beats(key, best)
    /\ \A a, b : Match!Greater(a, b) = Greater(a, b)
    /\ \A t : Match!RankTemplate(t) = RankTemplate(t)
    /\ \A t, path : Match!TemplateMatches(t, path) = TemplateMatches(t, path)
    /\ \A keys, method, path : Match!Candidates(keys, method, path) = Candidates(keys, method, path)
    /\ \A keys, method, path : Match!BestRoute(keys, method, path) = BestRoute(keys, method, path)
BY DEF Match!RouteKeys, RouteKeys, Match!Beats, Beats, Match!Greater, Greater,
       Match!RankTemplate, RankTemplate, Match!RankOf, RankOf,
       Match!TemplateMatches, TemplateMatches, Match!IsCatchAll, IsCatchAll,
       Match!SegmentMatches, SegmentMatches, Match!Candidates, Candidates,
       Match!BestRoute, BestRoute

\* The assumptions under which RouteMatchProofs proves its facts.
LEMMA MatchAssumed ==
    /\ {"GET", "HEAD"} \subseteq Methods
    /\ Empty \in Values
    /\ \A t \in Templates :
        /\ t \in Seq(Match!Segments) /\ Len(t) > 0
        /\ \A i \in 1..(Len(t) - 1) : t[i].kind # "rest"
    /\ StringOrder \in [Templates -> Int]
    /\ \A t, u \in Templates : t # u => StringOrder[t] # StringOrder[u]
    /\ \A key \in Match!RouteKeys : key # NoRoute
    /\ Paths \subseteq Seq(Values)
    /\ {} \subseteq SUBSET Match!RouteKeys
BY RouteMatchingAssumption, RecorderAssumption
   DEF Match!Segments, Segments, Match!RouteKeys, RouteKeys

LEMMA LeastNumber ==
    ASSUME NEW T \in SUBSET Nat, T # {}
    PROVE  \E x \in T : \A y \in T : x <= y
BY Match!LeastNumber, MatchAssumed

LEMMA KeyTypes ==
    ASSUME NEW key \in RouteKeys
    PROVE  key[1] \in Methods /\ key[2] \in Templates /\ key # NoRoute
BY RouteMatchingAssumption DEF RouteKeys

LEMMA TemplateShape ==
    ASSUME NEW t \in Templates
    PROVE  /\ Len(t) \in Nat \ {0} /\ DOMAIN t = 1..Len(t)
           /\ t = [i \in 1..Len(t) |-> t[i]]
           /\ \A i \in 1..Len(t) : t[i] \in Segments
           /\ \A i \in 1..(Len(t) - 1) : t[i].kind # "rest"
BY RouteMatchingAssumption

LEMMA BeatsTransitive ==
    ASSUME NEW k \in RouteKeys, NEW l \in RouteKeys, NEW m \in RouteKeys, Beats(k, l), Beats(l, m)
    PROVE  Beats(k, m)
BY Match!BeatsTransitive, MatchAssumed, SameMatching

LEMMA BeatsIrreflexive ==
    ASSUME NEW k \in RouteKeys
    PROVE  ~Beats(k, k)
BY Match!BeatsIrreflexive, MatchAssumed, SameMatching

LEMMA UnbeatenIsBest ==
    ASSUME NEW keys \in SUBSET RouteKeys, NEW method, NEW path,
           NEW key \in Candidates(keys, method, path),
           \A other \in Candidates(keys, method, path) : ~Beats(other, key)
    PROVE  BestRoute(keys, method, path) = key
BY Match!UnbeatenIsBest, MatchAssumed, SameMatching

LEMMA NoCandidateNoRoute ==
    ASSUME NEW keys, NEW method, NEW path, Candidates(keys, method, path) = {}
    PROVE  BestRoute(keys, method, path) = NoRoute
BY DEF BestRoute

\* No template of a program under test mixes text and parameters in a segment,
\* so the narrower of two ranks higher without further hypotheses.
LEMMA NarrowerRanksHigher ==
    ASSUME NEW t \in Templates, NEW u \in Templates, NEW path \in Paths, TemplateMatches(t, path),
           \A p \in Paths : TemplateMatches(t, p) => TemplateMatches(u, p)
    PROVE  t = u \/ Greater(RankTemplate(t), RankTemplate(u))
<1>1. Match!MixedSegments = {}
  BY RecorderAssumption DEF Match!MixedSegments
<1>2. Match!MixedApart
  BY <1>1 DEF Match!MixedApart
<1>3. Match!AnyValueAnywhere(Paths) /\ Paths \in SUBSET Seq(Values)
  BY RecorderAssumption DEF AnyValueAnywhere, Match!AnyValueAnywhere
<1>4. Match!TemplateMatches(t, path) /\ \A p \in Paths : Match!TemplateMatches(t, p) => Match!TemplateMatches(u, p)
  BY SameMatching
<1>5. t = u \/ Match!Greater(Match!RankTemplate(t), Match!RankTemplate(u))
  BY <1>2, <1>3, <1>4, Match!NarrowerRanksHigher, MatchAssumed
<1>6. QED
  BY <1>5, SameMatching

(***************************************************************************)
(* The ServeMux.                                                           *)
(***************************************************************************)

Takes(e, method, path) == <<method, path>> \in Accepts[e]

LEMMA EntryTypes ==
    ASSUME setup \in Setups, NEW e \in mux
    PROVE  /\ e \in AllEntries /\ e # NoEntry
           /\ e.method \in Methods \cup {AnyMethod} /\ e.template \in Templates /\ e.kind \in Kinds
           /\ e = [method |-> e.method, template |-> e.template, kind |-> e.kind]
           /\ e.kind = "route" => e.method \in Methods
           /\ e.kind = "subtree" => e.method = AnyMethod
<1>1. setup.mux \subseteq MuxEntries
  BY RecorderAssumption DEF SetupsOf
<1>2. e \in AllEntries
  BY DEF AllEntries, mux
<1>3. e \in MuxEntries
  BY <1>1 DEF mux
<1>4. QED
  BY <1>2, <1>3, RecorderAssumption DEF MuxEntries

LEMMA TakesMeans ==
    ASSUME setup \in Setups, NEW e \in mux, NEW m \in Methods, NEW p \in Paths
    PROVE  Takes(e, m, p) <=>
            /\ TemplateMatches(e.template, p)
            /\ e.method \in {AnyMethod, m} \/ (e.method = "GET" /\ m = "HEAD")
BY EntryTypes DEF Takes, Accepts

LEMMA AcceptsDistinct ==
    ASSUME setup \in Setups, NEW e \in mux, NEW f \in mux, Accepts[e] = Accepts[f]
    PROVE  e = f
BY RecorderAssumption DEF mux

\* Two patterns that take one request are nested.
LEMMA Nested ==
    ASSUME setup \in Setups, NEW e \in mux, NEW f \in mux, NEW m, NEW p, Takes(e, m, p), Takes(f, m, p)
    PROVE  Accepts[e] \subseteq Accepts[f] \/ Accepts[f] \subseteq Accepts[e]
BY RecorderAssumption DEF mux, Conflict, Takes

\* ServeMux runs an entry that takes the request, the narrowest of them.
LEMMA DispatchNarrowest ==
    ASSUME setup \in Setups, NEW m, NEW p, NEW e \in mux, Takes(e, m, p)
    PROVE  /\ Dispatch(m, p) \in mux /\ Takes(Dispatch(m, p), m, p)
           /\ \A f \in mux : Takes(f, m, p) => Accepts[Dispatch(m, p)] \subseteq Accepts[f]
<1> DEFINE taking == {f \in mux : <<m, p>> \in Accepts[f]}
           below(f) == {g \in taking : Accepts[g] \subseteq Accepts[f]}
           sizes == {Cardinality(below(f)) : f \in taking}
<1>1. e \in taking
  BY DEF Takes
<1>2. IsFiniteSet(taking)
  <2>1. IsFiniteSet(mux)
    BY RecorderAssumption DEF mux
  <2>2. QED
    BY <2>1, FS_Subset
<1>3. \A f \in taking : IsFiniteSet(below(f)) /\ Cardinality(below(f)) \in Nat
  BY <1>2, FS_Subset, FS_CardinalityType
<1>4. PICK d \in taking : \A f \in taking : Cardinality(below(d)) <= Cardinality(below(f))
  <2>1. sizes \subseteq Nat /\ sizes # {}
    BY <1>1, <1>3
  <2>2. PICK x \in sizes : \A y \in sizes : x <= y
    BY <2>1, LeastNumber
  <2>3. QED
    BY <2>2
<1>5. \A f \in taking : Accepts[d] \subseteq Accepts[f]
  <2> SUFFICES ASSUME NEW f \in taking, ~(Accepts[d] \subseteq Accepts[f]) PROVE FALSE
    OBVIOUS
  <2>1. Accepts[f] \subseteq Accepts[d]
    BY Nested DEF Takes
  <2>2. below(f) \subseteq below(d) /\ d \in below(d) /\ d \notin below(f)
    BY <2>1
  <2>3. Cardinality(below(f)) <= Cardinality(below(d))
        /\ (Cardinality(below(d)) = Cardinality(below(f)) => below(d) = below(f))
    BY <1>3, <2>2, FS_Subset
  <2>4. below(d) # below(f)
    BY <2>2
  <2>5. Cardinality(below(f)) # Cardinality(below(d))
    BY <2>3, <2>4
  <2>6. Cardinality(below(f)) \in Nat /\ Cardinality(below(d)) \in Nat
    BY <1>3
  <2>7. Cardinality(below(d)) <= Cardinality(below(f))
    BY <1>4
  <2> HIDE DEF below
  <2>8. QED
    BY <2>3, <2>5, <2>6, <2>7
<1>6. taking # {}
  BY <1>1
<1> HIDE DEF taking
<1>7. Dispatch(m, p) \in taking /\ \A f \in taking : Accepts[Dispatch(m, p)] \subseteq Accepts[f]
  BY <1>4, <1>5, <1>6 DEF Dispatch, taking
<1>8. QED
  BY <1>7 DEF taking, Takes

\* What ServeMux runs, as far as it runs anything.
LEMMA Dispatched ==
    ASSUME setup \in Setups, NEW m, NEW p, Dispatch(m, p) # NoEntry
    PROVE  /\ Dispatch(m, p) \in mux /\ Takes(Dispatch(m, p), m, p)
           /\ \A f \in mux : Takes(f, m, p) => Accepts[Dispatch(m, p)] \subseteq Accepts[f]
<1>1. PICK e \in mux : Takes(e, m, p)
  BY DEF Dispatch, Takes
<1>2. QED
  BY <1>1, DispatchNarrowest

LEMMA NoEntryTakes ==
    ASSUME setup \in Setups, NEW m, NEW p, Dispatch(m, p) = NoEntry, NEW f \in mux
    PROVE  ~Takes(f, m, p)
<1> SUFFICES ASSUME Takes(f, m, p) PROVE FALSE
  OBVIOUS
<1>1. Dispatch(m, p) \in mux
  BY DispatchNarrowest
<1>2. QED
  BY <1>1, EntryTypes

(***************************************************************************)
(* matchRoute finds what ServeMux ran.                                     *)
(***************************************************************************)

LEMMA PathsAreSequences == Paths \subseteq Seq(Values) /\ AnyValueAnywhere(Paths)
BY RecorderAssumption

\* A key is not beaten by one whose template takes everything that its own does.
LEMMA NarrowerUnbeaten ==
    ASSUME NEW key \in RouteKeys, NEW k \in RouteKeys, key[1] = k[1],
           NEW path \in Paths, TemplateMatches(key[2], path),
           \A p \in Paths : TemplateMatches(key[2], p) => TemplateMatches(k[2], p)
    PROVE  ~Beats(k, key)
<1>1. key[2] = k[2] \/ Greater(RankTemplate(key[2]), RankTemplate(k[2]))
  BY KeyTypes, NarrowerRanksHigher
<1>2. CASE key[2] = k[2]
  <2>1. key = k
    BY <1>2 DEF RouteKeys
  <2>2. QED
    BY <2>1, BeatsIrreflexive
<1>3. CASE Greater(RankTemplate(key[2]), RankTemplate(k[2]))
  <2>1. Beats(key, k)
    BY <1>3 DEF Beats
  <2>2. QED
    BY <2>1, BeatsTransitive, BeatsIrreflexive
<1>4. QED
  BY <1>1, <1>2, <1>3

\* A path as a template of literals, as PathKey has it.
AsTemplate(path) == [i \in DOMAIN path |-> [kind |-> "literal", text |-> path[i]]]

LEMMA LiteralTemplate ==
    ASSUME NEW t \in Templates, \A i \in DOMAIN t : t[i].kind = "literal",
           NEW p \in Seq(Values), TemplateMatches(t, p)
    PROVE  t = AsTemplate(p)
<1>1. ~IsCatchAll(t)
  BY TemplateShape DEF IsCatchAll
<1>2. Len(p) = Len(t) /\ \A i \in 1..Len(t) : SegmentMatches(t[i], p[i])
  BY <1>1 DEF TemplateMatches
<1>3. DOMAIN p = 1..Len(t)
  BY <1>2
<1>4. ASSUME NEW i \in 1..Len(t) PROVE t[i] = [kind |-> "literal", text |-> p[i]]
  <2>1. t[i] \in Segments /\ t[i].kind = "literal" /\ t[i].text = p[i]
    BY <1>2, TemplateShape DEF SegmentMatches
  <2>2. QED
    BY <2>1 DEF Segments
<1>5. t = [i \in 1..Len(t) |-> t[i]]
  BY TemplateShape
<1>6. QED
  BY <1>3, <1>4, <1>5 DEF AsTemplate

LEMMA LiteralMatchesItself ==
    ASSUME NEW p \in Seq(Values), AsTemplate(p) \in Templates, NEW q \in Seq(Values)
    PROVE  TemplateMatches(AsTemplate(p), q) <=> p = q
<1> DEFINE t == AsTemplate(p)
<1>1. DOMAIN t = 1..Len(p) /\ DOMAIN p = 1..Len(p) /\ \A i \in 1..Len(p) : t[i] = [kind |-> "literal", text |-> p[i]]
  BY DEF AsTemplate
<1>2. Len(t) = Len(p)
  BY <1>1, TemplateShape
<1>3. t[Len(t)].kind = "literal"
  BY <1>1, <1>2, TemplateShape
<1>4. ~IsCatchAll(t)
  BY <1>3 DEF IsCatchAll
<1> HIDE DEF t
<1>5. TemplateMatches(t, q) <=> Len(q) = Len(p) /\ \A i \in 1..Len(p) : p[i] = q[i]
  BY <1>1, <1>2, <1>4 DEF TemplateMatches, SegmentMatches
<1>6. p = q <=> Len(q) = Len(p) /\ \A i \in 1..Len(p) : p[i] = q[i]
  OBVIOUS
<1>7. QED
  BY <1>5, <1>6 DEF t

\* The routes that requests for the document leave in Generator.served.
ServedDocument(m, p) ==
    /\ m \in Methods \cap {"GET", "HEAD"} /\ p \in Paths
    /\ Dispatch(m, p) # NoEntry /\ Dispatch(m, p).kind = "document"

FromRequests(keys) == \A key \in keys : \E m \in Methods, p \in Paths : ServedDocument(m, p) /\ key = PathKey(m, p)

LEMMA DocumentKey ==
    ASSUME setup \in Setups, NEW m \in Methods, NEW p \in Paths,
           Dispatch(m, p) # NoEntry, Dispatch(m, p).kind = "document"
    PROVE  /\ PathKey(m, p) = <<m, Dispatch(m, p).template>>
           /\ Dispatch(m, p).template = AsTemplate(p)
           /\ PathKey(m, p) \in RouteKeys /\ PathKey(m, p) # NoRoute
<1> DEFINE d == Dispatch(m, p)
<1>1. d \in mux /\ Takes(d, m, p)
  BY Dispatched
<1>2. d.template \in Templates /\ d \in AllEntries
  BY <1>1, EntryTypes
<1>3. \A i \in DOMAIN d.template : d.template[i].kind = "literal"
  BY <1>2, RecorderAssumption
<1>4. TemplateMatches(d.template, p)
  BY <1>1, TakesMeans
<1>5. d.template = AsTemplate(p)
  BY <1>2, <1>3, <1>4, LiteralTemplate, PathsAreSequences
<1>6. PathKey(m, p) = <<m, d.template>>
  BY <1>5 DEF PathKey, AsTemplate
<1>7. QED
  BY <1>2, <1>5, <1>6, KeyTypes DEF RouteKeys

LEMMA DocumentedTypes ==
    ASSUME setup \in Setups
    PROVE  Documented \subseteq RouteKeys
BY EntryTypes DEF Documented, RouteKeys

LEMMA KeysTypes ==
    ASSUME setup \in Setups, NEW K, FromRequests(K)
    PROVE  Documented \cup K \subseteq RouteKeys
BY DocumentedTypes, DocumentKey DEF FromRequests, ServedDocument

\* A key that matchRoute considers for a path is a documented route that takes
\* the path, or the document as that path and method fetched it.
LEMMA CandidateMeans ==
    ASSUME setup \in Setups, NEW K, FromRequests(K), NEW m \in Methods, NEW p \in Paths,
           NEW key \in Candidates(Documented \cup K, m, p)
    PROVE  \/ \E f \in mux : /\ f.kind = "route" /\ key = <<f.method, f.template>> /\ f.method = m
                             /\ TemplateMatches(f.template, p)
           \/ ServedDocument(m, p) /\ key = PathKey(m, p)
<1>1. key \in Documented \cup K /\ key[1] = m /\ TemplateMatches(key[2], p)
  BY DEF Candidates
<1>2. CASE key \in Documented
  BY <1>1, <1>2 DEF Documented
<1>3. CASE key \in K
  <2>1. PICK n \in Methods, q \in Paths : ServedDocument(n, q) /\ key = PathKey(n, q)
    BY <1>3 DEF FromRequests
  <2>2. n = m
    BY <1>1, <2>1 DEF PathKey
  <2>3. key[2] = AsTemplate(q) /\ AsTemplate(q) \in Templates
    BY <2>1, DocumentKey, KeyTypes DEF ServedDocument
  <2>4. q = p
    BY <1>1, <2>3, LiteralMatchesItself, PathsAreSequences
  <2>5. QED
    BY <2>1, <2>2, <2>4
<1>4. QED
  BY <1>1, <1>2, <1>3

LEMMA NarrowerTemplate ==
    ASSUME setup \in Setups, NEW e \in mux, NEW f \in mux, Accepts[e] \subseteq Accepts[f],
           NEW q \in Paths, TemplateMatches(e.template, q)
    PROVE  TemplateMatches(f.template, q)
<1>1. PICK n \in Methods : e.method \in {AnyMethod, n}
  BY EntryTypes, RouteMatchingAssumption
<1>2. Takes(e, n, q)
  BY <1>1, TakesMeans
<1>3. Takes(f, n, q)
  BY <1>2 DEF Takes
<1>4. QED
  BY <1>3, TakesMeans

LEMMA NarrowestIsBest ==
    ASSUME setup \in Setups, NEW K, FromRequests(K), NEW m \in Methods, NEW p \in Paths,
           NEW key \in Candidates(Documented \cup K, m, p),
           \A k \in Candidates(Documented \cup K, m, p) : \A q \in Paths :
                TemplateMatches(key[2], q) => TemplateMatches(k[2], q)
    PROVE  BestRoute(Documented \cup K, m, p) = key
<1>1. Documented \cup K \subseteq RouteKeys
  BY KeysTypes
<1>2. \A k \in Candidates(Documented \cup K, m, p) :
        k \in RouteKeys /\ k[1] = m /\ TemplateMatches(k[2], p)
  BY <1>1 DEF Candidates
<1>3. ASSUME NEW k \in Candidates(Documented \cup K, m, p) PROVE ~Beats(k, key)
  <2>1. k \in RouteKeys /\ k[1] = m
    BY <1>2
  <2>4. key \in RouteKeys /\ key[1] = m /\ TemplateMatches(key[2], p)
    BY <1>2
  <2>2. \A q \in Paths : TemplateMatches(key[2], q) => TemplateMatches(k[2], q)
    OBVIOUS
  <2>3. QED
    BY <2>1, <2>2, <2>4, NarrowerUnbeaten
<1>4. QED
  BY <1>1, <1>3, UnbeatenIsBest

\* Nothing but routes without a method takes every method.
LEMMA TakesAllMethods ==
    ASSUME setup \in Setups, NEW e \in mux, e.method = AnyMethod, NEW f \in mux,
           Accepts[e] \subseteq Accepts[f], NEW m \in Methods, NEW p \in Paths, Takes(e, m, p)
    PROVE  f.method = AnyMethod
<1>1. PICK n \in Methods : n \notin {"GET", "HEAD"}
  BY RecorderAssumption
<1>2. TemplateMatches(e.template, p)
  BY TakesMeans
<1>3. Takes(e, n, p) /\ Takes(e, "GET", p)
  BY <1>2, TakesMeans, RouteMatchingAssumption
<1>4. Takes(f, n, p) /\ Takes(f, "GET", p)
  BY <1>3 DEF Takes
<1>5. QED
  BY <1>1, <1>4, TakesMeans, RouteMatchingAssumption

\* A request that ServeMux gives to a documented route is that route's, also by
\* its path alone.
LEMMA RouteIsFound ==
    ASSUME setup \in Setups, NEW K, FromRequests(K), NEW m \in Methods, NEW p \in Paths,
           Dispatch(m, p) # NoEntry, Dispatch(m, p).kind = "route"
    PROVE  MatchRoute(Documented \cup K, m, p) = <<Dispatch(m, p).method, Dispatch(m, p).template>>
<1> DEFINE d == Dispatch(m, p)
           keys == Documented \cup K
           key == <<d.method, d.template>>
<1>1. d \in mux /\ Takes(d, m, p) /\ \A f \in mux : Takes(f, m, p) => Accepts[d] \subseteq Accepts[f]
  BY Dispatched
<1>2. d.method \in Methods /\ d.method # AnyMethod /\ d.template \in Templates
  BY <1>1, EntryTypes, RecorderAssumption
<1>3. TemplateMatches(d.template, p) /\ (d.method = m \/ (d.method = "GET" /\ m = "HEAD"))
  BY <1>1, <1>2, TakesMeans
<1>4. key \in Documented /\ key # NoRoute
  BY <1>1, <1>2, KeyTypes DEF Documented, RouteKeys
<1>5. ~ServedDocument(m, p)
  BY DEF ServedDocument
<1> HIDE DEF d
<1>6. ASSUME NEW f \in mux, Takes(f, m, p), NEW q \in Paths, TemplateMatches(d.template, q)
      PROVE  TemplateMatches(f.template, q)
  BY <1>1, <1>6, NarrowerTemplate
<1>7. CASE d.method = m
  <2>1. key \in Candidates(keys, m, p)
    BY <1>3, <1>4, <1>7 DEF Candidates
  <2>2. ASSUME NEW k \in Candidates(keys, m, p), NEW q \in Paths, TemplateMatches(key[2], q)
        PROVE  TemplateMatches(k[2], q)
    <3>1. PICK f \in mux : k = <<f.method, f.template>> /\ f.method = m /\ TemplateMatches(f.template, p)
      BY <1>5, CandidateMeans
    <3>2. Takes(f, m, p)
      BY <3>1, TakesMeans
    <3>3. QED
      BY <1>6, <2>2, <3>1, <3>2
  <2>3. BestRoute(keys, m, p) = key
    BY <2>1, <2>2, NarrowestIsBest
  <2>4. QED
    BY <1>4, <2>3 DEF MatchRoute, d
<1>8. CASE d.method = "GET" /\ m = "HEAD"
  <2>1. "GET" \in Methods
    BY RouteMatchingAssumption
  <2>2. Takes(d, "GET", p)
    BY <1>1, <1>3, <1>8, <2>1, TakesMeans
  <2>3. ASSUME NEW k \in Candidates(keys, "HEAD", p) PROVE FALSE
    <3>1. PICK f \in mux : f.method = "HEAD" /\ TemplateMatches(f.template, p)
      BY <1>5, <1>8, CandidateMeans
    <3>2. Takes(f, m, p)
      BY <1>8, <3>1, TakesMeans
    <3>3. Takes(f, "GET", p)
      BY <1>1, <2>2, <3>2 DEF Takes
    <3>4. QED
      BY <2>1, <3>1, <3>3, TakesMeans, RecorderAssumption, EntryTypes, RouteMatchingAssumption
  <2>4. BestRoute(keys, "HEAD", p) = NoRoute
    BY <2>3, NoCandidateNoRoute
  <2>5. ~ServedDocument("GET", p)
    <3> SUFFICES ASSUME ServedDocument("GET", p) PROVE FALSE
      OBVIOUS
    <3> DEFINE e == Dispatch("GET", p)
    <3>1. e \in mux /\ Takes(e, "GET", p) /\ Accepts[e] \subseteq Accepts[d] /\ e.kind = "document"
      BY <1>1, <2>2, Dispatched DEF ServedDocument
    <3>2. Takes(e, m, p)
      BY <1>8, <2>1, <3>1, TakesMeans
    <3>3. Accepts[e] = Accepts[d]
      BY <1>1, <3>1, <3>2
    <3>4. e = d
      BY <1>1, <3>1, <3>3, AcceptsDistinct
    <3>5. QED
      BY <3>1, <3>4 DEF d
  <2>6. key \in Candidates(keys, "GET", p)
    BY <1>3, <1>4, <1>8 DEF Candidates
  <2>7. ASSUME NEW k \in Candidates(keys, "GET", p), NEW q \in Paths, TemplateMatches(key[2], q)
        PROVE  TemplateMatches(k[2], q)
    <3>1. PICK f \in mux : k = <<f.method, f.template>> /\ f.method = "GET" /\ TemplateMatches(f.template, p)
      BY <2>1, <2>5, CandidateMeans
    <3>2. Takes(f, m, p)
      BY <1>8, <3>1, TakesMeans
    <3>3. QED
      BY <1>6, <2>7, <3>1, <3>2
  <2>8. BestRoute(keys, "GET", p) = key
    BY <2>1, <2>6, <2>7, NarrowestIsBest
  <2>9. QED
    BY <1>8, <2>4, <2>8 DEF MatchRoute, d
<1>9. QED
  BY <1>3, <1>7, <1>8

\* A request that ServeMux gives to no entry, or to a mount without a method, is
\* for no route.
LEMMA NothingIsFound ==
    ASSUME setup \in Setups, NEW K, FromRequests(K), NEW m \in Methods, NEW p \in Paths,
           Dispatch(m, p) = NoEntry \/ Dispatch(m, p).kind = "subtree"
    PROVE  MatchRoute(Documented \cup K, m, p) = NoRoute
<1> DEFINE keys == Documented \cup K
           d == Dispatch(m, p)
<1>1. ASSUME NEW f \in mux, f.kind = "route", Takes(f, m, p) PROVE FALSE
  <2>1. d # NoEntry
    BY <1>1, NoEntryTakes
  <2>2. d \in mux /\ Takes(d, m, p) /\ Accepts[d] \subseteq Accepts[f] /\ d.method = AnyMethod
    BY <1>1, <2>1, Dispatched, EntryTypes
  <2>3. f.method = AnyMethod
    BY <2>2, TakesAllMethods
  <2>4. QED
    BY <1>1, <2>3, EntryTypes, RecorderAssumption
<1>2. ASSUME NEW n \in Methods, n = m \/ (n = "GET" /\ m = "HEAD"), ServedDocument(n, p) PROVE FALSE
  <2> DEFINE e == Dispatch(n, p)
  <2>1. /\ e \in mux /\ Takes(e, n, p) /\ e.kind = "document"
        /\ \A f \in mux : Takes(f, n, p) => Accepts[e] \subseteq Accepts[f]
    BY <1>2, Dispatched DEF ServedDocument
  <2>2. Takes(e, m, p)
    BY <1>2, <2>1, TakesMeans
  <2>3. d # NoEntry
    BY <2>1, <2>2, NoEntryTakes
  <2>4. d \in mux /\ Takes(d, m, p) /\ Accepts[d] \subseteq Accepts[e] /\ d.kind = "subtree" /\ d.method = AnyMethod
    BY <2>1, <2>2, <2>3, Dispatched, EntryTypes
  <2>5. Takes(d, n, p)
    BY <2>4, TakesMeans
  <2>6. Accepts[d] = Accepts[e]
    BY <2>1, <2>4, <2>5
  <2>7. QED
    BY <2>1, <2>4, <2>6, AcceptsDistinct
<1> HIDE DEF d
<1>3. ASSUME NEW n \in Methods, n = m \/ (n = "GET" /\ m = "HEAD") PROVE BestRoute(keys, n, p) = NoRoute
  <2>1. ASSUME NEW k \in Candidates(keys, n, p) PROVE FALSE
    <3>1. PICK f \in mux : f.kind = "route" /\ f.method = n /\ TemplateMatches(f.template, p)
      BY <1>2, <1>3, CandidateMeans
    <3>2. Takes(f, m, p)
      BY <1>3, <3>1, TakesMeans
    <3>3. QED
      BY <1>1, <3>1, <3>2
  <2>2. QED
    BY <2>1, NoCandidateNoRoute
<1>4. BestRoute(keys, m, p) = NoRoute
  BY <1>3
<1>5. m = "HEAD" => BestRoute(keys, "GET", p) = NoRoute
  BY <1>3, RouteMatchingAssumption
<1>6. QED
  BY <1>4, <1>5 DEF MatchRoute

\* A request for the document finds the path of the document, once it counts.
LEMMA DocumentIsFound ==
    ASSUME setup \in Setups, NEW K, FromRequests(K), NEW m \in Methods, NEW p \in Paths,
           Dispatch(m, p) # NoEntry, Dispatch(m, p).kind = "document", PathKey(m, p) \in K
    PROVE  MatchRoute(Documented \cup K, m, p) = PathKey(m, p)
<1> DEFINE key == PathKey(m, p)
           keys == Documented \cup K
<1>1. key[1] = m /\ key[2] = AsTemplate(p) /\ key \in RouteKeys /\ key # NoRoute
  BY DocumentKey
<1>2. AsTemplate(p) \in Templates
  BY <1>1, KeyTypes
<1>3. \A q \in Paths : TemplateMatches(key[2], q) <=> p = q
  BY <1>1, <1>2, LiteralMatchesItself, PathsAreSequences
<1> HIDE DEF key
<1>4. key \in Candidates(keys, m, p)
  BY <1>1, <1>3 DEF Candidates, key
<1>5. ASSUME NEW k \in Candidates(keys, m, p), NEW q \in Paths, TemplateMatches(key[2], q)
      PROVE  TemplateMatches(k[2], q)
  BY <1>3, <1>5 DEF Candidates
<1>6. BestRoute(keys, m, p) = key
  BY <1>4, <1>5, NarrowestIsBest
<1>7. QED
  BY <1>1, <1>6 DEF MatchRoute, key

(***************************************************************************)
(* What the recorder has booked.                                           *)
(***************************************************************************)

\* The route that a request for entry e with method m produces a code for.
KeyFor(e, m) == <<IF e.method = AnyMethod THEN m ELSE e.method, e.template>>

\* The document answers 200 once its path counts as served, or 405.
DocumentStatus(m, p, status) ==
    \/ status = 200 /\ ServedDocument(m, p) /\ PathKey(m, p) \in served
    \/ status = 405
    \/ "document" \in Guarded

\* Request (m, p) produced the pair b.
FromRequest(b, m, p) ==
    /\ HasPattern(Dispatch(m, p))
    /\ b[1] = KeyFor(Dispatch(m, p), m)
    /\ Dispatch(m, p).kind = "document" => DocumentStatus(m, p, b[2])

\* What a client holds between its answer and Record.
AnswerInv(a) ==
    /\ a.method \in Methods /\ a.path \in Paths /\ a.outcome \in Answers
    /\ a.outcome.toggles => a.outcome.status \in {301, 307, 308}
    /\ a.target = Dispatch(a.method, a.path)
    /\ a.seen # NoEntry => a.seen = a.target /\ "none" \in setup.middleware
    /\ a.seen = NoEntry /\ a.target # NoEntry => setup.middleware # {"none"}
    /\ a.target # NoEntry /\ a.target.kind = "document" =>
        \/ a.outcome = Plain(0) /\ ServedDocument(a.method, a.path) /\ PathKey(a.method, a.path) \in served
        \/ a.outcome = Plain(405)
        \/ "document" \in Guarded

\* A booked code was produced by a request whose pattern the recorder saw.
CodeInv(b) ==
    /\ b \in produced /\ ~Skipped(b[1]) /\ "none" \in setup.middleware
    /\ \E m \in Methods, p \in Paths : FromRequest(b, m, p)

\* What a miss is evidence of.
Evidence(m) == <<KeyFor(Dispatch(m.method, m.path), m.method), m.status>>

Counts(m) == HasPattern(Dispatch(m.method, m.path)) /\ m.status \notin {404, 405}

\* A miss is for no route, or the pattern of its route was hidden.
MissInv(m) ==
    /\ m.method \in Methods /\ m.path \in Paths
    /\ HasPattern(Dispatch(m.method, m.path)) => setup.middleware # {"none"}
    /\ Counts(m) => Evidence(m) \in produced /\ FromRequest(Evidence(m), m.method, m.path)

\* Nothing that a route produced is lost.
KeptInv(b) == Skipped(b[1]) \/ b \in codes \/ \E m \in misses : Counts(m) /\ b = Evidence(m)

\* A Verify that no request overlapped saw all there is.
VerifyInv ==
    /\ known \subseteq served /\ before \subseteq produced
    /\ verify = "comparing" /\ ~overlap => before = produced /\ known = served

RecorderInv ==
    /\ setup \in Setups
    /\ pc \in [Clients -> {"idle", "answered"}] /\ DOMAIN answer = Clients
    /\ \A c \in Clients : pc[c] = "answered" => AnswerInv(answer[c])
    /\ FromRequests(served)
    /\ \A b \in codes : CodeInv(b)
    /\ \A m \in misses : MissInv(m)
    /\ \A b \in produced : KeptInv(b)
    /\ VerifyInv

LEMMA RecorderInit == Init => RecorderInv
<1> SUFFICES ASSUME Init PROVE RecorderInv
  OBVIOUS
<1>1. \A c \in Clients : pc[c] # "answered"
  BY DEF Init
<1>2. QED
  BY <1>1 DEF Init, RecorderInv, VerifyInv, FromRequests

\* The mux does not change.
LEMMA SameDispatch ==
    ASSUME setup' = setup
    PROVE  \A m, p : Dispatch(m, p)' = Dispatch(m, p)
BY DEF Dispatch, mux

\* What is booked stays true while served and the books grow.
LEMMA BooksStand ==
    ASSUME RecorderInv, setup' = setup, served \subseteq served',
           codes \subseteq codes', misses \subseteq misses', produced \subseteq produced'
    PROVE  /\ \A b \in codes : CodeInv(b)'
           /\ \A m \in misses : MissInv(m)'
           /\ \A b \in produced : KeptInv(b)'
<1>1. \A m, p : ServedDocument(m, p)' <=> ServedDocument(m, p)
  BY SameDispatch DEF ServedDocument
<1>2. \A b, m, p : FromRequest(b, m, p) => FromRequest(b, m, p)'
  BY <1>1, SameDispatch DEF FromRequest, DocumentStatus
<1>3. \A b \in codes : CodeInv(b)'
  BY <1>2 DEF RecorderInv, CodeInv
<1>4. \A m : (Evidence(m)' = Evidence(m)) /\ (Counts(m)' <=> Counts(m))
  BY SameDispatch DEF Evidence, Counts
<1>5. \A m \in misses : MissInv(m)'
  BY <1>2, <1>4, SameDispatch DEF RecorderInv, MissInv
<1>6. \A b \in produced : KeptInv(b)'
  BY <1>4 DEF RecorderInv, KeptInv
<1>7. QED
  BY <1>3, <1>5, <1>6

LEMMA AnswersStand ==
    ASSUME setup' = setup, served \subseteq served', NEW a, AnswerInv(a)
    PROVE  AnswerInv(a)'
<1>1. ServedDocument(a.method, a.path)' <=> ServedDocument(a.method, a.path)
  BY SameDispatch DEF ServedDocument
<1>2. QED
  BY <1>1, SameDispatch DEF AnswerInv

LEMMA ServedStands ==
    ASSUME setup' = setup, NEW K, FromRequests(K)
    PROVE  FromRequests(K)'
BY SameDispatch DEF FromRequests, ServedDocument

(***************************************************************************)
(* The steps of requests.                                                  *)
(***************************************************************************)

\* An answer is booked later; until then it only counts as an overlap.
LEMMA AnsweredKeeps ==
    ASSUME RecorderInv, NEW c \in Clients, NEW m, NEW p, NEW target, NEW seen, NEW outcome,
           Answered(c, m, p, target, seen, outcome),
           served \subseteq served', FromRequests(served)',
           AnswerInv([method |-> m, path |-> p, target |-> target, seen |-> seen, outcome |-> outcome])'
    PROVE  RecorderInv'
<1> DEFINE a == [method |-> m, path |-> p, target |-> target, seen |-> seen, outcome |-> outcome]
<1>1. /\ pc' = [pc EXCEPT ![c] = "answered"] /\ answer' = [answer EXCEPT ![c] = a]
      /\ overlap' = (overlap \/ verify # "idle")
      /\ setup' = setup /\ UNCHANGED books /\ verify' = verify /\ known' = known /\ before' = before
      /\ produced' = produced
  BY DEF Answered, verifying, books
<1>2. setup' \in Setups /\ pc' \in [Clients -> {"idle", "answered"}] /\ DOMAIN answer' = Clients
  BY <1>1 DEF RecorderInv
<1>3. ASSUME NEW d \in Clients, pc'[d] = "answered" PROVE AnswerInv(answer[d])'
  <2>1. CASE d = c
    <3>1. answer'[d] = a
      BY <1>1, <2>1 DEF RecorderInv
    <3>2. AnswerInv(a)'
      OBVIOUS
    <3>3. QED
      BY <3>1, <3>2 DEF AnswerInv
  <2>2. CASE d # c
    <3>1. PICK b : b = answer[d]
      OBVIOUS
    <3>2. answer'[d] = b /\ pc[d] = "answered"
      BY <1>1, <1>3, <2>2, <3>1 DEF RecorderInv
    <3>3. AnswerInv(b)
      BY <3>1, <3>2 DEF RecorderInv
    <3>4. AnswerInv(b)'
      BY <1>1, <3>3, AnswersStand
    <3>5. QED
      BY <3>2, <3>4 DEF AnswerInv
  <2>3. QED
    BY <2>1, <2>2
<1>4. /\ \A b \in codes' : CodeInv(b)'
      /\ \A n \in misses' : MissInv(n)'
      /\ \A b \in produced' : KeptInv(b)'
  BY <1>1, BooksStand DEF books
<1>5. VerifyInv'
  BY <1>1 DEF RecorderInv, VerifyInv
<1>6. QED
  BY <1>2, <1>3, <1>4, <1>5 DEF RecorderInv

LEMMA MiddlewareKeeps ==
    ASSUME RecorderInv, NEW c \in Clients, NEW m \in Methods, NEW p \in Paths, MiddlewareAnswers(c, m, p)
    PROVE  RecorderInv'
<1>1. PICK target : target = Dispatch(m, p)
  OBVIOUS
<1>2. PICK status \in {401, 404} : Answered(c, m, p, target, NoEntry, Plain(status))
  BY <1>1 DEF MiddlewareAnswers
<1> DEFINE a == [method |-> m, path |-> p, target |-> target, seen |-> NoEntry, outcome |-> Plain(status)]
<1>3. setup' = setup /\ served' = served /\ setup.middleware # {"none"}
  BY <1>2 DEF MiddlewareAnswers, Answered
<1>4. target # NoEntry => target.kind \in Guarded
  BY <1>1 DEF MiddlewareAnswers
<1>5. Plain(status) \in Answers /\ ~Plain(status).toggles
  BY DEF Plain, Answers
<1>6. AnswerInv(a)
  BY <1>1, <1>3, <1>4, <1>5 DEF AnswerInv
<1> HIDE DEF a
<1>7. AnswerInv(a)'
  BY <1>3, <1>6, AnswersStand
<1>8. FromRequests(served)'
  BY <1>3, ServedStands DEF RecorderInv, FromRequests
<1>9. QED
  BY <1>2, <1>3, <1>7, <1>8, AnsweredKeeps DEF a

LEMMA HandlerKeeps ==
    ASSUME RecorderInv, NEW c \in Clients, NEW m \in Methods, NEW p \in Paths,
           NEW middleware, middleware \in setup.middleware \ {"answers"},
           HandlerAnswers(c, m, p, middleware)
    PROVE  RecorderInv'
<1>1. PICK target : target = Dispatch(m, p)
  OBVIOUS
<1>2. PICK seen : seen = Seen(target, middleware)
  OBVIOUS
<1>3. PICK o \in setup.outcomes : Answered(c, m, p, target, seen, o)
  BY <1>1, <1>2 DEF HandlerAnswers
<1> DEFINE a == [method |-> m, path |-> p, target |-> target, seen |-> seen, outcome |-> o]
<1>4. setup' = setup /\ served' = served
  BY <1>3 DEF HandlerAnswers, Answered
<1>5. target # NoEntry /\ target.kind # "document"
  BY <1>1 DEF HandlerAnswers
<1>6. setup.outcomes \subseteq Answers /\ (\A x \in setup.outcomes : x.toggles => x.status \in {301, 307, 308})
      /\ setup.middleware \subseteq {"none", "copies", "answers"}
  BY RecorderAssumption DEF RecorderInv, SetupsOf
<1>7. /\ seen # NoEntry => seen = target /\ "none" \in setup.middleware
      /\ seen = NoEntry => setup.middleware # {"none"}
  BY <1>2, <1>5, <1>6 DEF Seen
<1>8. AnswerInv(a)
  BY <1>1, <1>5, <1>6, <1>7 DEF AnswerInv
<1> HIDE DEF a
<1>9. AnswerInv(a)'
  BY <1>4, <1>8, AnswersStand
<1>10. FromRequests(served)'
  BY <1>4, ServedStands DEF RecorderInv, FromRequests
<1>11. QED
  BY <1>3, <1>4, <1>9, <1>10, AnsweredKeeps DEF a

\* The document marks its path before the client has its answer.
LEMMA DocumentKeeps ==
    ASSUME RecorderInv, NEW c \in Clients, NEW m \in Methods, NEW p \in Paths,
           NEW middleware, middleware \in setup.middleware \ {"answers"},
           DocumentAnswers(c, m, p, middleware)
    PROVE  RecorderInv'
<1>1. PICK target : target = Dispatch(m, p)
  OBVIOUS
<1>2. PICK seen : seen = Seen(target, middleware)
  OBVIOUS
<1>3. target # NoEntry /\ target.kind = "document"
  BY <1>1 DEF DocumentAnswers
<1>4. setup.middleware \subseteq {"none", "copies", "answers"}
  BY RecorderAssumption DEF RecorderInv, SetupsOf
<1>5. /\ seen # NoEntry => seen = target /\ "none" \in setup.middleware
      /\ seen = NoEntry => setup.middleware # {"none"}
  BY <1>2, <1>3, <1>4 DEF Seen
<1>6. Plain(0) \in Answers /\ ~Plain(0).toggles /\ Plain(405) \in Answers /\ ~Plain(405).toggles
  BY DEF Plain, Answers
<1>7. CASE m \in {"GET", "HEAD"}
  <2>1. Answered(c, m, p, target, seen, Plain(0)) /\ served' = served \cup {PathKey(m, p)}
    BY <1>1, <1>2, <1>7 DEF DocumentAnswers
  <2>2. setup' = setup
    BY <2>1 DEF Answered
  <2>3. ServedDocument(m, p) /\ ServedDocument(m, p)'
    BY <1>1, <1>3, <1>7, <2>2, SameDispatch DEF ServedDocument
  <2>4. FromRequests(served)'
    <3>1. ASSUME NEW k \in served PROVE (\E n \in Methods, q \in Paths : ServedDocument(n, q) /\ k = PathKey(n, q))'
      <4>1. PICK n \in Methods, q \in Paths : ServedDocument(n, q) /\ k = PathKey(n, q)
        BY DEF RecorderInv, FromRequests
      <4>2. ServedDocument(n, q)'
        BY <2>2, <4>1, SameDispatch DEF ServedDocument
      <4>3. QED
        BY <4>1, <4>2 DEF PathKey
    <3>2. QED
      BY <2>1, <2>3, <3>1 DEF FromRequests, PathKey
  <2> DEFINE a == [method |-> m, path |-> p, target |-> target, seen |-> seen, outcome |-> Plain(0)]
  <2>5. AnswerInv(a)'
    BY <1>1, <1>3, <1>5, <1>6, <2>1, <2>2, <2>3, SameDispatch DEF AnswerInv, PathKey
  <2>6. QED
    BY <2>1, <2>4, <2>5, AnsweredKeeps
<1>8. CASE m \notin {"GET", "HEAD"}
  <2>1. Answered(c, m, p, target, seen, Plain(405)) /\ served' = served
    BY <1>1, <1>2, <1>8 DEF DocumentAnswers
  <2>2. setup' = setup
    BY <2>1 DEF Answered
  <2> DEFINE a == [method |-> m, path |-> p, target |-> target, seen |-> seen, outcome |-> Plain(405)]
  <2>3. AnswerInv(a)'
    BY <1>1, <1>3, <1>5, <1>6, <2>2, SameDispatch DEF AnswerInv
  <2>4. FromRequests(served)'
    BY <2>1, <2>2, ServedStands DEF RecorderInv, FromRequests
  <2>5. QED
    BY <2>1, <2>3, <2>4, AnsweredKeeps
<1>9. QED
  BY <1>7, <1>8

LEMMA RouterKeeps ==
    ASSUME RecorderInv, NEW c \in Clients, NEW m \in Methods, NEW p \in Paths, RouterAnswers(c, m, p)
    PROVE  RecorderInv'
<1> DEFINE slashed == Dispatch(m, Append(p, Empty))
           otherMethod == \E n \in Methods : Dispatch(n, p) # NoEntry
<1>1. PICK o : o = IF slashed # NoEntry /\ IsCatchAll(slashed.template)
                   THEN [Plain(307) EXCEPT !.toggles = TRUE]
                   ELSE Plain(IF otherMethod THEN 405 ELSE 404)
  OBVIOUS
<1>2. Answered(c, m, p, NoEntry, NoEntry, o) /\ served' = served /\ Dispatch(m, p) = NoEntry
  BY <1>1 DEF RouterAnswers
<1>3. setup' = setup
  BY <1>2 DEF Answered
<1>4. o \in Answers /\ (o.toggles => o.status \in {301, 307, 308})
  <2>1. CASE slashed # NoEntry /\ IsCatchAll(slashed.template)
    <3>1. o = [status |-> 307, hijacked |-> FALSE, upgrade |-> FALSE, toggles |-> TRUE]
      BY <1>1, <2>1 DEF Plain
    <3>2. QED
      BY <3>1 DEF Answers
  <2>2. CASE ~(slashed # NoEntry /\ IsCatchAll(slashed.template))
    <3>1. o = Plain(405) \/ o = Plain(404)
      BY <1>1, <2>2
    <3>2. Plain(405) \in Answers /\ ~Plain(405).toggles /\ Plain(404) \in Answers /\ ~Plain(404).toggles
      BY DEF Plain, Answers
    <3>3. QED
      BY <3>1, <3>2
  <2>3. QED
    BY <2>1, <2>2
<1> DEFINE a == [method |-> m, path |-> p, target |-> NoEntry, seen |-> NoEntry, outcome |-> o]
<1>5. AnswerInv(a)
  BY <1>2, <1>4 DEF AnswerInv
<1> HIDE DEF a
<1>6. AnswerInv(a)'
  BY <1>2, <1>3, <1>5, AnswersStand
<1>7. FromRequests(served)'
  BY <1>2, <1>3, ServedStands DEF RecorderInv, FromRequests
<1>8. QED
  BY <1>2, <1>6, <1>7, AnsweredKeeps DEF a

(***************************************************************************)
(* The step that books an answer.                                          *)
(***************************************************************************)

\* The recorder names a route as the generator does.
LEMMA ServedRouteIsKey ==
    ASSUME setup \in Setups, NEW m \in Methods, NEW p \in Paths, Dispatch(m, p) # NoEntry
    PROVE  ServedRoute(Dispatch(m, p), m) = KeyFor(Dispatch(m, p), m)
<1> DEFINE d == Dispatch(m, p)
<1>1. d \in mux /\ Takes(d, m, p)
  BY Dispatched
<1>2. d.method \in {AnyMethod, m} \/ (d.method = "GET" /\ m = "HEAD")
  BY <1>1, TakesMeans
<1>3. AnyMethod # "GET" /\ "HEAD" # "GET"
  BY RecorderAssumption, RouteMatchingAssumption
<1>4. QED
  BY <1>2, <1>3 DEF ServedRoute, KeyFor

LEMMA AnswerFacts ==
    ASSUME RecorderInv, NEW a, AnswerInv(a)
    PROVE  /\ a.outcome.status \in Nat /\ StatusOf(a.outcome) \in Nat
           /\ RouterRedirect(a.outcome) <=> a.outcome.toggles
           /\ HasPattern(a.target) /\ ~HasPattern(a.seen) => a.seen = NoEntry
           /\ HasPattern(a.target) => /\ Production(a) = <<KeyFor(a.target, a.method), OrOK(StatusOf(a.outcome))>>
                                      /\ FromRequest(Production(a), a.method, a.path)
<1>1. a.outcome.status \in Nat /\ StatusOf(a.outcome) \in Nat
  BY DEF AnswerInv, Answers, StatusOf
<1>2. RouterRedirect(a.outcome) <=> a.outcome.toggles
  BY DEF AnswerInv, Answers, RouterRedirect
<1>3. HasPattern(a.target) /\ ~HasPattern(a.seen) => a.seen = NoEntry
  BY DEF AnswerInv
<1>4. Production(a) = <<KeyFor(a.target, a.method), OrOK(StatusOf(a.outcome))>>
  BY DEF Production, KeyFor
<1>5. a.target # NoEntry /\ a.target.kind = "document"
        => DocumentStatus(a.method, a.path, OrOK(StatusOf(a.outcome)))
  BY DEF AnswerInv, DocumentStatus, OrOK, StatusOf, Plain
<1>6. HasPattern(a.target) => FromRequest(Production(a), a.method, a.path)
  BY <1>4, <1>5 DEF FromRequest, HasPattern, AnswerInv
<1>7. QED
  BY <1>1, <1>2, <1>3, <1>4, <1>6

LEMMA RecordKeeps ==
    ASSUME RecorderInv, NEW c \in Clients, Record(c)
    PROVE  RecorderInv'
<1>1. PICK a : a = answer[c]
  OBVIOUS
<1>2. AnswerInv(a)
  BY <1>1 DEF Record, RecorderInv
<1> DEFINE status == OrOK(StatusOf(a.outcome))
           miss == [method |-> a.method, path |-> a.path, status |-> status]
<1>3. /\ setup' = setup /\ served' = served /\ verify' = verify /\ known' = known /\ before' = before
      /\ pc' = [pc EXCEPT ![c] = "idle"] /\ answer' = [answer EXCEPT ![c] = NoEntry]
      /\ overlap' = (overlap \/ verify # "idle")
  BY DEF Record, verifying
<1>4. produced' = IF Produces(a) THEN produced \cup {Production(a)} ELSE produced
  BY <1>1 DEF Record
<1>5. IF RouterRedirect(a.outcome) \/ ~HasStatus(a.outcome)
      THEN codes' = codes /\ misses' = misses
      ELSE IF HasPattern(a.seen)
      THEN codes' = Observe(codes, ServedRoute(a.seen, a.method), StatusOf(a.outcome)) /\ misses' = misses
      ELSE misses' = misses \cup {miss} /\ codes' = codes
  BY <1>1 DEF Record
<1>6. codes \subseteq codes' /\ misses \subseteq misses' /\ produced \subseteq produced'
  BY <1>4, <1>5 DEF Observe
<1>7. /\ \A b \in codes : CodeInv(b)'
      /\ \A m \in misses : MissInv(m)'
      /\ \A b \in produced : KeptInv(b)'
  BY <1>3, <1>6, BooksStand
<1>8. a.method \in Methods /\ a.path \in Paths /\ a.target = Dispatch(a.method, a.path)
  BY <1>2 DEF AnswerInv
<1>9. HasPattern(a.target) => FromRequest(Production(a), a.method, a.path)'
  <2>1. HasPattern(a.target) => FromRequest(Production(a), a.method, a.path)
    BY <1>2, AnswerFacts
  <2>2. QED
    BY <1>3, <2>1 DEF FromRequest, DocumentStatus, ServedDocument, Dispatch, mux
<1>10. (Evidence(miss)' = Evidence(miss)) /\ (Counts(miss)' <=> Counts(miss))
  BY <1>3, SameDispatch DEF Evidence, Counts
<1>11. HasPattern(a.target) => Production(a) = Evidence(miss)
  BY <1>2, <1>8, AnswerFacts DEF Evidence
<1>12. ASSUME NEW b \in codes', b \notin codes PROVE CodeInv(b)'
  <2>1. ~RouterRedirect(a.outcome) /\ HasStatus(a.outcome) /\ HasPattern(a.seen)
    BY <1>5, <1>12
  <2>2. a.seen = a.target /\ a.seen # NoEntry /\ "none" \in setup.middleware
    BY <1>2, <2>1 DEF AnswerInv, HasPattern
  <2>3. ServedRoute(a.seen, a.method) = KeyFor(a.target, a.method)
    BY <1>8, <2>2, ServedRouteIsKey DEF RecorderInv
  <2>4. b = Production(a) /\ ~Skipped(b[1])
    BY <1>2, <1>5, <1>12, <2>1, <2>2, <2>3, AnswerFacts DEF Observe
  <2>5. Produces(a)
    BY <1>2, <2>1, <2>2, AnswerFacts DEF Produces
  <2>6. b \in produced'
    BY <1>4, <2>4, <2>5
  <2>7. QED
    BY <1>3, <1>8, <1>9, <2>1, <2>2, <2>4, <2>6 DEF CodeInv
<1>13. ASSUME NEW m \in misses', m \notin misses PROVE MissInv(m)'
  <2>1. m = miss /\ ~RouterRedirect(a.outcome) /\ HasStatus(a.outcome) /\ ~HasPattern(a.seen)
    BY <1>5, <1>13
  <2>2. HasPattern(a.target) => a.seen = NoEntry /\ setup.middleware # {"none"}
    BY <1>2, <2>1, AnswerFacts DEF AnswerInv, HasPattern
  <2>3. ASSUME Counts(miss) PROVE Evidence(miss) \in produced' /\ FromRequest(Evidence(miss), a.method, a.path)'
    <3>1. HasPattern(a.target) /\ status \notin {404, 405}
      BY <1>8, <2>3 DEF Counts
    <3>2. StatusOf(a.outcome) \notin {404, 405}
      BY <3>1 DEF OrOK
    <3>3. Produces(a)
      BY <1>2, <2>1, <3>1, <3>2, AnswerFacts DEF Produces
    <3>4. QED
      BY <1>4, <1>9, <1>10, <1>11, <3>1, <3>3 DEF FromRequest
  <2>4. HasPattern(Dispatch(a.method, a.path))' => (setup.middleware # {"none"})'
    BY <1>3, <1>8, <2>2, SameDispatch
  <2>5. QED
    BY <1>8, <1>10, <2>1, <2>3, <2>4 DEF MissInv
<1>14. ASSUME NEW b \in produced', b \notin produced PROVE KeptInv(b)'
  <2>1. b = Production(a) /\ Produces(a)
    BY <1>4, <1>14
  <2>2. HasPattern(a.target) /\ ~RouterRedirect(a.outcome) /\ HasStatus(a.outcome)
    BY <1>2, <2>1, AnswerFacts DEF Produces
  <2>3. CASE HasPattern(a.seen)
    <3>1. a.seen = a.target
      BY <1>2, <2>3 DEF AnswerInv, HasPattern
    <3>2. ServedRoute(a.seen, a.method) = KeyFor(a.target, a.method)
      BY <1>8, <2>3, <3>1, ServedRouteIsKey DEF RecorderInv, HasPattern
    <3>3. Skipped(b[1]) \/ b \in codes'
      BY <1>2, <1>5, <2>1, <2>2, <2>3, <3>2, AnswerFacts DEF Observe
    <3>4. QED
      BY <3>3 DEF KeptInv
  <2>4. CASE ~HasPattern(a.seen)
    <3>1. a.seen = NoEntry
      BY <1>2, <2>2, <2>4, AnswerFacts
    <3>2. status \notin {404, 405}
      BY <2>1, <3>1 DEF Produces, OrOK
    <3>3. Counts(miss)
      BY <1>8, <2>2, <3>2 DEF Counts
    <3>4. miss \in misses' /\ b = Evidence(miss)
      BY <1>5, <1>11, <2>1, <2>2, <2>4
    <3>5. QED
      BY <1>10, <3>3, <3>4 DEF KeptInv
  <2>5. QED
    BY <2>3, <2>4
<1>15. ASSUME NEW d \in Clients, pc'[d] = "answered" PROVE AnswerInv(answer[d])'
  <2>1. d # c /\ pc[d] = "answered"
    BY <1>3, <1>15 DEF RecorderInv
  <2>2. PICK b : b = answer[d]
    OBVIOUS
  <2>3. AnswerInv(b) /\ answer'[d] = b
    BY <1>3, <2>1, <2>2 DEF RecorderInv
  <2>4. AnswerInv(b)'
    BY <1>3, <2>3, AnswersStand
  <2>5. QED
    BY <2>3, <2>4 DEF AnswerInv
<1>16. FromRequests(served)'
  BY <1>3, ServedStands DEF RecorderInv, FromRequests
<1>17. VerifyInv'
  BY <1>3, <1>6 DEF RecorderInv, VerifyInv
<1>18. setup' \in Setups /\ pc' \in [Clients -> {"idle", "answered"}] /\ DOMAIN answer' = Clients
  BY <1>3 DEF RecorderInv
<1>19. QED
  BY <1>7, <1>12, <1>13, <1>14, <1>15, <1>16, <1>17, <1>18 DEF RecorderInv

(***************************************************************************)
(* The steps of Verify, and all steps.                                     *)
(***************************************************************************)

LEMMA VerifyKeeps ==
    ASSUME RecorderInv, UNCHANGED <<setup, served, books, pc, answer>>, VerifyInv'
    PROVE  RecorderInv'
<1>1. setup' = setup /\ served' = served /\ pc' = pc /\ answer' = answer
      /\ codes' = codes /\ misses' = misses /\ produced' = produced
  BY DEF books
<1>2. /\ \A b \in codes' : CodeInv(b)'
      /\ \A m \in misses' : MissInv(m)'
      /\ \A b \in produced' : KeptInv(b)'
  BY <1>1, BooksStand
<1>3. ASSUME NEW c \in Clients, pc'[c] = "answered" PROVE AnswerInv(answer[c])'
  <2>1. PICK a : a = answer[c]
    OBVIOUS
  <2>2. AnswerInv(a)
    BY <1>1, <1>3, <2>1 DEF RecorderInv
  <2>3. AnswerInv(a)'
    BY <1>1, <2>2, AnswersStand
  <2>4. QED
    BY <1>1, <2>1, <2>3 DEF AnswerInv
<1>4. FromRequests(served)'
  BY <1>1, ServedStands DEF RecorderInv, FromRequests
<1>5. setup' \in Setups /\ pc' \in [Clients -> {"idle", "answered"}] /\ DOMAIN answer' = Clients
  BY <1>1 DEF RecorderInv
<1>6. QED
  BY <1>2, <1>3, <1>4, <1>5 DEF RecorderInv

LEMMA RecorderNext == RecorderInv /\ [Next]_vars => RecorderInv'
<1> SUFFICES ASSUME RecorderInv, [Next]_vars PROVE RecorderInv'
  OBVIOUS
<1>1. ASSUME NEW c \in Clients, NEW m \in Methods, NEW p \in Paths,
             \/ MiddlewareAnswers(c, m, p)
             \/ \E middleware \in setup.middleware \ {"answers"} :
                    HandlerAnswers(c, m, p, middleware) \/ DocumentAnswers(c, m, p, middleware)
             \/ RouterAnswers(c, m, p)
      PROVE  RecorderInv'
  BY <1>1, MiddlewareKeeps, HandlerKeeps, DocumentKeeps, RouterKeeps
<1>2. ASSUME NEW c \in Clients, Record(c) PROVE RecorderInv'
  BY <1>2, RecordKeeps
<1>3. CASE ReadStatuses
  <2>1. VerifyInv'
    BY <1>3 DEF ReadStatuses, VerifyInv, books
  <2>2. QED
    BY <1>3, <2>1, VerifyKeeps DEF ReadStatuses
<1>4. CASE Compare
  <2>1. VerifyInv'
    BY <1>4 DEF Compare, VerifyInv, RecorderInv, books
  <2>2. QED
    BY <1>4, <2>1, VerifyKeeps DEF Compare
<1>5. CASE UNCHANGED vars
  <2>1. UNCHANGED <<setup, served, books, pc, answer>>
    BY <1>5 DEF vars, books
  <2>2. VerifyInv'
    BY <1>5 DEF vars, VerifyInv, RecorderInv
  <2>3. QED
    BY <2>1, <2>2, VerifyKeeps
<1>6. QED
  BY <1>1, <1>2, <1>3, <1>4, <1>5 DEF Next

(***************************************************************************)
(* What Verify reports.                                                    *)
(***************************************************************************)

\* ServeMux gave a request whose key is documented to that route itself.
LEMMA DocumentedIsRoute ==
    ASSUME setup \in Setups, NEW m \in Methods, NEW p \in Paths, HasPattern(Dispatch(m, p)),
           KeyFor(Dispatch(m, p), m) \in Documented
    PROVE  Dispatch(m, p).kind = "route"
<1> DEFINE d == Dispatch(m, p)
<1>1. d \in mux /\ Takes(d, m, p) /\ \A f \in mux : Takes(f, m, p) => Accepts[d] \subseteq Accepts[f]
  BY Dispatched DEF HasPattern
<1> HIDE DEF d
<1>2. PICK f \in mux : f.kind = "route" /\ <<f.method, f.template>> = KeyFor(d, m)
  BY DEF Documented, d
<1>3. f.method # AnyMethod
  BY <1>2, EntryTypes, RecorderAssumption
<1>4. CASE d.method = AnyMethod
  <2>1. f.method = m /\ f.template = d.template
    BY <1>2, <1>4 DEF KeyFor
  <2>2. Takes(f, m, p)
    BY <1>1, <2>1, TakesMeans
  <2>3. f.method = AnyMethod
    BY <1>1, <1>4, <2>2, TakesAllMethods
  <2>4. QED
    BY <1>3, <2>3
<1>5. CASE d.method # AnyMethod
  <2>1. f.method = d.method /\ f.template = d.template
    BY <1>2, <1>5 DEF KeyFor
  <2>2. Accepts[f] = Accepts[d]
    BY <1>1, <2>1, EntryTypes DEF Accepts
  <2>3. QED
    BY <1>1, <1>2, <2>2, AcceptsDistinct DEF d
<1>6. QED
  BY <1>4, <1>5

\* Verify found the route of a request that a documented route answered.
LEMMA RouteIsBooked ==
    ASSUME RecorderInv, NEW n \in misses, Counts(n), Dispatch(n.method, n.path).kind = "route"
    PROVE  /\ RouteOf(n) = Evidence(n)[1] /\ RouteOf(n) \in Documented /\ n \notin Unmatched
           /\ ~Skipped(Evidence(n)[1]) => Evidence(n) \in Observed
<1> DEFINE d == Dispatch(n.method, n.path)
<1>1. n.method \in Methods /\ n.path \in Paths /\ setup \in Setups
  BY DEF RecorderInv, MissInv
<1>2. FromRequests(known)
  BY DEF RecorderInv, VerifyInv, FromRequests
<1>3. d # NoEntry /\ d.kind = "route" /\ n.status \notin {404, 405}
  BY DEF Counts, HasPattern
<1>4. RouteOf(n) = <<d.method, d.template>>
  BY <1>1, <1>2, <1>3, RouteIsFound DEF RouteOf
<1>5. d \in mux
  BY <1>1, <1>3, Dispatched
<1>6. d.method # AnyMethod
  BY <1>1, <1>3, <1>5, EntryTypes, RecorderAssumption
<1>7. RouteOf(n) = KeyFor(d, n.method) /\ Evidence(n) = <<KeyFor(d, n.method), n.status>>
  BY <1>4, <1>6 DEF KeyFor, Evidence
<1>8. RouteOf(n) \in Documented
  BY <1>3, <1>4, <1>5 DEF Documented
<1>9. RouteOf(n) # NoRoute
  BY <1>1, <1>8, DocumentedTypes, KeyTypes
<1> HIDE DEF d
<1>10. n \notin Unmatched
  BY <1>3, <1>9 DEF Unmatched
<1>11. QED
  BY <1>7, <1>8, <1>10 DEF Observed

\* A code that a documented route produced is among what Verify observes.
LEMMA ProducedIsObserved ==
    ASSUME RecorderInv, NEW b \in produced, ~Skipped(b[1]), b[1] \in Documented
    PROVE  b \in Observed
<1>1. CASE b \in codes
  BY <1>1 DEF Observed
<1>2. ASSUME NEW n \in misses, Counts(n), b = Evidence(n) PROVE b \in Observed
  <2>1. n.method \in Methods /\ n.path \in Paths /\ setup \in Setups
    BY DEF RecorderInv, MissInv
  <2>2. KeyFor(Dispatch(n.method, n.path), n.method) \in Documented /\ HasPattern(Dispatch(n.method, n.path))
    BY <1>2 DEF Evidence, Counts
  <2>3. Dispatch(n.method, n.path).kind = "route"
    BY <2>1, <2>2, DocumentedIsRoute
  <2>4. QED
    BY <1>2, <2>3, RouteIsBooked
<1>3. QED
  BY <1>1, <1>2 DEF RecorderInv, KeptInv

\* A document's own code, where no middleware answers for it: 200, once its path
\* counts as served.
LEMMA DocumentStatuses ==
    ASSUME HiddenRoutesAreKnown(setup), NEW b, NEW m, NEW p, FromRequest(b, m, p),
           Dispatch(m, p).kind = "document", b[2] # 405
    PROVE  b[2] = 200 /\ ServedDocument(m, p) /\ PathKey(m, p) \in served
BY DEF HiddenRoutesAreKnown, FromRequest, DocumentStatus

\* A counting miss is a documented route's or the document's.
LEMMA MissMeans ==
    ASSUME RecorderInv, HiddenRoutesAreKnown(setup), known = served, NEW n \in misses, Counts(n)
    PROVE  \/ Dispatch(n.method, n.path).kind = "route"
           \/ /\ n.status = 200 /\ RouteOf(n) \in known /\ n \notin Unmatched
              /\ Dispatch(n.method, n.path) \in mux /\ Dispatch(n.method, n.path).kind = "document"
              /\ RouteOf(n)[2] = Dispatch(n.method, n.path).template
<1> DEFINE d == Dispatch(n.method, n.path)
<1>1. n.method \in Methods /\ n.path \in Paths /\ setup \in Setups /\ FromRequests(known)
  BY DEF RecorderInv, MissInv
<1>2. /\ HasPattern(d) /\ n.status \notin {404, 405} /\ setup.middleware # {"none"}
      /\ FromRequest(Evidence(n), n.method, n.path)
  BY DEF RecorderInv, MissInv, Counts
<1>3. d \in mux /\ d.kind \in Kinds
  BY <1>1, <1>2, Dispatched, EntryTypes DEF HasPattern
<1>4. d.kind \in {"route", "document"}
  BY <1>2, <1>3 DEF HasPattern, Kinds, HiddenRoutesAreKnown, mux
<1>5. CASE d.kind = "document"
  <2>1. Evidence(n)[2] = n.status
    BY DEF Evidence
  <2>2. n.status = 200 /\ ServedDocument(n.method, n.path) /\ PathKey(n.method, n.path) \in known
    BY <1>2, <1>5, <2>1, DocumentStatuses
  <2>3. RouteOf(n) = PathKey(n.method, n.path)
    BY <1>1, <1>2, <1>5, <2>2, DocumentIsFound DEF RouteOf, HasPattern
  <2>4. PathKey(n.method, n.path) = <<n.method, d.template>> /\ PathKey(n.method, n.path) # NoRoute
    BY <1>1, <1>2, <1>5, DocumentKey DEF HasPattern
  <2>5. n \notin Unmatched
    BY <1>2, <2>3, <2>4 DEF Unmatched
  <2>6. QED
    BY <1>3, <1>5, <2>2, <2>3, <2>4, <2>5
<1>6. QED
  BY <1>4, <1>5

\* What Verify observes was produced, but for the document under a pattern that
\* the recorder did not see.
LEMMA ObservedMeans ==
    ASSUME RecorderInv, HiddenRoutesAreKnown(setup), known = served, NEW b \in Observed
    PROVE  /\ ~Skipped(b[1])
           /\ \/ b \in codes
              \/ b \in produced /\ b[1] \in Documented
              \/ b[2] = 200 /\ b[1] \in known
<1>1. CASE b \in codes
  BY <1>1 DEF RecorderInv, CodeInv
<1>2. ASSUME NEW n \in misses, n \notin Unmatched, ~Skipped(RouteOf(n)), b = <<RouteOf(n), n.status>>
      PROVE  /\ ~Skipped(b[1])
             /\ (b \in produced /\ b[1] \in Documented) \/ (b[2] = 200 /\ b[1] \in known)
  <2>1. RouteOf(n) # NoRoute /\ n.status \notin {404, 405}
    BY <1>2 DEF Unmatched
  <2>2. n.method \in Methods /\ n.path \in Paths /\ setup \in Setups /\ FromRequests(known)
    BY DEF RecorderInv, MissInv
  <2>3. HasPattern(Dispatch(n.method, n.path))
    <3>1. ~(Dispatch(n.method, n.path) = NoEntry \/ Dispatch(n.method, n.path).kind = "subtree")
      BY <2>1, <2>2, NothingIsFound DEF RouteOf
    <3>2. QED
      BY <3>1 DEF HasPattern
  <2>4. Counts(n)
    BY <2>1, <2>3 DEF Counts
  <2>5. CASE Dispatch(n.method, n.path).kind = "route"
    <3>1. RouteOf(n) = Evidence(n)[1] /\ RouteOf(n) \in Documented
      BY <2>4, <2>5, RouteIsBooked
    <3>2. Evidence(n) \in produced /\ b = Evidence(n)
      BY <1>2, <2>4, <3>1 DEF RecorderInv, MissInv, Evidence
    <3>3. b[1] = RouteOf(n)
      BY <1>2
    <3>4. ~Skipped(b[1]) /\ b[1] \in Documented
      BY <1>2, <3>1, <3>3
    <3>5. b \in produced
      BY <3>2
    <3>6. QED
      BY <3>4, <3>5
  <2>6. CASE n.status = 200 /\ RouteOf(n) \in known
    BY <1>2, <2>6
  <2>7. QED
    BY <2>4, <2>5, <2>6, MissMeans
<1>3. QED
  BY <1>1, <1>2 DEF Observed

\* Served paths are the document's, and no documented route's.
LEMMA ServedMeans ==
    ASSUME setup \in Setups, FromRequests(known), NEW key \in known
    PROVE  /\ \E e \in mux : e.kind = "document" /\ key[2] = e.template
           /\ DocumentStandsAlone(setup) => key \notin Documented
<1>1. PICK m \in Methods, p \in Paths : ServedDocument(m, p) /\ key = PathKey(m, p)
  BY DEF FromRequests
<1>2. key = <<m, Dispatch(m, p).template>> /\ Dispatch(m, p) \in mux /\ Dispatch(m, p).kind = "document"
  BY <1>1, DocumentKey, Dispatched DEF ServedDocument
<1>3. QED
  BY <1>2 DEF DocumentStandsAlone, Documented, mux

LEMMA DocumentIsNotDocumented ==
    ASSUME DocumentStandsAlone(setup), NEW b, FromDocument(b)
    PROVE  b[1] \notin Documented
BY DEF DocumentStandsAlone, FromDocument, Documented, mux

\* The 200 of a document whose pattern the recorder saw is under a path that
\* counts as served.
LEMMA DocumentCodeIsKnown ==
    ASSUME RecorderInv, HiddenRoutesAreKnown(setup), DocumentStandsAlone(setup),
           NEW b \in codes, FromDocument(b)
    PROVE  b[1] \in served
<1>1. "none" \in setup.middleware
  BY DEF RecorderInv, CodeInv
<1>2. PICK m \in Methods, p \in Paths : FromRequest(b, m, p)
  BY DEF RecorderInv, CodeInv
<1> DEFINE d == Dispatch(m, p)
<1>3. PICK e \in mux : e.kind = "document" /\ b[1][2] = e.template /\ b[2] = 200
  BY DEF FromDocument
<1>4. d # NoEntry /\ b[1] = KeyFor(d, m)
  BY <1>2 DEF FromRequest, HasPattern
<1>5. d \in mux /\ setup \in Setups
  BY <1>4, Dispatched DEF RecorderInv
<1> HIDE DEF d
<1>6. d.template = e.template
  BY <1>3, <1>4 DEF KeyFor
<1>7. d.kind = "document"
  BY <1>3, <1>5, <1>6 DEF DocumentStandsAlone, mux
<1>8. d.method = AnyMethod
  BY <1>1, <1>5, <1>7 DEF DocumentStandsAlone, mux
<1>9. PathKey(m, p) \in served
  BY <1>2, <1>3, <1>7, DocumentStatuses DEF d
<1>10. PathKey(m, p) = <<m, d.template>>
  BY <1>4, <1>5, <1>7, DocumentKey DEF d
<1>11. b[1] = PathKey(m, p)
  BY <1>4, <1>8, <1>10 DEF KeyFor
<1>12. QED
  BY <1>9, <1>11

\* An undeclared code was produced, and not by the document.
LEMMA UndeclaredMeans ==
    ASSUME RecorderInv, HiddenRoutesAreKnown(setup), known = served, NEW b \in Undeclared
    PROVE  /\ b \in produced /\ ~Skipped(b[1])
           /\ DocumentStandsAlone(setup) => ~FromDocument(b)
<1>1. b \in Observed /\ b[2] \notin Allowed(b[1])
  BY DEF Undeclared
<1>2. ~(b[2] = 200 /\ b[1] \in known)
  BY <1>1 DEF Allowed
<1>3. b \in codes \/ (b \in produced /\ b[1] \in Documented)
  BY <1>1, <1>2, ObservedMeans
<1>4. b \in produced /\ ~Skipped(b[1])
  BY <1>1, <1>3, ObservedMeans DEF RecorderInv, CodeInv
<1>5. ASSUME DocumentStandsAlone(setup), FromDocument(b) PROVE FALSE
  <2>1. b \in codes
    BY <1>3, <1>5, DocumentIsNotDocumented
  <2>2. b[1] \in known /\ b[2] = 200
    BY <1>5, <2>1, DocumentCodeIsKnown DEF FromDocument
  <2>3. QED
    BY <1>2, <2>2
<1>6. QED
  BY <1>4, <1>5

\* The codes that a Verify which nothing overlaps should compare.
booked == {b \in produced : ~Skipped(b[1])}

LEMMA GapsAreExact ==
    ASSUME RecorderInv, HiddenRoutesAreKnown(setup), DocumentStandsAlone(setup), known = served
    PROVE  NeverProduced = DeclaredCodes \ booked
<1>1. FromRequests(known) /\ setup \in Setups
  BY DEF RecorderInv
<1>2. ASSUME NEW x \in DeclaredCodes
      PROVE  x \in Observed <=> x \in booked
  <2>1. x[1] \in Documented
    BY <1>2 DEF DeclaredCodes
  <2>2. x[1] \notin known
    BY <1>1, <2>1, ServedMeans
  <2>3. ASSUME x \in Observed PROVE x \in booked
    <3>1. ~Skipped(x[1]) /\ (x \in codes \/ x \in produced)
      BY <2>2, <2>3, ObservedMeans
    <3>2. QED
      BY <3>1 DEF booked, RecorderInv, CodeInv
  <2>4. ASSUME x \in booked PROVE x \in Observed
    BY <2>1, <2>4, ProducedIsObserved DEF booked
  <2>5. QED
    BY <2>3, <2>4
<1>3. QED
  BY <1>2 DEF NeverProduced

LEMMA DriftIsExact ==
    ASSUME RecorderInv, HiddenRoutesAreKnown(setup), DocumentStandsAlone(setup), known = served
    PROVE  Undeclared =
            {b \in booked : ~FromDocument(b) /\ b[1] \notin Documented}
                \cup {b \in booked : b[1] \in Documented
                                      /\ {0, b[2]} \cap (Declared[b[1]] \cup Defaults) = {}}
<1>1. FromRequests(known) /\ setup \in Setups
  BY DEF RecorderInv
<1>2. ASSUME NEW b \in Undeclared
      PROVE  /\ b \in booked
             /\ \/ ~FromDocument(b) /\ b[1] \notin Documented
                \/ b[1] \in Documented /\ {0, b[2]} \cap (Declared[b[1]] \cup Defaults) = {}
  <2>1. b \in booked /\ ~FromDocument(b)
    BY UndeclaredMeans DEF booked
  <2>2. {0, b[2]} \cap Allowed(b[1]) = {}
    BY DEF Undeclared
  <2>3. b[1] \in Documented => {0, b[2]} \cap (Declared[b[1]] \cup Defaults) = {}
    BY <2>2 DEF Allowed
  <2>4. QED
    BY <2>1, <2>3
<1>3. ASSUME NEW b \in booked, ~FromDocument(b), b[1] \notin Documented PROVE b \in Undeclared
  <2>1. b \in codes
    <3> SUFFICES ASSUME NEW n \in misses, Counts(n), b = Evidence(n) PROVE FALSE
      BY DEF RecorderInv, KeptInv, booked
    <3>1. b[1] = KeyFor(Dispatch(n.method, n.path), n.method) /\ b[2] = n.status
      BY DEF Evidence
    <3>2. CASE Dispatch(n.method, n.path).kind = "route"
      BY <1>3, <3>2, RouteIsBooked
    <3>3. CASE /\ n.status = 200 /\ Dispatch(n.method, n.path) \in mux
               /\ Dispatch(n.method, n.path).kind = "document"
      BY <1>3, <3>1, <3>3 DEF FromDocument, KeyFor
    <3>4. QED
      BY <3>2, <3>3, MissMeans
  <2>2. b \in Observed
    BY <2>1 DEF Observed
  <2>3. b[1] \in known => b[2] # 200
    BY <1>1, <1>3, ServedMeans DEF FromDocument
  <2>4. {0, b[2]} \cap Allowed(b[1]) = {}
    <3>1. Allowed(b[1]) = IF b[1] \in known THEN {200} ELSE {}
      BY <1>3 DEF Allowed
    <3>2. QED
      BY <2>3, <3>1
  <2>5. QED
    BY <2>2, <2>4 DEF Undeclared
<1>4. ASSUME NEW b \in booked, b[1] \in Documented, {0, b[2]} \cap (Declared[b[1]] \cup Defaults) = {}
      PROVE  b \in Undeclared
  <2>1. b \in Observed
    BY <1>4, ProducedIsObserved DEF booked
  <2>2. b[1] \notin known
    BY <1>1, <1>4, ServedMeans
  <2>3. Allowed(b[1]) = Declared[b[1]] \cup Defaults
    BY <1>4, <2>2 DEF Allowed
  <2>4. QED
    BY <1>4, <2>1, <2>3 DEF Undeclared
<1>5. QED
  BY <1>2, <1>3, <1>4

\* Verify advises to wrap the router only when nothing reached a route.
LEMMA AdviceIsExact ==
    ASSUME RecorderInv, HiddenRoutesAreKnown(setup), known = served, Observed = {}
    PROVE  booked = {}
<1> SUFFICES ASSUME NEW b \in produced, ~Skipped(b[1]) PROVE FALSE
  BY DEF booked
<1>1. b \notin codes
  BY DEF Observed
<1>2. PICK n \in misses : Counts(n) /\ b = Evidence(n)
  BY <1>1 DEF RecorderInv, KeptInv
<1>3. b[1] = KeyFor(Dispatch(n.method, n.path), n.method)
  BY <1>2 DEF Evidence
<1>4. CASE Dispatch(n.method, n.path).kind = "route"
  BY <1>2, <1>4, RouteIsBooked
<1>5. CASE n \notin Unmatched /\ RouteOf(n)[2] = Dispatch(n.method, n.path).template
  <2>1. ~Skipped(RouteOf(n))
    BY <1>3, <1>5 DEF Skipped, KeyFor
  <2>2. <<RouteOf(n), n.status>> \in Observed
    BY <1>5, <2>1 DEF Observed
  <2>3. QED
    BY <2>2
<1>6. QED
  BY <1>2, <1>4, <1>5, MissMeans

(***************************************************************************)
(* The theorems.                                                           *)
(***************************************************************************)

\* The recorder and Verify agree with the program under test as RecorderInv says,
\* whatever overlaps.
THEOREM RecorderCorrect == Spec => []RecorderInv
<1>1. RecorderInv /\ [Next]_vars => RecorderInv'
  BY RecorderNext
<1>2. QED
  BY RecorderInit, <1>1, PTL DEF Spec

\* Only Compare reports, and after a report nothing happens.
LEMMA ReportSteps ==
    ASSUME [Next]_vars, Reported'
    PROVE  \/ Compare /\ report'.before = before
           \/ UNCHANGED vars
<1>1. CASE Next
  <2>1. report = NoReport /\ report' # NoReport
    BY <1>1 DEF Next, Reported
  <2>2. Compare
    <3>1. ASSUME NEW c, NEW m, NEW p, NEW target, NEW seen, NEW o, Answered(c, m, p, target, seen, o)
          PROVE  report' = report
      BY <3>1 DEF Answered, verifying
    <3>2. ASSUME NEW c, NEW m, NEW p, MiddlewareAnswers(c, m, p) \/ RouterAnswers(c, m, p)
          PROVE  report' = report
      BY <3>1, <3>2 DEF MiddlewareAnswers, RouterAnswers
    <3>3. ASSUME NEW c, NEW m, NEW p, NEW middleware,
                 HandlerAnswers(c, m, p, middleware) \/ DocumentAnswers(c, m, p, middleware)
          PROVE  report' = report
      BY <3>1, <3>3 DEF HandlerAnswers, DocumentAnswers
    <3>4. ASSUME NEW c, Record(c) PROVE report' = report
      BY <3>4 DEF Record, verifying
    <3>5. ReadStatuses => report' = report
      BY DEF ReadStatuses
    <3>6. QED
      BY <1>1, <2>1, <3>2, <3>3, <3>4, <3>5 DEF Next
  <2>3. QED
    BY <2>2 DEF Compare
<1>2. QED
  BY <1>1

\* A missing code that Verify reports was not produced before it began
\* (recorder/recorder.go, snapshot, matchMisses and reportNeverProduced), whatever
\* is hidden and whatever overlaps.
THEOREM MissingIsMissing == Spec => []GapsAreTrue
<1>1. Init => GapsAreTrue
  BY DEF Init, GapsAreTrue, Reported
<1>2. RecorderInv /\ GapsAreTrue /\ [Next]_vars => GapsAreTrue'
  <2> SUFFICES ASSUME RecorderInv, GapsAreTrue, [Next]_vars, Reported',
                      NEW gap, gap \in report'.gaps
               PROVE  gap \notin report'.before \/ Skipped(gap[1])
    BY DEF GapsAreTrue, Skipped
  <2>1. CASE UNCHANGED vars
    BY <2>1 DEF vars, GapsAreTrue, Reported
  <2>2. CASE Compare
    <3>1. gap \in NeverProduced /\ report'.before = before
      BY <2>2 DEF Compare
    <3>2. gap[1] \in Documented /\ gap \notin Observed
      <4>1. PICK key \in Documented : gap \in {key} \X Declared[key]
        BY <3>1 DEF NeverProduced, DeclaredCodes
      <4>2. gap \notin Observed
        BY <3>1 DEF NeverProduced
      <4>3. QED
        BY <4>1, <4>2
    <3>3. before \subseteq produced
      BY DEF RecorderInv, VerifyInv
    <3>4. QED
      BY <3>1, <3>2, <3>3, ProducedIsObserved
  <2>3. QED
    BY <2>1, <2>2, ReportSteps
<1>3. QED
  BY <1>1, <1>2, RecorderCorrect, PTL DEF Spec

\* What Verify reports under a report that it makes in this step.
LEMMA Reports ==
    ASSUME Compare
    PROVE  /\ report' = [gaps |-> NeverProduced, drift |-> Undeclared,
                         hidden |-> Observed = {} /\ Unmatched # {} /\ Documented # {},
                         before |-> before, exact |-> ~overlap, current |-> known = served]
           /\ report'.current = (known = served) /\ report'.exact = ~overlap
           /\ report'.gaps = NeverProduced /\ report'.drift = Undeclared /\ report'.before = before
           /\ report'.hidden => Observed = {}
           /\ setup' = setup /\ produced' = produced
BY DEF Compare, books

\* An undeclared code that Verify reports was produced under that route
\* (recorder/recorder.go, reportUndeclared; recorder/match.go): what the patterns
\* hide must be documented, because matchRoute cannot know a stray.
THEOREM DriftIsProduced ==
    ASSUME \A s \in Setups : HiddenRoutesAreKnown(s)
    PROVE  Spec => []DriftIsTrue
<1>1. Init => DriftIsTrue
  BY DEF Init, DriftIsTrue, Reported
<1>2. RecorderInv /\ DriftIsTrue /\ [Next]_vars => DriftIsTrue'
  <2> SUFFICES ASSUME RecorderInv, DriftIsTrue, [Next]_vars, Reported', report'.current,
                      NEW b, b \in report'.drift
               PROVE  b \in produced'
    BY DEF DriftIsTrue
  <2>1. CASE UNCHANGED vars
    BY <2>1 DEF vars, DriftIsTrue, Reported
  <2>2. CASE Compare
    <3>1. b \in Undeclared /\ known = served /\ produced' = produced
      BY <2>2, Reports
    <3>2. HiddenRoutesAreKnown(setup)
      BY DEF RecorderInv
    <3>3. QED
      BY <3>1, <3>2, UndeclaredMeans
  <2>3. QED
    BY <2>1, <2>2, ReportSteps
<1>3. QED
  BY <1>1, <1>2, RecorderCorrect, PTL DEF Spec

\* A request for the document is not reported as drift, where the document has a
\* path of its own and the patterns that the recorder sees mount it without a
\* method (recorder/match.go, servedRoute; internal/core, SpecStatuses).
THEOREM DocumentIsNoDrift ==
    ASSUME \A s \in Setups : HiddenRoutesAreKnown(s) /\ DocumentStandsAlone(s)
    PROVE  Spec => []DocumentIsNotDrift
<1>1. Init => DocumentIsNotDrift
  BY DEF Init, DocumentIsNotDrift, Reported
<1>2. RecorderInv /\ DocumentIsNotDrift /\ [Next]_vars => DocumentIsNotDrift'
  <2> SUFFICES ASSUME RecorderInv, DocumentIsNotDrift, [Next]_vars, Reported', report'.current,
                      NEW b, b \in report'.drift
               PROVE  ~FromDocument(b)'
    BY DEF DocumentIsNotDrift, FromDocument
  <2>1. CASE UNCHANGED vars
    BY <2>1 DEF vars, DocumentIsNotDrift, FromDocument, Reported, mux
  <2>2. CASE Compare
    <3>1. b \in Undeclared /\ known = served /\ setup' = setup
      BY <2>2, Reports
    <3>2. HiddenRoutesAreKnown(setup) /\ DocumentStandsAlone(setup)
      BY DEF RecorderInv
    <3>3. ~FromDocument(b)
      BY <3>1, <3>2, UndeclaredMeans
    <3>4. QED
      BY <3>1, <3>3 DEF FromDocument, mux
  <2>3. QED
    BY <2>1, <2>2, ReportSteps
<1>3. QED
  BY <1>1, <1>2, RecorderCorrect, PTL DEF Spec

\* What a Verify that nothing overlaps reports is exact: the missing codes, the
\* undeclared ones, and the advice to wrap the router.
THEOREM ReportExact ==
    ASSUME \A s \in Setups : HiddenRoutesAreKnown(s) /\ DocumentStandsAlone(s)
    PROVE  Spec => []ReportIsExact
<1>1. Init => ReportIsExact
  BY DEF Init, ReportIsExact, Reported
<1>2. RecorderInv /\ ReportIsExact /\ [Next]_vars => ReportIsExact'
  <2> SUFFICES ASSUME RecorderInv, ReportIsExact, [Next]_vars, Reported', report'.exact
               PROVE  ReportIsExact'
    BY DEF ReportIsExact
  <2>1. CASE UNCHANGED vars
    <3>1. setup' = setup /\ report' = report
      BY <2>1 DEF vars
    <3>2. QED
      BY <3>1 DEF ReportIsExact, Reported, DeclaredCodes, FromDocument, Documented, Skipped, mux
  <2>2. CASE Compare
    <3>1. ~overlap /\ verify = "comparing"
      BY <2>2, Reports DEF Compare
    <3>2. before = produced /\ known = served
      BY <3>1 DEF RecorderInv, VerifyInv
    <3>3. HiddenRoutesAreKnown(setup) /\ DocumentStandsAlone(setup)
      BY DEF RecorderInv
    <3>4. {b \in report'.before : ~Skipped(b[1])} = booked
      BY <2>2, <3>2, Reports DEF booked
    <3>5. report'.gaps = DeclaredCodes \ booked
      BY <2>2, <3>2, <3>3, Reports, GapsAreExact
    <3>6. report'.drift =
            {b \in booked : ~FromDocument(b) /\ b[1] \notin Documented}
                \cup {b \in booked : b[1] \in Documented
                                      /\ {0, b[2]} \cap (Declared[b[1]] \cup Defaults) = {}}
      BY <2>2, <3>2, <3>3, Reports, DriftIsExact
    <3>7. report'.hidden => booked = {}
      BY <2>2, <3>2, <3>3, Reports, AdviceIsExact
    <3>8. setup' = setup
      BY <2>2, Reports
    <3> HIDE DEF booked
    <3>9. QED
      BY <3>4, <3>5, <3>6, <3>7, <3>8 DEF ReportIsExact, DeclaredCodes, FromDocument, Documented, Skipped, mux
  <2>3. QED
    BY <2>1, <2>2, ReportSteps
<1>3. QED
  BY <1>1, <1>2, RecorderCorrect, PTL DEF Spec

=============================================================================
