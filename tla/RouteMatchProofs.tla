-------------------------- MODULE RouteMatchProofs --------------------------
(***************************************************************************)
(* Proofs about the loop of RouteMatch, for all templates, documents and   *)
(* paths: the order in which a map yields its keys leaves no better route  *)
(* behind.  The argument is that Beats is transitive, so a key that lost   *)
(* to an earlier best loses to every later one, and that no two candidates *)
(* tie.                                                                    *)
(***************************************************************************)
EXTENDS RouteMatch, WellFoundedInduction, TLAPS

(***************************************************************************)
(* The matching of recorder/match.go for all templates: the rank with its  *)
(* tie break is a strict total order on the keys of one method, so the     *)
(* best of the candidates is one route.  RecorderProofs cites these facts. *)
(***************************************************************************)

\* Every nonempty set of numbers has a least one.
LEMMA LeastNumber ==
    ASSUME NEW T \in SUBSET Nat, T # {}
    PROVE  \E x \in T : \A y \in T : x <= y
<1>1. IsWellFoundedOn(OpToRel(<, Nat), Nat)
  BY NatLessThanWellFounded
<1>2. PICK x \in T : \A y \in T : ~(<<y, x>> \in OpToRel(<, Nat))
  BY <1>1, WFMin
<1>3. ASSUME NEW y \in T PROVE x <= y
  <2>1. ~(y < x)
    BY <1>2 DEF OpToRel
  <2>2. QED
    BY <2>1
<1>4. QED
  BY <1>3

\* Ranks are sequences of numbers.
IsRank(a) == \E n \in Nat : DOMAIN a = 1..n /\ \A i \in 1..n : a[i] \in Int

LEMMA RankIsRank ==
    ASSUME NEW t \in Templates
    PROVE  IsRank(RankTemplate(t))
<1>1. t \in Seq(Segments)
  BY RouteMatchingAssumption
<1> DEFINE rank == RankTemplate(t)
           n == Len(t)
<1>2. n \in Nat /\ DOMAIN t = 1..n
  BY <1>1
<1>3. DOMAIN rank = 1..n /\ \A i \in 1..n : rank[i] = RankOf(t[i])
  BY <1>2 DEF RankTemplate
<1>4. \A i \in 1..n : RankOf(t[i]) \in Int
  BY DEF RankOf
<1>5. \A i \in 1..n : rank[i] \in Int
  BY <1>3, <1>4
<1>6. QED
  <2> HIDE DEF rank, n
  <2> QED
    BY <1>2, <1>3, <1>5 DEF IsRank, rank

\* The lexicographic order of slices.Compare is transitive and irreflexive.
LEMMA GreaterTransitive ==
    ASSUME NEW a, NEW b, NEW c, IsRank(a), IsRank(b), IsRank(c), Greater(a, b), Greater(b, c)
    PROVE  Greater(a, c)
<1>1. PICK i \in DOMAIN a :
            /\ i \in DOMAIN b => a[i] > b[i]
            /\ \A j \in 1..(i - 1) : j \in DOMAIN b /\ a[j] = b[j]
  BY DEF Greater
<1>2. PICK k \in DOMAIN b :
            /\ k \in DOMAIN c => b[k] > c[k]
            /\ \A j \in 1..(k - 1) : j \in DOMAIN c /\ b[j] = c[j]
  BY DEF Greater
<1>3. PICK na \in Nat : DOMAIN a = 1..na /\ \A j \in 1..na : a[j] \in Int
  BY DEF IsRank
<1>4. PICK nb \in Nat : DOMAIN b = 1..nb /\ \A j \in 1..nb : b[j] \in Int
  BY DEF IsRank
<1>5. PICK nc \in Nat : DOMAIN c = 1..nc /\ \A j \in 1..nc : c[j] \in Int
  BY DEF IsRank
<1>6. CASE i <= k
  <2>1. ASSUME NEW j \in 1..(i - 1) PROVE j \in DOMAIN c /\ a[j] = c[j]
    <3>1. j \in 1..(k - 1)
      BY <1>3, <1>4, <1>6
    <3>2. a[j] = b[j]
      BY <1>1
    <3>3. j \in DOMAIN c /\ b[j] = c[j]
      BY <1>2, <3>1
    <3>4. QED
      BY <3>2, <3>3
  <2>2. ASSUME i \in DOMAIN c PROVE a[i] > c[i]
    <3>1. a[i] \in Int /\ c[i] \in Int
      BY <1>3, <1>5, <2>2
    <3>2. CASE i < k
      <4>1. i \in 1..(k - 1)
        BY <1>3, <1>4, <3>2
      <4>2. b[i] = c[i] /\ i \in DOMAIN b
        BY <1>2, <1>3, <1>4, <3>2, <4>1
      <4>3. QED
        BY <1>1, <4>2
    <3>3. CASE i = k
      <4>1. b[i] > c[i] /\ a[i] > b[i] /\ b[i] \in Int
        BY <1>1, <1>2, <1>4, <2>2, <3>3
      <4>2. QED
        BY <3>1, <4>1
    <3>4. QED
      BY <1>3, <1>4, <1>6, <3>2, <3>3
  <2>3. QED
    BY <1>1, <2>1, <2>2 DEF Greater
<1>7. CASE k < i
  <2>1. k \in DOMAIN a /\ a[k] = b[k]
    BY <1>1, <1>3, <1>4, <1>7
  <2>2. \A j \in 1..(k - 1) : j \in DOMAIN c /\ a[j] = c[j]
    BY <1>1, <1>2, <1>3, <1>4, <1>7
  <2>3. k \in DOMAIN c => a[k] > c[k]
    BY <1>2, <2>1
  <2>4. QED
    BY <2>1, <2>2, <2>3 DEF Greater
<1>8. QED
  BY <1>3, <1>4, <1>6, <1>7

LEMMA GreaterIrreflexive ==
    ASSUME NEW a, IsRank(a)
    PROVE  ~Greater(a, a)
BY DEF IsRank, Greater

LEMMA KeyTypes ==
    ASSUME NEW key \in RouteKeys
    PROVE  key[1] \in Methods /\ key[2] \in Templates /\ key # NoRoute
           /\ IsRank(RankTemplate(key[2])) /\ StringOrder[key[2]] \in Int
BY RouteMatchingAssumption, RankIsRank DEF RouteKeys

LEMMA BeatsTransitive ==
    ASSUME NEW k \in RouteKeys, NEW l \in RouteKeys, NEW m \in RouteKeys, Beats(k, l), Beats(l, m)
    PROVE  Beats(k, m)
<1> DEFINE rk == RankTemplate(k[2])
           rl == RankTemplate(l[2])
           rm == RankTemplate(m[2])
<1>1. IsRank(rk) /\ IsRank(rl) /\ IsRank(rm)
  BY KeyTypes
<1>2. CASE Greater(rk, rl) /\ Greater(rl, rm)
  BY <1>1, <1>2, GreaterTransitive DEF Beats
<1>3. CASE rk = rl
  BY <1>3, KeyTypes DEF Beats
<1>4. CASE rl = rm
  BY <1>4, KeyTypes DEF Beats
<1>5. QED
  BY <1>2, <1>3, <1>4 DEF Beats

LEMMA BeatsIrreflexive ==
    ASSUME NEW k \in RouteKeys
    PROVE  ~Beats(k, k)
BY KeyTypes, GreaterIrreflexive DEF Beats

LEMMA RanksAreTotal ==
    ASSUME NEW t \in Templates, NEW u \in Templates,
           ~Greater(RankTemplate(t), RankTemplate(u)), ~Greater(RankTemplate(u), RankTemplate(t))
    PROVE  RankTemplate(t) = RankTemplate(u)
<1> DEFINE a == RankTemplate(t)
           b == RankTemplate(u)
<1>1. PICK na \in Nat : DOMAIN a = 1..na /\ \A i \in 1..na : a[i] \in Int
  BY RankIsRank DEF IsRank
<1>2. PICK nb \in Nat : DOMAIN b = 1..nb /\ \A i \in 1..nb : b[i] \in Int
  BY RankIsRank DEF IsRank
<1>3. a = [i \in DOMAIN a |-> a[i]] /\ b = [i \in DOMAIN b |-> b[i]]
  BY DEF RankTemplate
<1> DEFINE differ == {i \in Nat \ {0} : (i \in DOMAIN a \/ i \in DOMAIN b)
                                        /\ ~(i \in DOMAIN a /\ i \in DOMAIN b /\ a[i] = b[i])}
<1> HIDE DEF a, b
<1>4. CASE differ = {}
  <2>1. DOMAIN a = DOMAIN b
    BY <1>1, <1>2, <1>4
  <2>2. \A i \in DOMAIN a : a[i] = b[i]
    BY <1>1, <1>4, <2>1
  <2>3. QED
    BY <1>3, <2>1, <2>2 DEF a, b
<1>5. CASE differ # {}
  <2>1. PICK i \in differ : \A j \in differ : i <= j
    BY <1>5, LeastNumber
  <2>2. \A j \in 1..(i - 1) : j \in DOMAIN a /\ j \in DOMAIN b /\ a[j] = b[j]
    <3> SUFFICES ASSUME NEW j \in 1..(i - 1) PROVE j \in DOMAIN a /\ j \in DOMAIN b /\ a[j] = b[j]
      OBVIOUS
    <3>1. j \in Nat \ {0} /\ j < i /\ j \notin differ
      BY <2>1
    <3>2. i \in DOMAIN a \/ i \in DOMAIN b
      BY <2>1
    <3>3. j \in DOMAIN a \/ j \in DOMAIN b
      BY <1>1, <1>2, <3>1, <3>2
    <3>4. QED
      BY <3>1, <3>3
  <2>3. CASE i \notin DOMAIN b
    BY <2>1, <2>2, <2>3 DEF Greater, a, b
  <2>4. CASE i \notin DOMAIN a
    BY <2>1, <2>2, <2>4 DEF Greater, a, b
  <2>5. CASE i \in DOMAIN a /\ i \in DOMAIN b
    <3>1. a[i] # b[i] /\ a[i] \in Int /\ b[i] \in Int
      BY <1>1, <1>2, <2>1, <2>5
    <3>2. a[i] > b[i] \/ b[i] > a[i]
      BY <3>1
    <3>3. QED
      BY <2>2, <2>5, <3>2 DEF Greater, a, b
  <2>6. QED
    BY <2>3, <2>4, <2>5
<1>6. QED
  BY <1>4, <1>5

LEMMA BeatsTotal ==
    ASSUME NEW k \in RouteKeys, NEW l \in RouteKeys, k[1] = l[1], ~Beats(k, l), ~Beats(l, k)
    PROVE  k = l
<1>1. RankTemplate(k[2]) = RankTemplate(l[2])
  BY KeyTypes, RanksAreTotal DEF Beats
<1>2. ~(StringOrder[k[2]] < StringOrder[l[2]]) /\ ~(StringOrder[l[2]] < StringOrder[k[2]])
  BY <1>1 DEF Beats
<1>3. StringOrder[k[2]] = StringOrder[l[2]]
  BY <1>2, KeyTypes
<1>4. k[2] = l[2]
  BY <1>3, KeyTypes, RouteMatchingAssumption
<1>5. QED
  BY <1>4 DEF RouteKeys

\* The candidate that no other beats is the one that BestRoute chooses.
LEMMA UnbeatenIsBest ==
    ASSUME NEW keys \in SUBSET RouteKeys, NEW m, NEW path,
           NEW key \in Candidates(keys, m, path),
           \A other \in Candidates(keys, m, path) : ~Beats(other, key)
    PROVE  BestRoute(keys, m, path) = key
<1> DEFINE cands == Candidates(keys, m, path)
           Best(k) == k \in cands /\ \A other \in cands : ~Beats(other, k)
<1>1. \A k \in cands : k \in RouteKeys /\ k[1] = m
  BY DEF Candidates
<1>2. \A k : Best(k) => k = key
  BY <1>1, BeatsTotal
<1>3. Best(key)
  OBVIOUS
<1>4. (CHOOSE k \in cands : \A other \in cands : ~Beats(other, k)) = key
  BY <1>2, <1>3
<1>5. QED
  BY <1>4 DEF BestRoute

LEMMA NoCandidateNoRoute ==
    ASSUME NEW keys, NEW m, NEW path, Candidates(keys, m, path) = {}
    PROVE  BestRoute(keys, m, path) = NoRoute
BY DEF BestRoute

(***************************************************************************)
(* The narrower of two templates has the higher rank.                      *)
(***************************************************************************)

\* The segments that mix text and parameters, and what their regular
\* expressions have in common: each fits several values and not all; that none
\* fits a part of what another fits is where the rank tells them apart.
MixedSegments == UNION {{t[i] : i \in {i \in DOMAIN t : t[i].kind = "mixed"}} : t \in Templates}

MixedApart ==
    \A s \in MixedSegments :
        /\ \E v, w \in s.fits : v # w
        /\ \E v \in Values \ {Empty} : v \notin s.fits
        /\ \A r \in MixedSegments : s.fits \subseteq r.fits => s = r

Fits(s, value) == s.kind = "rest" \/ SegmentMatches(s, value)

LEMMA TemplateShape ==
    ASSUME NEW t \in Templates
    PROVE  /\ Len(t) \in Nat \ {0} /\ DOMAIN t = 1..Len(t)
           /\ t = [i \in 1..Len(t) |-> t[i]]
           /\ \A i \in 1..Len(t) : t[i] \in Segments
           /\ \A i \in 1..(Len(t) - 1) : t[i].kind # "rest"
BY RouteMatchingAssumption

LEMMA MatchesBySegment ==
    ASSUME NEW t \in Templates, NEW path \in Seq(Values)
    PROVE  TemplateMatches(t, path) <=>
            /\ Len(path) >= Len(t)
            /\ ~IsCatchAll(t) => Len(path) = Len(t)
            /\ \A i \in 1..Len(t) : Fits(t[i], path[i])
<1>1. Len(path) \in Nat
  OBVIOUS
<1>2. CASE IsCatchAll(t)
  <2>1. Fits(t[Len(t)], path[Len(t)])
    BY <1>2 DEF IsCatchAll, Fits
  <2>2. \A i \in 1..Len(t) : i = Len(t) \/ i \in 1..(Len(t) - 1)
    BY TemplateShape
  <2>3. \A i \in 1..(Len(t) - 1) : i \in 1..Len(t) /\ t[i].kind # "rest"
    BY TemplateShape
  <2>4. QED
    BY <1>2, <2>1, <2>2, <2>3 DEF TemplateMatches, Fits
<1>3. CASE ~IsCatchAll(t)
  <2>1. \A i \in 1..Len(t) : t[i].kind # "rest"
    <3>1. \A i \in 1..Len(t) : i = Len(t) \/ i \in 1..(Len(t) - 1)
      BY TemplateShape
    <3>2. QED
      BY <1>3, <3>1, TemplateShape DEF IsCatchAll
  <2>2. QED
    BY <1>1, <1>3, <2>1, TemplateShape DEF TemplateMatches, Fits
<1>4. QED
  BY <1>2, <1>3

LEMMA NarrowerSegment ==
    ASSUME MixedApart, \E v, w \in Values \ {Empty} : v # w,
           NEW t \in Templates, NEW i \in DOMAIN t, NEW u \in Templates, NEW j \in DOMAIN u,
           \A v \in Values : Fits(t[i], v) => Fits(u[j], v)
    PROVE  t[i] = u[j] \/ RankOf(t[i]) > RankOf(u[j])
<1> DEFINE s == t[i]
           r == u[j]
<1>1. s \in Segments /\ r \in Segments
  BY TemplateShape
<1>2. /\ s.kind = "mixed" => s \in MixedSegments
      /\ r.kind = "mixed" => r \in MixedSegments
  BY DEF MixedSegments
<1> HIDE DEF s, r
<1>3. /\ s.kind \in {"literal", "mixed", "param", "rest"}
      /\ r.kind \in {"literal", "mixed", "param", "rest"}
      /\ s.kind = "literal" => s.text \in Values
      /\ s.kind = "mixed" => s.fits \subseteq Values \ {Empty}
      /\ r.kind = "mixed" => r.fits \subseteq Values \ {Empty}
  BY <1>1 DEF Segments
<1>4. /\ s.kind = "literal" => s = [kind |-> "literal", text |-> s.text]
      /\ r.kind = "literal" => r = [kind |-> "literal", text |-> r.text]
      /\ s.kind \in {"param", "rest"} => s = [kind |-> s.kind]
      /\ r.kind \in {"param", "rest"} => r = [kind |-> r.kind]
  BY <1>1 DEF Segments
<1>5. \A v \in Values : Fits(s, v) => Fits(r, v)
  BY DEF s, r
<1>6. Empty \in Values
  BY RouteMatchingAssumption
<1>7. CASE s.kind = "literal"
  <2>1. Fits(r, s.text)
    BY <1>3, <1>5, <1>7 DEF Fits, SegmentMatches
  <2>2. QED
    BY <1>3, <1>4, <1>7, <2>1 DEF Fits, SegmentMatches, RankOf, s, r
<1>8. CASE s.kind = "mixed"
  <2>1. s \in MixedSegments /\ \A v \in s.fits : Fits(r, v)
    BY <1>2, <1>3, <1>5, <1>8 DEF Fits, SegmentMatches
  <2>2. PICK v, w \in s.fits : v # w
    BY <2>1 DEF MixedApart
  <2>3. r.kind # "literal"
    BY <2>1, <2>2 DEF Fits, SegmentMatches
  <2>4. r.kind = "mixed" => s.fits \subseteq r.fits
    BY <2>1 DEF Fits, SegmentMatches
  <2>5. r.kind = "mixed" => s = r
    BY <1>2, <2>1, <2>4 DEF MixedApart
  <2>6. QED
    BY <1>3, <1>8, <2>3, <2>5 DEF RankOf, s, r
<1>9. CASE s.kind = "param"
  <2>1. \A v \in Values \ {Empty} : Fits(r, v)
    BY <1>5, <1>9 DEF Fits, SegmentMatches
  <2>2. r.kind # "literal"
    BY <2>1 DEF Fits, SegmentMatches
  <2>3. r.kind # "mixed"
    BY <1>2, <2>1 DEF Fits, SegmentMatches, MixedApart
  <2>4. QED
    BY <1>3, <1>4, <1>9, <2>2, <2>3 DEF RankOf, s, r
<1>10. CASE s.kind = "rest"
  <2>1. \A v \in Values : Fits(r, v)
    BY <1>5, <1>10 DEF Fits
  <2>2. r.kind = "rest"
    BY <1>3, <1>6, <2>1 DEF Fits, SegmentMatches
  <2>3. QED
    BY <1>4, <1>10, <2>2 DEF s, r
<1>11. QED
  BY <1>3, <1>7, <1>8, <1>9, <1>10

\* A template that takes a request and no more than another does is that
\* template, or ranks higher.
LEMMA NarrowerRanksHigher ==
    ASSUME NEW paths \in SUBSET Seq(Values), AnyValueAnywhere(paths), MixedApart,
           NEW t \in Templates, NEW u \in Templates, NEW path \in paths, TemplateMatches(t, path),
           \A p \in paths : TemplateMatches(t, p) => TemplateMatches(u, p)
    PROVE  t = u \/ Greater(RankTemplate(t), RankTemplate(u))
<1>1. path \in Seq(Values) /\ DOMAIN path = 1..Len(path) /\ Len(path) \in Nat
  OBVIOUS
<1>2. /\ Len(path) >= Len(t) /\ (~IsCatchAll(t) => Len(path) = Len(t))
      /\ \A k \in 1..Len(t) : Fits(t[k], path[k])
  BY <1>1, MatchesBySegment
<1>3. TemplateMatches(u, path)
  OBVIOUS
<1>4. Len(path) >= Len(u)
  BY <1>1, <1>3, MatchesBySegment
<1>5. ASSUME NEW i \in DOMAIN t, i \in DOMAIN u, NEW v \in Values, Fits(t[i], v)
      PROVE  Fits(u[i], v)
  <2> DEFINE p == [path EXCEPT ![i] = v]
  <2>1. i \in DOMAIN path
    BY <1>1, <1>2, TemplateShape
  <2>2. p \in paths /\ p \in Seq(Values)
    BY <2>1 DEF AnyValueAnywhere
  <2>3. Len(p) = Len(path) /\ p[i] = v /\ \A k \in 1..Len(path) : k # i => p[k] = path[k]
    BY <1>1, <2>1
  <2> HIDE DEF p
  <2>4. \A k \in 1..Len(t) : Fits(t[k], p[k])
    BY <1>1, <1>2, <1>5, <2>3, TemplateShape
  <2>5. TemplateMatches(t, p)
    BY <1>2, <2>2, <2>3, <2>4, MatchesBySegment
  <2>6. TemplateMatches(u, p)
    BY <2>2, <2>5
  <2>7. Fits(u[i], p[i])
    BY <1>5, <2>2, <2>6, MatchesBySegment, TemplateShape
  <2>8. QED
    BY <2>3, <2>7
<1>6. ASSUME NEW i \in DOMAIN t, i \in DOMAIN u
      PROVE  t[i] = u[i] \/ RankOf(t[i]) > RankOf(u[i])
  BY <1>5, <1>6, NarrowerSegment DEF AnyValueAnywhere
<1> DEFINE differ == {i \in Nat \ {0} : (i \in DOMAIN t \/ i \in DOMAIN u)
                                        /\ ~(i \in DOMAIN t /\ i \in DOMAIN u /\ t[i] = u[i])}
<1>7. CASE differ = {}
  <2>1. DOMAIN t = DOMAIN u
    BY <1>7, TemplateShape
  <2>2. \A i \in DOMAIN t : t[i] = u[i]
    BY <1>7, <2>1, TemplateShape
  <2>3. Len(t) = Len(u)
    BY <2>1, TemplateShape
  <2>4. QED
    BY <2>2, <2>3, TemplateShape
<1>8. CASE differ # {}
  <2>1. PICK i \in differ : \A j \in differ : i <= j
    BY <1>8, LeastNumber
  <2>2. \A j \in 1..(i - 1) : j \in DOMAIN t /\ j \in DOMAIN u /\ t[j] = u[j]
    <3> SUFFICES ASSUME NEW j \in 1..(i - 1) PROVE j \in DOMAIN t /\ j \in DOMAIN u /\ t[j] = u[j]
      OBVIOUS
    <3>1. j \in Nat \ {0} /\ j < i /\ j \notin differ
      BY <2>1
    <3>2. j \in DOMAIN t \/ j \in DOMAIN u
      BY <2>1, <3>1, TemplateShape
    <3>3. QED
      BY <3>1, <3>2
  <2>3. i \in DOMAIN t
    <3> SUFFICES ASSUME i \notin DOMAIN t PROVE FALSE
      OBVIOUS
    <3>1. i \in DOMAIN u /\ Len(u) > Len(t)
      BY <2>1, TemplateShape
    <3>2. Len(t) \in 1..(i - 1)
      BY <2>1, TemplateShape
    <3>3. t[Len(t)] = u[Len(t)] /\ Len(t) \in 1..(Len(u) - 1)
      BY <2>2, <3>1, <3>2, TemplateShape
    <3>4. ~IsCatchAll(t)
      BY <3>3, TemplateShape DEF IsCatchAll
    <3>5. QED
      BY <1>1, <1>2, <1>4, <3>1, <3>4, TemplateShape
  <2>4. \A k \in DOMAIN t : RankTemplate(t)[k] = RankOf(t[k])
    BY DEF RankTemplate
  <2>5. \A k \in DOMAIN u : RankTemplate(u)[k] = RankOf(u[k])
    BY DEF RankTemplate
  <2>6. DOMAIN RankTemplate(t) = DOMAIN t /\ DOMAIN RankTemplate(u) = DOMAIN u
    BY DEF RankTemplate
  <2>7. i \in DOMAIN u => RankOf(t[i]) > RankOf(u[i])
    BY <1>6, <2>1, <2>3
  <2>8. \A j \in 1..(i - 1) : RankTemplate(t)[j] = RankTemplate(u)[j]
    BY <2>2, <2>4, <2>5
  <2>9. i \in DOMAIN u => RankTemplate(t)[i] > RankTemplate(u)[i]
    BY <2>3, <2>4, <2>5, <2>7
  <2>10. QED
    BY <2>2, <2>3, <2>6, <2>8, <2>9 DEF Greater
<1>9. QED
  BY <1>7, <1>8

(***************************************************************************)
(* The loop.                                                               *)
(***************************************************************************)
\* No key that the loop has seen beats its best.
LoopInv ==
    /\ TypeOK
    /\ method # request[1] =>
        /\ request[1] = "HEAD" /\ method = "GET"
        /\ Candidates(routes, "HEAD", request[2]) = {}
    /\ best # NoRoute => best \in Candidates(routes, method, request[2])
    /\ \A key \in Candidates(routes, method, request[2]) \ todo :
            best # NoRoute /\ ~Beats(key, best)
    /\ done => todo = {} /\ (best # NoRoute \/ method # "HEAD")

LEMMA InitLoop == Init => LoopInv
<1> SUFFICES ASSUME Init PROVE LoopInv
  OBVIOUS
<1>1. routes \subseteq RouteKeys
  BY RouteMatchAssumption DEF Init
<1>2. QED
  BY <1>1 DEF Init, LoopInv, TypeOK, Candidates

LEMMA IterateKeepsBest ==
    ASSUME LoopInv, NEW key \in todo, Iterate(key)
    PROVE  LoopInv'
<1> DEFINE cands == Candidates(routes, method, request[2])
<1>1. /\ UNCHANGED <<routes, request, method, done>> /\ todo' = todo \ {key}
      /\ key \in RouteKeys /\ routes \subseteq RouteKeys /\ key \in routes
      /\ cands \subseteq RouteKeys /\ cands' = cands
  BY DEF Iterate, LoopInv, TypeOK, Candidates
<1>2. \A other \in cands \ todo : best # NoRoute /\ ~Beats(other, best)
  BY DEF LoopInv
<1>3. best = NoRoute \/ (best \in routes /\ best[1] = method)
  BY DEF LoopInv, TypeOK
<1>4. CASE key \in cands /\ (best = NoRoute \/ Beats(key, best))
  <2>1. best' = key
    BY <1>4 DEF Iterate
  <2>2. ASSUME NEW other \in cands \ todo' PROVE best' # NoRoute /\ ~Beats(other, best')
    <3>1. best' # NoRoute
      BY <1>1, <2>1, KeyTypes
    <3>2. CASE other = key
      BY <1>1, <2>1, <3>1, <3>2, BeatsIrreflexive
    <3>3. CASE other # key
      <4>1. other \in cands \ todo /\ other \in RouteKeys
        BY <1>1, <2>2, <3>3
      <4>2. best \in RouteKeys /\ Beats(key, best) /\ ~Beats(other, best)
        BY <1>1, <1>2, <1>3, <1>4, <4>1
      <4>3. ~Beats(other, key)
        BY <1>1, <4>1, <4>2, BeatsTransitive
      <4>4. QED
        BY <2>1, <3>1, <4>3
    <3>4. QED
      BY <3>2, <3>3
  <2>3. key[1] = method
    BY <1>4 DEF Candidates
  <2>4. QED
    BY <1>1, <1>4, <2>1, <2>2, <2>3 DEF LoopInv, TypeOK
<1>5. CASE ~(key \in cands /\ (best = NoRoute \/ Beats(key, best)))
  <2>1. best' = best
    BY <1>5 DEF Iterate
  <2>2. ASSUME NEW other \in cands \ todo' PROVE best' # NoRoute /\ ~Beats(other, best')
    <3>1. CASE other = key
      BY <1>5, <2>1, <2>2, <3>1
    <3>2. CASE other # key
      BY <1>1, <1>2, <2>1, <2>2, <3>2
    <3>3. QED
      BY <3>1, <3>2
  <2>3. QED
    BY <1>1, <1>4, <2>1, <2>2 DEF LoopInv, TypeOK
<1>6. QED
  BY <1>4, <1>5

LEMMA NextLoop == LoopInv /\ [Next]_vars => LoopInv'
<1> SUFFICES ASSUME LoopInv, [Next]_vars PROVE LoopInv'
  OBVIOUS
<1>1. ASSUME NEW key \in todo, Iterate(key) PROVE LoopInv'
  BY <1>1, IterateKeepsBest
<1>2. CASE FallBack
  <2>1. /\ routes' = routes /\ request' = request /\ todo' = routes
        /\ best' = NoRoute /\ method' = "GET" /\ done' = done
    BY <1>2 DEF FallBack
  <2>2. Candidates(routes, method, request[2])' \ todo' = {}
    BY <2>1 DEF Candidates
  <2>3. method = "HEAD" /\ todo = {} /\ best = NoRoute /\ done = FALSE
    BY <1>2 DEF FallBack, LoopInv, TypeOK
  <2>4. request[1] = "HEAD"
    BY <2>3 DEF LoopInv, TypeOK
  <2>5. Candidates(routes, "HEAD", request[2]) = {}
    BY <2>3 DEF LoopInv
  <2>6. TypeOK'
    BY <2>1 DEF LoopInv, TypeOK
  <2>7. Candidates(routes, "HEAD", request[2])' = {}
    BY <2>1, <2>5
  <2>8. QED
    BY <2>1, <2>2, <2>3, <2>4, <2>6, <2>7 DEF LoopInv
<1>3. CASE Return
  BY <1>3 DEF Return, LoopInv, TypeOK, Candidates
<1>4. CASE UNCHANGED vars
  BY <1>4 DEF vars, LoopInv, TypeOK, Candidates
<1>5. QED
  BY <1>1, <1>2, <1>3, <1>4 DEF Next

\* The loop of matchRoute keeps its state well formed.
THEOREM LoopTypeCorrect == Spec => []TypeOK
<1>1. LoopInv => TypeOK
  BY DEF LoopInv
<1>2. QED
  BY InitLoop, NextLoop, <1>1, PTL DEF Spec

\* Whatever order the map yields its keys in, no candidate beats the route
\* that matchRoute returns.
THEOREM BestIsUnbeaten == Spec => []NoRouteBeatsBest
<1>1. LoopInv => NoRouteBeatsBest
  BY DEF LoopInv, NoRouteBeatsBest
<1>2. QED
  BY InitLoop, NextLoop, <1>1, PTL DEF Spec

\* The route that matchRoute returns does not depend on the order of the map:
\* it is a function of the documented routes and the request, the one that the
\* recorder is modelled with (match.go:21).
THEOREM OrderIsImmaterial == Spec => []OrderDoesNotMatter
<1>1. LoopInv => OrderDoesNotMatter
  <2> SUFFICES ASSUME LoopInv, done
               PROVE  best = MatchRoute(routes, request[1], request[2])
    BY DEF OrderDoesNotMatter
  <2> DEFINE cands == Candidates(routes, method, request[2])
  <2>1. /\ routes \subseteq RouteKeys /\ method \in {request[1], "GET"}
        /\ \A key \in cands : best # NoRoute /\ ~Beats(key, best)
        /\ best = NoRoute \/ best \in routes
        /\ best # NoRoute \/ method # "HEAD"
    BY DEF LoopInv, TypeOK
  <2>2. best # NoRoute => best \in cands
    BY DEF LoopInv
  <2>3. best = BestRoute(routes, method, request[2])
    <3>1. CASE best = NoRoute
      BY <2>1, <3>1, NoCandidateNoRoute
    <3>2. CASE best # NoRoute
      BY <2>1, <2>2, <3>2, UnbeatenIsBest
    <3>3. QED
      BY <3>1, <3>2
  <2>4. CASE method = request[1]
    BY <2>1, <2>3, <2>4 DEF MatchRoute
  <2>5. CASE method # request[1]
    <3>1. request[1] = "HEAD" /\ method = "GET" /\ Candidates(routes, "HEAD", request[2]) = {}
      BY <2>5 DEF LoopInv
    <3>2. BestRoute(routes, "HEAD", request[2]) = NoRoute
      BY <3>1, NoCandidateNoRoute
    <3>3. QED
      BY <2>3, <3>1, <3>2 DEF MatchRoute
  <2>6. QED
    BY <2>4, <2>5
<1>2. QED
  BY InitLoop, NextLoop, <1>1, PTL DEF Spec

\* The route that matchRoute returns is no broader than another that matches,
\* when paths may hold any value in any segment and no mixed segment fits a part
\* of what another one fits (RankOf, the ranks of match.go:37): a status is
\* never credited to a template when a more specific one took the request.
THEOREM NarrowestRouteWins ==
    ASSUME AnyValueAnywhere(Paths), MixedApart
    PROVE  Spec => []NarrowerRouteWins
<1>1. LoopInv => NarrowerRouteWins
  <2> SUFFICES ASSUME LoopInv, done, best # NoRoute,
                      NEW key \in Candidates(routes, method, request[2]),
                      Reach(key) \subseteq Reach(best), Reach(key) # Reach(best)
               PROVE  FALSE
    BY DEF NarrowerRouteWins
  <2>1. /\ key \in RouteKeys /\ best \in RouteKeys /\ request[2] \in Paths
        /\ todo = {} /\ ~Beats(key, best)
    BY DEF LoopInv, TypeOK, Candidates
  <2>2. TemplateMatches(key[2], request[2])
    BY DEF Candidates
  <2>3. \A p \in Paths : TemplateMatches(key[2], p) => TemplateMatches(best[2], p)
    BY DEF Reach
  <2>4. key[2] \in Templates /\ best[2] \in Templates /\ Paths \subseteq Seq(Values)
    BY <2>1, KeyTypes, RouteMatchAssumption
  <2>5. key[2] = best[2] \/ Greater(RankTemplate(key[2]), RankTemplate(best[2]))
    BY <2>1, <2>2, <2>3, <2>4, NarrowerRanksHigher
  <2>6. key[2] # best[2]
    BY DEF Reach
  <2>7. QED
    BY <2>1, <2>5, <2>6 DEF Beats
<1>2. QED
  BY InitLoop, NextLoop, <1>1, PTL DEF Spec
=============================================================================
