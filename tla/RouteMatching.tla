--------------------------- MODULE RouteMatching ---------------------------
(***************************************************************************)
(* How the recorder matches a request that it saw no route for against the *)
(* templates of the documented routes (recorder/match.go).  A path is the  *)
(* sequence of its unescaped segments and a template the sequence of its   *)
(* segments; a segment that mixes text and parameters is the set of the    *)
(* values that its regular expression fits.                                *)
(***************************************************************************)
EXTENDS Integers, Sequences, FiniteSets

CONSTANTS
    Methods,    \* request methods, "GET" and "HEAD" among them
    Values,     \* path segments
    Empty,      \* the segment that a trailing slash leaves
    Templates,  \* path templates
    StringOrder,\* StringOrder[t]: place of t among the templates as strings
    NoRoute     \* no documented route

Segments ==
    [kind : {"literal"}, text : Values] \cup [kind : {"param", "rest"}]
        \cup [kind : {"mixed"}, fits : SUBSET (Values \ {Empty})]

RouteKeys == Methods \X Templates

\* The paths hold every value in every segment, as the paths of requests do.
AnyValueAnywhere(paths) ==
    /\ \E v, w \in Values \ {Empty} : v # w
    /\ \A path \in paths : \A i \in DOMAIN path : \A v \in Values : [path EXCEPT ![i] = v] \in paths

\* A catch-all ends a template: elsewhere * is text and {name...} a parameter.
ASSUME RouteMatchingAssumption ==
    /\ {"GET", "HEAD"} \subseteq Methods
    /\ Empty \in Values
    /\ \A t \in Templates :
        /\ t \in Seq(Segments) /\ Len(t) > 0
        /\ \A i \in 1..(Len(t) - 1) : t[i].kind # "rest"
    /\ StringOrder \in [Templates -> Int]
    /\ \A t, u \in Templates : t # u => StringOrder[t] # StringOrder[u]
    /\ \A key \in RouteKeys : key # NoRoute

\* matchSegment.
SegmentMatches(segment, value) ==
    \/ segment.kind = "literal" /\ segment.text = value
    \/ segment.kind = "param" /\ value # Empty
    \/ segment.kind = "mixed" /\ value \in segment.fits

IsCatchAll(template) == template[Len(template)].kind = "rest"

\* matchTemplate, its verdict.
TemplateMatches(template, path) ==
    IF IsCatchAll(template)
    THEN /\ Len(path) >= Len(template)
         /\ \A i \in 1..(Len(template) - 1) : SegmentMatches(template[i], path[i])
    ELSE /\ Len(path) = Len(template)
         /\ \A i \in 1..Len(template) : SegmentMatches(template[i], path[i])

\* Fault: a mixed segment ranks as a parameter.
RankOfNoMixed(segment) ==
    IF segment.kind = "literal" THEN 3
    ELSE IF segment.kind = "rest" THEN 0 ELSE 1

RankOf(segment) ==
    IF segment.kind = "literal" THEN 3
    ELSE IF segment.kind = "mixed" THEN 2
    ELSE IF segment.kind = "param" THEN 1 ELSE 0

\* matchTemplate, its rank.
RankTemplate(template) == [i \in DOMAIN template |-> RankOf(template[i])]

\* slices.Compare(a, b) > 0.
Greater(a, b) ==
    \E i \in DOMAIN a :
        /\ i \in DOMAIN b => a[i] > b[i]
        /\ \A j \in 1..(i - 1) : j \in DOMAIN b /\ a[j] = b[j]

\* Fault: two templates of one rank are not told apart.
BeatsNoTie(key, best) == Greater(RankTemplate(key[2]), RankTemplate(best[2]))

\* The condition under which the loop of matchRoute replaces best.
Beats(key, best) ==
    \/ Greater(RankTemplate(key[2]), RankTemplate(best[2]))
    \/ /\ RankTemplate(key[2]) = RankTemplate(best[2])
       /\ StringOrder[key[2]] < StringOrder[best[2]]

Candidates(keys, method, path) ==
    {key \in keys : key[1] = method /\ TemplateMatches(key[2], path)}

\* The route that one method finds: the candidate that no other beats.
BestRoute(keys, method, path) ==
    LET candidates == Candidates(keys, method, path) IN
    IF candidates = {} THEN NoRoute
    ELSE CHOOSE key \in candidates : \A other \in candidates : ~Beats(other, key)

\* matchRoute: a HEAD request without a HEAD route goes to the GET route.
MatchRoute(keys, method, path) ==
    LET best == BestRoute(keys, method, path) IN
    IF best = NoRoute /\ method = "HEAD" THEN BestRoute(keys, "GET", path) ELSE best
=============================================================================
