----------------------------- MODULE RouteMatch -----------------------------
(***************************************************************************)
(* The loop of matchRoute (recorder/match.go).  It ranges over a Go map,   *)
(* so the keys come in any order; the route it finds must not depend on    *)
(* that order, or one test run counts a status for one route and the next  *)
(* run for another.                                                        *)
(***************************************************************************)
EXTENDS RouteMatching

CONSTANTS
    Paths,      \* request paths
    Documents   \* the sets of documented routes to match against

ASSUME RouteMatchAssumption ==
    /\ Paths \subseteq Seq(Values)
    /\ Documents \subseteq SUBSET RouteKeys

VARIABLES
    routes,     \* the documented routes
    request,    \* method and path of the request
    method,     \* the method that the current call of matchRoute looks for
    todo,       \* the keys that the range has not produced
    best,       \* best, NoRoute while bestRank is nil
    done

vars == <<routes, request, method, todo, best, done>>

Init ==
    /\ routes \in Documents
    /\ request \in Methods \X Paths
    /\ method = request[1]
    /\ todo = routes
    /\ best = NoRoute
    /\ done = FALSE

\* Fault: the first match stands.
IterateFirst(key) ==
    /\ key \in todo
    /\ todo' = todo \ {key}
    /\ best' = IF key \in Candidates(routes, method, request[2]) /\ best = NoRoute
               THEN key ELSE best
    /\ UNCHANGED <<routes, request, method, done>>

\* One iteration of the range.
Iterate(key) ==
    /\ key \in todo
    /\ todo' = todo \ {key}
    /\ best' = IF /\ key \in Candidates(routes, method, request[2])
                  /\ best = NoRoute \/ Beats(key, best)
               THEN key ELSE best
    /\ UNCHANGED <<routes, request, method, done>>

\* A HEAD request with no HEAD route: matchRoute calls itself with GET.
FallBack ==
    /\ todo = {} /\ best = NoRoute /\ method = "HEAD"
    /\ method' = "GET" /\ todo' = routes
    /\ UNCHANGED <<routes, request, best, done>>

Return ==
    /\ todo = {} /\ ~done
    /\ best # NoRoute \/ method # "HEAD"
    /\ done' = TRUE
    /\ UNCHANGED <<routes, request, method, todo, best>>

Next ==
    \/ \E key \in todo : Iterate(key)
    \/ FallBack
    \/ Return
    \/ done /\ UNCHANGED vars

Spec == Init /\ [][Next]_vars
-----------------------------------------------------------------------------
(* Properties. *)

\* The loop keeps well formed state: best is a documented route of the method.
TypeOK ==
    /\ routes \subseteq RouteKeys /\ request \in Methods \X Paths
    /\ method \in {request[1], "GET"}
    /\ todo \subseteq routes
    /\ best = NoRoute \/ (best \in routes /\ best[1] = method)
    /\ done \in BOOLEAN

\* Whatever order the map yields, the result is a candidate that no other
\* candidate beats.
NoRouteBeatsBest ==
    done =>
        \A key \in Candidates(routes, method, request[2]) :
            best # NoRoute /\ ~Beats(key, best)

\* The result does not depend on the order of the map: it is the one that the
\* recorder's Verify is modelled with.
OrderDoesNotMatter == done => best = MatchRoute(routes, request[1], request[2])

\* What a template stands for, among the paths of the model.
Reach(key) == {path \in Paths : TemplateMatches(key[2], path)}

\* The narrower of two templates serves the request, as in the router: a route
\* is never credited with a status that a more specific one produced.
NarrowerRouteWins ==
    done /\ best # NoRoute =>
        \A key \in Candidates(routes, method, request[2]) :
            ~(Reach(key) \subseteq Reach(best) /\ Reach(key) # Reach(best))
=============================================================================
