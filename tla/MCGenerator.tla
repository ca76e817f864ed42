---------------------------- MODULE MCGenerator ----------------------------
(***************************************************************************)
(* A program with a chi route on a router that may be mounted in another,  *)
(* a net/http route or a second chi route, and one webhook.  The webhook   *)
(* and the first route reflect two types that share a default name, and    *)
(* the route's type may hold a union.                                      *)
(***************************************************************************)
EXTENDS Generator, TLC

CONSTANTS c1, c2, list, health, done, api, root, v1, GET, items, healthz, all, spec, Order, Line, bill

Chi(router, pattern) == [method |-> GET, pattern |-> pattern, router |-> router, kind |-> "relative"]
Std(pattern) == [method |-> GET, pattern |-> pattern, router |-> NoRouter, kind |-> "absolute"]

\* The net/http route beside a chi route.
MCDecl == [r \in Routes |-> IF r = list THEN Chi(api, items) ELSE Std(healthz)]

\* Two chi routes: `health` on the outer router may repeat the path of `list`.
TwoChi == [r \in Routes |-> IF r = list THEN Chi(api, items) ELSE Chi(root, items)]

MCDocumented == [p \in Patterns |-> p]
MCHierarchy == [d \in Patterns \cup {spec} |-> d]
MountV1 == [inner |-> api, prefix |-> v1, outer |-> root]
MCMounts == {MountV1}
MCStrays == {[router |-> api, method |-> GET, pattern |-> items, handler |-> Foreign]}
MCWebhookKey == [w \in Webhooks |-> w]
MCDefaultName == [t \in Types |-> "Order"]
MCUses == [x \in Routes \cup Webhooks |-> IF x = list THEN {Order} ELSE IF x = done THEN {Line} ELSE {}]
NoUnions == [x \in Routes \cup Webhooks |-> {}]
ListUnion == [x \in Routes \cup Webhooks |-> IF x = list THEN {bill} ELSE {}]
MCNames == {"Order", "Line"}
OneName == {"Order"}

Request(via) == [method |-> "GET", path |-> <<NoPrefix, spec>>, via |-> via]
HeadRequest(via) == [method |-> "HEAD", path |-> <<NoPrefix, spec>>, via |-> via]
BothMethods == {Request(NoRouter), HeadRequest(NoRouter)}
AnyRequests == {Request(root), Request(NoRouter)}
=============================================================================
