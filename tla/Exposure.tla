------------------------------ MODULE Exposure ------------------------------
(***************************************************************************)
(* What registering a route promises (bind.go and the adapters), without   *)
(* routers, gates and locks: a handler answers requests only once its      *)
(* route is in the document, a registration that failed never answers, and *)
(* neither verdict is taken back.                                          *)
(***************************************************************************)
CONSTANT Sites  \* the places where a program registers a route

VARIABLES
    documented,     \* the routes that the document will hold
    rejected,       \* the routes whose registration failed
    served          \* the routes whose handler has answered a request

vars == <<documented, rejected, served>>

Init == documented = {} /\ rejected = {} /\ served = {}

Accept(s) ==
    /\ s \notin documented \cup rejected
    /\ documented' = documented \cup {s}
    /\ UNCHANGED <<rejected, served>>

Reject(s) ==
    /\ s \notin documented \cup rejected
    /\ rejected' = rejected \cup {s}
    /\ UNCHANGED <<documented, served>>

Answer(s) ==
    /\ s \in documented
    /\ served' = served \cup {s}
    /\ UNCHANGED <<documented, rejected>>

Next == \E s \in Sites : Accept(s) \/ Reject(s) \/ Answer(s)

Spec == Init /\ [][Next]_vars
=============================================================================
