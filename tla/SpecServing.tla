---------------------------- MODULE SpecServing ----------------------------
(***************************************************************************)
(* What a generator promises its callers (specout.go, serve.go), without   *)
(* builds, errors kept between calls, or routers: declarations are taken   *)
(* until one document is published; that document describes exactly the    *)
(* declarations taken; from then on every caller that asks gets it, and    *)
(* nobody is refused.                                                      *)
(***************************************************************************)
CONSTANTS Callers, Declarations, NoDocument, NoAnswer, Refused

VARIABLES
    taken,      \* the declarations accepted so far
    document,   \* the published document: the declarations it describes
    answer      \* what each caller was told last

vars == <<taken, document, answer>>

Init ==
    /\ taken = {}
    /\ document = NoDocument
    /\ answer = [c \in Callers |-> NoAnswer]

Declare(x) ==
    /\ document = NoDocument
    /\ taken' = taken \cup {x}
    /\ UNCHANGED <<document, answer>>

Publish(c) ==
    /\ document = NoDocument
    /\ document' = taken
    /\ answer' = [answer EXCEPT ![c] = taken]
    /\ UNCHANGED taken

Repeat(c) ==
    /\ document # NoDocument
    /\ answer' = [answer EXCEPT ![c] = document]
    /\ UNCHANGED <<taken, document>>

Refuse(c) ==
    /\ document = NoDocument
    /\ answer' = [answer EXCEPT ![c] = Refused]
    /\ UNCHANGED <<taken, document>>

Next ==
    \/ \E x \in Declarations : Declare(x)
    \/ \E c \in Callers : Publish(c) \/ Repeat(c) \/ Refuse(c)

Spec == Init /\ [][Next]_vars
=============================================================================
