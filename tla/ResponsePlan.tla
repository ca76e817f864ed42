---------------------------- MODULE ResponsePlan ----------------------------
(***************************************************************************)
(* The responses of one route, as registration derives them (responses.go) *)
(* and as the status maps fold them (statusmap.go).  The behaviour is the  *)
(* walk of responsePlan over the declarations of the route: the default    *)
(* that Res gives, each Response in order, then Config.DefaultErrors; a    *)
(* route with Raw.responses walks those instead.  checkResponses then      *)
(* accepts the plan or panics.  A panic leaves no record.                  *)
(*                                                                         *)
(* The text of headers, links, examples and descriptions is left out: no   *)
(* key, code or body depends on it.                                        *)
(***************************************************************************)
EXTENDS Integers, Sequences, FiniteSets

CONSTANTS
    Statuses,   \* the statuses that routes and the Config name, 100-599
    Routes,     \* the routes a program may register, as far as responses go
    Configs,    \* Config.ErrorType and Config.DefaultErrors
    NoRaw       \* no Raw.responses

Default == <<"default", 0>>         \* Key "default"
Range(n) == <<"range", n>>          \* Key "nXX"
Code(c) == <<"code", c>>            \* a status number as a key
Unset == <<"unset", 0>>             \* no Key
Typo == <<"typo", 0>>               \* a Key that is neither
Extension == <<"extension", 0>>     \* a key that starts with x-

IsStatus(c) == 100 <= c /\ c <= 599
Ranges == {Range(n) : n \in 1..5}

\* The keys of responses.
Keys == {Default} \cup Ranges \cup {Code(c) : c \in Statuses}

\* A body: nil, the empty struct of NoContent, Res, Config.ErrorType, or another.
Bodies == {"nil", "empty", "res", "error", "other"}
HasBody(body) == body \notin {"nil", "empty"}

\* describesBody: ContentTypes, Example or Examples are set.  wellFormed: the
\* headers, links, media types and Raw keys pass their own checks.
Responses ==
    [status : {c \in Int : IsStatus(c) => c \in Statuses}, key : Ranges \cup {Default, Unset, Typo}, omit : BOOLEAN, type : Bodies,
     describesBody : BOOLEAN, rawContent : BOOLEAN, wellFormed : BOOLEAN]

\* An entry of Raw.responses: a Response object, a Reference object, or a value
\* that is neither (no object, or one without a description).  content: the
\* object has the member "content".
RawEntries ==
    [key : Keys \cup {Typo, Extension}, is : {"response", "reference", "neither"}, content : BOOLEAN]

\* checkRoute rejects a route with both Responses and Raw.responses, and
\* checkDefaultErrors a code that is no status or carries no body.
ASSUME ResponsePlanAssumption ==
    /\ {200, 204} \subseteq Statuses /\ Statuses \subseteq 100..599
    /\ \A route \in Routes :
        /\ route.responses \in Seq(Responses)
        /\ route.res \in {"empty", "res"}
        /\ route.public \in BOOLEAN /\ route.outgoing \in BOOLEAN /\ route.head \in BOOLEAN
        /\ route.raw # NoRaw =>
            /\ route.responses = <<>> /\ route.raw \subseteq RawEntries
            /\ \A e, f \in route.raw : e.key = f.key /\ e.key \in Keys => e = f
    /\ \A config \in Configs :
        /\ config.errorType \in {"nil", "empty", "error"}
        /\ config.defaultErrors \in Seq({0} \cup (Statuses \ ((100..199) \cup {204, 205, 304})))

VARIABLES
    route,      \* routeRecord: what the program declared
    cfg,        \* Generator.cfg
    pc,         \* where the walk is
    at,         \* the declaration, raw key or default error it is at
    order,      \* plannedResponses.order
    byKey,      \* plannedResponses.byKey
    omitted,    \* plannedResponses.omitted
    coverage    \* what the walk without defaults returned: its codes

vars == <<route, cfg, pc, at, order, byKey, omitted, coverage>>
-----------------------------------------------------------------------------
(* Keys, classes and bodies of one declaration. *)

\* responseKey, where it does not panic.
KeyOf(resp) == IF resp.key = Unset THEN Code(resp.status) ELSE resp.key

\* Fault: 304 Not Modified replaces the 200 too.
IsSuccessWithNotModified(resp) ==
    /\ ~resp.omit
    /\ IF resp.key # Unset THEN resp.key \in {Range(2), Range(3)}
       ELSE resp.status \in {101} \cup 200..399

\* successResponse.
IsSuccess(resp) ==
    /\ ~resp.omit
    /\ IF resp.key # Unset THEN resp.key \in {Range(2), Range(3)}
       ELSE resp.status \in ({101} \cup 200..399) \ {304}

\* responsePlan and responseKey panic: no status and no key, a number that is
\* no status, a Key that is neither, or a status outside the range of the Key.
Malformed(resp) ==
    \/ resp.status = 0 /\ resp.key = Unset
    \/ resp.status # 0 /\ ~IsStatus(resp.status)
    \/ resp.key = Typo
    \/ resp.key \in Ranges /\ resp.status # 0 /\ resp.status \div 100 # resp.key[2]

Bodyless(c) == c \in (100..199) \cup {204, 205, 304}

\* bodyless, of a declaration: a Key stands for the whole range.
BodylessResponse(resp) ==
    IF resp.key # Unset THEN resp.key = Range(1) ELSE Bodyless(resp.status)

IsErrorClass(resp) ==
    IF resp.key # Unset THEN resp.key \in {Default, Range(4), Range(5)} ELSE resp.status >= 400

IsSuccessClass(resp) ==
    IF resp.key # Unset THEN resp.key = Range(2) ELSE resp.status \in 200..299

\* declaredType: Type, or the body that the status has by default.
DeclaredType(resp) ==
    IF resp.type # "nil" THEN resp.type
    ELSE IF BodylessResponse(resp) THEN "nil"
    ELSE IF IsSuccessClass(resp) THEN route.res
    ELSE IF IsErrorClass(resp) /\ ~route.outgoing THEN cfg.errorType
    ELSE "nil"
-----------------------------------------------------------------------------
(* plannedResponses. *)

\* An entry: its concrete code (0 for none), its body, and the declaration
\* that asked for it (0 for a derived one).
Entry(code, body, by) == [code |-> code, body |-> body, by |-> by]

\* put: adds or replaces the entry of key, and un-omits it.
Put(key, entry) ==
    /\ order' = IF key \in DOMAIN byKey THEN order ELSE Append(order, key)
    /\ byKey' = [k \in DOMAIN byKey \cup {key} |-> IF k = key THEN entry ELSE byKey[k]]
    /\ omitted' = omitted \ {key}

\* The keys of entries().
Planned == DOMAIN byKey \ omitted

Plan == <<order, byKey, omitted>>

\* Fault: a range allows only the code it names.
CodesOfNoRange(key, entry, withDefaults) ==
    IF key = Default /\ withDefaults THEN {0}
    ELSE IF entry.code # 0 THEN {entry.code} ELSE {}

\* Fault: a default response allows no code.
CodesOfNoDefault(key, entry, withDefaults) ==
    IF key = Default /\ withDefaults THEN {}
    ELSE (IF entry.code # 0 THEN {entry.code} ELSE {})
            \cup (IF key \in Ranges /\ withDefaults
                  THEN (key[2] * 100)..(key[2] * 100 + 99) ELSE {})

\* planStatuses, of one entry: 0 stands for any code, and only SpecStatuses
\* expands a range.
CodesOf(key, entry, withDefaults) ==
    IF key = Default /\ withDefaults THEN {0}
    ELSE (IF entry.code # 0 THEN {entry.code} ELSE {})
            \cup (IF key \in Ranges /\ withDefaults
                  THEN (key[2] * 100)..(key[2] * 100 + 99) ELSE {})

PlanStatuses(withDefaults) ==
    UNION {CodesOf(key, byKey[key], withDefaults) : key \in Planned}
-----------------------------------------------------------------------------
(* The walk. *)

Init ==
    /\ route \in Routes /\ cfg \in Configs
    /\ pc = "begin" /\ at = 1
    /\ order = <<>> /\ byKey = <<>> /\ omitted = {} /\ coverage = {}

Panic ==
    /\ pc' = "panicked"
    /\ UNCHANGED <<route, cfg, at, Plan, coverage>>

\* resDefault: Res declares 200, or 204 without a body, unless the route
\* declares a success response of its own.
ResDefault ==
    /\ pc = "begin" /\ route.raw = NoRaw
    /\ pc' = "declared"
    /\ IF \E i \in DOMAIN route.responses : IsSuccess(route.responses[i])
       THEN UNCHANGED Plan
       ELSE IF route.res = "empty"
       THEN Put(Code(204), Entry(204, "nil", 0))
       ELSE Put(Code(200), Entry(200, route.res, 0))
    /\ UNCHANGED <<route, cfg, at, coverage>>

\* One Response of the route.
Declaration ==
    /\ pc = "declared" /\ at <= Len(route.responses)
    /\ LET resp == route.responses[at] IN
       \/ Malformed(resp) /\ Panic
       \/ /\ ~Malformed(resp) /\ resp.omit
          /\ omitted' = omitted \cup {KeyOf(resp)}
          /\ at' = at + 1
          /\ UNCHANGED <<route, cfg, pc, order, byKey, coverage>>
       \/ /\ ~Malformed(resp) /\ ~resp.omit
          /\ Put(KeyOf(resp), Entry(resp.status, DeclaredType(resp), at))
          /\ at' = at + 1
          /\ UNCHANGED <<route, cfg, pc, coverage>>

\* A walk without defaults returns here: these are DeclaredStatuses.
EndDeclared ==
    /\ pc = "declared" /\ at > Len(route.responses)
    /\ coverage' = PlanStatuses(FALSE)
    /\ pc' = "defaults" /\ at' = 1
    /\ UNCHANGED <<route, cfg, Plan>>

\* The codes that putDefaultErrors walks.
DefaultCodes ==
    IF route.outgoing \/ cfg.errorType = "nil" THEN <<>> ELSE cfg.defaultErrors

\* The key of a code of DefaultErrors: 0 is the default response.
DefaultKey(code) == IF code = 0 THEN Default ELSE Code(code)

\* Fault: a declaration that was omitted again does not count as one.
SkipsDefaultByPlan(code) ==
    \/ DefaultKey(code) \in Planned
    \/ route.public /\ code \in {401, 403}

\* putDefaultErrors skips what the route declared or omitted, and the
\* authentication errors of a public route.
SkipsDefault(code) ==
    \/ DefaultKey(code) \in DOMAIN byKey \cup omitted
    \/ route.public /\ code \in {401, 403}

DefaultError ==
    /\ pc = "defaults" /\ at <= Len(DefaultCodes)
    /\ LET code == DefaultCodes[at] IN
       IF SkipsDefault(code) THEN UNCHANGED Plan
       ELSE Put(DefaultKey(code), Entry(code, cfg.errorType, 0))
    /\ at' = at + 1
    /\ UNCHANGED <<route, cfg, pc, coverage>>

\* The order of sortedKeys: digits sort before X, and X before a lower d.
Rank(key) ==
    IF key[1] = "code" THEN 2 * key[2]
    ELSE IF key[1] = "range" THEN 200 * key[2] + 199
    ELSE IF key = Default THEN 2000
    ELSE 3000

\* checkRawValues of checkRoute, which runs before the walk: on a HEAD route no
\* member of Raw.responses has content, extensions and references included.
HeadContent == route.head /\ \E e \in route.raw : e.content

\* Fault: a body may stand under any status.
BadRawEntryAnyStatus(e) == e.key = Typo \/ e.is = "neither"

\* rawEntry and checkRawResponse.  Only a status of its own is looked at for
\* bodies: a range or default has code 0 here.  A Reference passes.
BadRawEntry(e) ==
    \/ e.key = Typo
    \/ e.is = "neither"
    \/ e.is = "response" /\ e.content /\ e.key[1] = "code" /\ Bodyless(e.key[2])

\* Raw.responses replaces the responses object, inherited defaults included.
\* One step takes its next key in order.
RawPending == {e \in route.raw : e.key # Extension /\ e.key \notin DOMAIN byKey}

CheckRawValues ==
    /\ pc = "begin" /\ route.raw # NoRaw
    /\ HeadContent /\ Panic

RawResponse ==
    /\ pc = "begin" /\ route.raw # NoRaw /\ ~HeadContent
    /\ \E e \in RawPending :
        /\ \A f \in RawPending : Rank(e.key) <= Rank(f.key)
        /\ \/ BadRawEntry(e) /\ Panic
           \/ /\ ~BadRawEntry(e)
              /\ Put(e.key, Entry(IF e.key[1] = "code" THEN e.key[2] ELSE 0, "nil", 0))
              /\ UNCHANGED <<route, cfg, pc, at, coverage>>

EndRaw ==
    /\ pc = "begin" /\ route.raw # NoRaw /\ ~HeadContent /\ RawPending = {}
    /\ coverage' = PlanStatuses(FALSE)
    /\ pc' = "planned"
    /\ UNCHANGED <<route, cfg, at, Plan>>

EndDefaults ==
    /\ pc = "defaults" /\ at > Len(DefaultCodes)
    /\ pc' = "planned"
    /\ UNCHANGED <<route, cfg, at, Plan, coverage>>

\* checkResponse panics, or the check of a HEAD route after it.
BadResponse(resp, body) ==
    \/ BodylessResponse(resp) /\ (resp.describesBody \/ HasBody(body) \/ resp.rawContent)
    \/ resp.describesBody /\ (~HasBody(body) \/ resp.rawContent)
    \/ ~resp.wellFormed
    \/ route.head /\ resp.rawContent

Rejected ==
    \/ Planned = {}
    \/ \E key \in Planned :
        byKey[key].by # 0 /\ BadResponse(route.responses[byKey[key].by], byKey[key].body)

\* checkResponses, over the plan with defaults.
CheckResponses ==
    /\ pc = "planned"
    /\ \/ Rejected /\ Panic
       \/ /\ ~Rejected
          /\ pc' = "registered"
          /\ UNCHANGED <<route, cfg, at, Plan, coverage>>

Next ==
    \/ ResDefault \/ Declaration \/ EndDeclared
    \/ DefaultError \/ EndDefaults
    \/ CheckRawValues \/ RawResponse \/ EndRaw
    \/ CheckResponses
    \/ pc \in {"registered", "panicked"} /\ UNCHANGED vars

Spec == Init /\ [][Next]_vars
-----------------------------------------------------------------------------
(* Properties. *)

EntryType == [code : {0} \cup Statuses, body : Bodies, by : Nat]

\* The walk keeps well formed state, and its order lists each key once.
TypeOK ==
    /\ route \in Routes /\ cfg \in Configs
    /\ pc \in {"begin", "declared", "defaults", "planned", "registered", "panicked"}
    /\ at \in Nat \ {0}
    /\ order \in Seq(Keys)
    /\ byKey \in [DOMAIN byKey -> EntryType] /\ DOMAIN byKey \subseteq Keys
    /\ omitted \subseteq Keys
    /\ coverage \subseteq Statuses

\* The document writes each key once: order lists the keys of byKey, without
\* repetition, so no response of a route overwrites another.
EachKeyOnce ==
    /\ {order[i] : i \in DOMAIN order} = DOMAIN byKey
    /\ \A i, j \in DOMAIN order : order[i] = order[j] => i = j

\* Declaration i is the last one of the route that names key.
IsLastWord(i, key) ==
    /\ i \in DOMAIN route.responses
    /\ KeyOf(route.responses[i]) = key
    /\ \A j \in DOMAIN route.responses : j > i => KeyOf(route.responses[j]) # key

Named(key) == \E i \in DOMAIN route.responses : KeyOf(route.responses[i]) = key

\* A route that names no key of its own gets it from Res or from the Config.
FromRes(key) ==
    /\ \A i \in DOMAIN route.responses : ~IsSuccess(route.responses[i])
    /\ key = IF route.res = "empty" THEN Code(204) ELSE Code(200)

FromConfig(key) ==
    \E i \in DOMAIN DefaultCodes :
        /\ key = DefaultKey(DefaultCodes[i])
        /\ ~(route.public /\ DefaultCodes[i] \in {401, 403})

\* The document has the last word of the route on each key: a response when
\* that was a declaration, none when it was an Omit, and for a key the route
\* never names, what Res or the Config gives.  However declarations and
\* omissions alternate, no default comes back for what the route took away.
LastWordStands ==
    pc \in {"planned", "registered"} /\ route.raw = NoRaw =>
        \A key \in Keys :
            /\ key \in Planned <=>
                \/ \E i \in DOMAIN route.responses :
                    IsLastWord(i, key) /\ ~route.responses[i].omit
                \/ ~Named(key) /\ (FromRes(key) \/ FromConfig(key))
            /\ key \in Planned =>
                IF Named(key) THEN IsLastWord(byKey[key].by, key) ELSE byKey[key].by = 0

\* A status that the drift check demands is one that it allows: no test can be
\* told both to produce a code and that the document lacks it.
DemandedIsAllowed ==
    pc = "registered" => coverage \subseteq PlanStatuses(TRUE) \/ 0 \in PlanStatuses(TRUE)

\* Every code that the drift check allows stands in the document, as its own
\* key, in a range or under default, and every key there allows its codes.
Covers(key, code) ==
    \/ key = Code(code)
    \/ key = Default /\ code = 0
    \/ key \in Ranges /\ code \div 100 = key[2]

AllowedIsDocumented ==
    pc = "registered" =>
        PlanStatuses(TRUE) =
            {code \in {0} \cup 100..599 : \E key \in Planned : Covers(key, code)}

\* Whether the document shows content for a planned key.  A HEAD operation
\* drops bodies and media types (withoutBody).  Raw.responses is written as it
\* is; members beside a $ref mean nothing.
HasContent(key) ==
    \/ ~route.head /\ HasBody(byKey[key].body)
    \/ byKey[key].by # 0 /\ route.responses[byKey[key].by].rawContent
    \/ route.raw # NoRaw /\ \E e \in route.raw : e.key = key /\ e.is = "response" /\ e.content

\* No response of a registered route shows content where RFC 9110 forbids it:
\* under a status without a body, the range 1XX, or a HEAD operation, whether
\* Response, Config, Response.Raw or Raw.responses would put it there.  Except
\* for 1XX in Raw.responses, which the code accepts with content.
NoForbiddenContent ==
    pc = "registered" =>
        \A key \in Planned :
            \/ route.head
            \/ key = Range(1) /\ route.raw = NoRaw
            \/ key[1] = "code" /\ Bodyless(key[2])
            => ~HasContent(key)

\* A registered route documents a response, and a success response unless
\* the route took something away with Omit.
SomeResponse ==
    pc = "registered" =>
        /\ Planned # {}
        /\ route.raw = NoRaw /\ (\A i \in DOMAIN route.responses : ~route.responses[i].omit) =>
            \E key \in Planned :
                \/ key \in {Range(2), Range(3), Code(101)}
                \/ key[1] = "code" /\ key[2] \in (200..399) \ {304}
=============================================================================
