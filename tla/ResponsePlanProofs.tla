------------------------- MODULE ResponsePlanProofs -------------------------
(***************************************************************************)
(* Proofs about the walk of ResponsePlan, for every set of statuses,       *)
(* routes and configurations.  The walk is what makes them provable        *)
(* without induction over the declarations: WalkInv says what the plan is  *)
(* after the declarations read so far, and each step reads one more.       *)
(***************************************************************************)
EXTENDS ResponsePlan, TLAPS

\* How many declarations the walk has read.
Read == IF pc = "begin" THEN 0
        ELSE IF pc = "declared" THEN at - 1
        ELSE Len(route.responses)

\* Of the first n declarations, i is the last that names key.
LastOf(n, i, key) ==
    /\ i \in 1..n
    /\ KeyOf(route.responses[i]) = key
    /\ \A j \in 1..n : j > i => KeyOf(route.responses[j]) # key

NamedIn(n, key) == \E i \in 1..n : KeyOf(route.responses[i]) = key

Over == pc = "panicked"

\* What the first n declarations, and the defaults before and after them, make
\* of a key: the entries, the omitted keys and the place of the walk.
FollowsWords(n, key, entries, gone, where) ==
    /\ NamedIn(n, key) => \E i \in 1..n : LastOf(n, i, key)
    /\ key \in gone <=> \E i \in 1..n : LastOf(n, i, key) /\ route.responses[i].omit
    /\ \A i \in 1..n : LastOf(n, i, key) /\ ~route.responses[i].omit =>
                        key \in DOMAIN entries /\ entries[key].by = i
    /\ key \in DOMAIN entries /\ ~NamedIn(n, key) =>
            /\ entries[key].by = 0
            /\ FromRes(key) \/ (where # "declared" /\ FromConfig(key))
    /\ where # "begin" /\ FromRes(key) => key \in DOMAIN entries

\* The default errors read so far stand in the plan, unless they are skipped.
DefaultsTaken ==
    \A i \in DOMAIN DefaultCodes :
        /\ pc \in {"planned", "registered"} \/ (pc = "defaults" /\ i < at)
        /\ ~(route.public /\ DefaultCodes[i] \in {401, 403})
        => DefaultKey(DefaultCodes[i]) \in DOMAIN byKey \cup omitted

WalkInv ==
    /\ pc \in {"declared", "begin"} /\ route.raw = NoRaw => at - 1 <= Len(route.responses)
    /\ pc = "begin" => at = 1
    /\ route.raw # NoRaw => pc \in {"begin", "planned", "registered", "panicked"} /\ omitted = {}
    /\ route.raw = NoRaw /\ pc = "begin" => byKey = <<>> /\ omitted = {} /\ order = <<>>
    /\ route.raw = NoRaw /\ ~Over =>
            (\A key \in Keys : FollowsWords(Read, key, byKey, omitted, pc)) /\ DefaultsTaken
-----------------------------------------------------------------------------
(* The constants and the operators of one declaration. *)

\* The codes of one range.
LEMMA Hundreds ==
    \A d \in 1..5, c \in Int : c \in (d * 100)..(d * 100 + 99) <=> c \div 100 = d
OBVIOUS

\* The codes of a range, by their first digit.
LEMMA RangeCodes ==
    ASSUME NEW d \in 1..5, NEW code \in Int
    PROVE  code \in (d * 100)..(d * 100 + 99) <=> code \in {0} \cup 100..599 /\ code \div 100 = d
OBVIOUS

LEMMA SuccessIsStatus ==
    \A c \in Int : c \in ({101} \cup 200..399) \ {304} => IsStatus(c)
BY DEF IsStatus

LEMMA StatusTypes == {200, 204} \subseteq Statuses /\ Statuses \subseteq 100..599
BY ResponsePlanAssumption

LEMMA StatusOrNone == \A c \in {0} \cup Statuses : c \in {0} \cup 100..599
BY StatusTypes

LEMMA RouteTypes ==
    ASSUME TypeOK
    PROVE  /\ route.res \in {"empty", "res"} /\ cfg.errorType \in {"nil", "empty", "error"}
           /\ route.responses \in Seq(Responses)
           /\ Len(route.responses) \in Nat
           /\ DOMAIN route.responses = 1..Len(route.responses)
           /\ \A i \in 1..Len(route.responses) : route.responses[i] \in Responses
           /\ route.raw # NoRaw =>
                /\ route.responses = <<>> /\ route.raw \subseteq RawEntries
                /\ \A e, f \in route.raw : e.key = f.key /\ e.key \in Keys => e = f
           /\ DefaultCodes \in Seq({0} \cup (Statuses \ ((100..199) \cup {204, 205, 304})))
           /\ Len(DefaultCodes) \in Nat /\ DOMAIN DefaultCodes = 1..Len(DefaultCodes)
           /\ \A i \in 1..Len(DefaultCodes) :
                DefaultCodes[i] \in {0} \cup (Statuses \ ((100..199) \cup {204, 205, 304}))
<1>1. route \in Routes /\ cfg \in Configs
  BY DEF TypeOK
<1>2. DefaultCodes \in Seq({0} \cup (Statuses \ ((100..199) \cup {204, 205, 304})))
  BY <1>1, ResponsePlanAssumption DEF DefaultCodes
<1>3. QED
  BY <1>1, <1>2, ResponsePlanAssumption

\* A declaration that does not panic has a key, and its status, if any, is one
\* of the statuses.
LEMMA KeyOfDeclaration ==
    ASSUME NEW resp \in Responses, ~Malformed(resp)
    PROVE  KeyOf(resp) \in Keys /\ resp.status \in {0} \cup Statuses
BY DEF Responses, Malformed, KeyOf, Keys, Ranges, Range, Default, Unset, Typo, Code, IsStatus

\* What a declaration declares is a body.
LEMMA BodyOfDeclaration ==
    ASSUME NEW resp \in Responses, TypeOK
    PROVE  DeclaredType(resp) \in Bodies
<1>1. resp.type \in Bodies
  BY DEF Responses
<1>2. route.res \in Bodies /\ cfg.errorType \in Bodies
  BY RouteTypes DEF Bodies
<1>3. QED
  BY <1>1, <1>2 DEF DeclaredType, Bodies
-----------------------------------------------------------------------------
(* One put. *)

\* put keeps the order free of repetitions and in step with byKey.
LEMMA PutKeepsOrder ==
    ASSUME NEW key \in Keys, NEW entry \in EntryType, TypeOK, EachKeyOnce, Put(key, entry)
    PROVE  /\ order' \in Seq(Keys)
           /\ EachKeyOnce'
           /\ byKey' \in [DOMAIN byKey' -> EntryType] /\ DOMAIN byKey' \subseteq Keys
           /\ omitted' \subseteq Keys
<1>1. order \in Seq(Keys) /\ byKey \in [DOMAIN byKey -> EntryType]
  BY DEF TypeOK
<1>2. DOMAIN byKey' = DOMAIN byKey \cup {key}
      /\ \A k \in DOMAIN byKey' : byKey'[k] = IF k = key THEN entry ELSE byKey[k]
  BY DEF Put
<1>3. byKey' \in [DOMAIN byKey' -> EntryType] /\ DOMAIN byKey' \subseteq Keys /\ omitted' \subseteq Keys
  BY <1>1, <1>2 DEF Put, TypeOK
<1>4. CASE key \in DOMAIN byKey
  BY <1>1, <1>2, <1>3, <1>4 DEF Put, EachKeyOnce
<1>5. CASE key \notin DOMAIN byKey
  <2>1. order' = Append(order, key)
    BY <1>5 DEF Put
  <2>2. order' \in Seq(Keys) /\ Len(order') = Len(order) + 1 /\ order'[Len(order) + 1] = key
        /\ \A i \in 1..Len(order) : order'[i] = order[i]
    BY <1>1, <2>1
  <2>3. DOMAIN order' = 1..(Len(order) + 1) /\ DOMAIN order = 1..Len(order) /\ Len(order) \in Nat
    BY <1>1, <2>2
  <2>4. {order'[i] : i \in DOMAIN order'} = {order[i] : i \in DOMAIN order} \cup {key}
    BY <2>2, <2>3
  <2>5. \A i, j \in DOMAIN order' : order'[i] = order'[j] => i = j
    <3>1. \A i \in DOMAIN order : order[i] # key
      BY <1>5 DEF EachKeyOnce
    <3>2. QED
      BY <3>1, <2>2, <2>3 DEF EachKeyOnce
  <2>6. QED
    BY <1>2, <1>3, <2>2, <2>4, <2>5 DEF EachKeyOnce
<1>6. QED
  BY <1>4, <1>5

\* The codes of a walk without defaults are statuses.
LEMMA CoverageTypes ==
    ASSUME TypeOK
    PROVE  PlanStatuses(FALSE) \subseteq Statuses
BY DEF TypeOK, PlanStatuses, Planned, CodesOf, EntryType
-----------------------------------------------------------------------------
(* Types and order. *)

TypedOrder == TypeOK /\ EachKeyOnce

LEMMA InitTyped == Init => TypedOrder
BY DEF Init, TypedOrder, TypeOK, EachKeyOnce, EntryType

\* A step that leaves the plan alone.
LEMMA SamePlanTyped ==
    ASSUME TypedOrder, UNCHANGED <<route, cfg, order, byKey, omitted>>, at' \in Nat \ {0},
           pc' \in {"begin", "declared", "defaults", "planned", "registered", "panicked"},
           coverage' \subseteq Statuses
    PROVE  TypedOrder'
BY DEF TypedOrder, TypeOK, EachKeyOnce, EntryType

LEMMA PanicTyped == TypedOrder /\ Panic => TypedOrder'
BY DEF Panic, Plan, TypedOrder, TypeOK, EachKeyOnce, EntryType

LEMMA StatusKeys == (\A c \in Statuses : Code(c) \in Keys) /\ {200, 204} \subseteq Statuses
BY StatusTypes DEF Keys

LEMMA NextTyped == TypedOrder /\ [Next]_vars => TypedOrder'
<1> SUFFICES ASSUME TypedOrder, [Next]_vars PROVE TypedOrder'
  OBVIOUS
<1> USE DEF TypedOrder
<1>1. CASE ResDefault
  <2>1. route' = route /\ cfg' = cfg /\ at' = at /\ coverage' = coverage /\ pc' = "declared"
    BY <1>1 DEF ResDefault
  <2>2. Entry(204, "nil", 0) \in EntryType /\ Entry(200, route.res, 0) \in EntryType
    BY RouteTypes, StatusTypes DEF Entry, EntryType, Bodies
  <2>3. Code(200) \in Keys /\ Code(204) \in Keys
    BY StatusKeys
  <2>4. CASE UNCHANGED Plan
    BY <2>1, <2>4 DEF Plan, TypeOK, EachKeyOnce, EntryType
  <2>5. CASE Put(Code(204), Entry(204, "nil", 0))
    BY <2>1, <2>2, <2>3, <2>5, PutKeepsOrder DEF TypeOK
  <2>6. CASE Put(Code(200), Entry(200, route.res, 0))
    BY <2>1, <2>2, <2>3, <2>6, PutKeepsOrder DEF TypeOK
  <2>7. QED
    BY <1>1, <2>4, <2>5, <2>6 DEF ResDefault
<1>2. CASE Declaration
  <2> DEFINE resp == route.responses[at]
  <2>1. resp \in Responses /\ at \in Nat \ {0}
    BY <1>2, RouteTypes DEF Declaration, TypeOK
  <2>2. CASE Malformed(resp) /\ Panic
    BY <2>2, PanicTyped
  <2>3. CASE ~Malformed(resp) /\ resp.omit
    <3>1. omitted' = omitted \cup {KeyOf(resp)} /\ at' = at + 1
          /\ UNCHANGED <<route, cfg, pc, order, byKey, coverage>>
      BY <1>2, <2>3 DEF Declaration, Panic
    <3>2. KeyOf(resp) \in Keys
      BY <2>1, <2>3, KeyOfDeclaration
    <3>3. QED
      BY <2>1, <3>1, <3>2 DEF TypeOK, EachKeyOnce, EntryType
  <2>4. CASE ~Malformed(resp) /\ ~resp.omit
    <3>1. Put(KeyOf(resp), Entry(resp.status, DeclaredType(resp), at)) /\ at' = at + 1
          /\ UNCHANGED <<route, cfg, pc, coverage>>
      BY <1>2, <2>4 DEF Declaration, Panic
    <3>2. KeyOf(resp) \in Keys /\ Entry(resp.status, DeclaredType(resp), at) \in EntryType
      BY <2>1, <2>4, KeyOfDeclaration, BodyOfDeclaration DEF Entry, EntryType
    <3>3. QED
      BY <2>1, <3>1, <3>2, PutKeepsOrder DEF TypeOK
  <2>5. QED
    BY <1>2, <2>2, <2>3, <2>4 DEF Declaration
<1>3. CASE EndDeclared
  <2>1. coverage' \subseteq Statuses
    BY <1>3, CoverageTypes DEF EndDeclared
  <2>2. UNCHANGED <<route, cfg, order, byKey, omitted>> /\ at' = 1 /\ pc' = "defaults"
    BY <1>3 DEF EndDeclared, Plan
  <2>3. QED
    BY <2>1, <2>2, SamePlanTyped
<1>4. CASE DefaultError
  <2> DEFINE code == DefaultCodes[at]
  <2>1. code \in {0} \cup Statuses /\ at \in Nat \ {0}
    BY <1>4, RouteTypes DEF DefaultError, TypeOK
  <2>2. UNCHANGED <<route, cfg, pc, coverage>> /\ at' = at + 1
    BY <1>4 DEF DefaultError
  <2>3. CASE UNCHANGED Plan
    BY <2>1, <2>2, <2>3 DEF Plan, TypeOK, EachKeyOnce, EntryType
  <2>4. CASE Put(DefaultKey(code), Entry(code, cfg.errorType, 0))
    <3>1. DefaultKey(code) \in Keys
      BY <2>1 DEF DefaultKey, Keys
    <3>2. Entry(code, cfg.errorType, 0) \in EntryType
      BY <2>1, RouteTypes DEF Entry, EntryType, Bodies
    <3>3. QED
      BY <2>1, <2>2, <2>4, <3>1, <3>2, PutKeepsOrder DEF TypeOK
  <2>5. QED
    BY <1>4, <2>3, <2>4 DEF DefaultError
<1>5. CASE RawResponse
  <2>1. PICK e \in RawPending :
            \/ BadRawEntry(e) /\ Panic
            \/ /\ ~BadRawEntry(e)
               /\ Put(e.key, Entry(IF e.key[1] = "code" THEN e.key[2] ELSE 0, "nil", 0))
               /\ UNCHANGED <<route, cfg, pc, at, coverage>>
    BY <1>5 DEF RawResponse
  <2>2. CASE Panic
    BY <2>2, PanicTyped
  <2>3. CASE ~BadRawEntry(e) /\ Put(e.key, Entry(IF e.key[1] = "code" THEN e.key[2] ELSE 0, "nil", 0))
              /\ UNCHANGED <<route, cfg, pc, at, coverage>>
    <3>1. e \in RawEntries /\ e.key # Extension
      BY <1>5, RouteTypes DEF RawPending, RawResponse
    <3>2. e.key \in Keys
      BY <2>3, <3>1 DEF BadRawEntry, RawEntries
    <3>3. Entry(IF e.key[1] = "code" THEN e.key[2] ELSE 0, "nil", 0) \in EntryType
      BY <3>2 DEF Entry, EntryType, Bodies, Keys, Code, Default, Range, Ranges
    <3>4. QED
      BY <2>3, <3>2, <3>3, PutKeepsOrder DEF TypeOK
  <2>4. QED
    BY <2>1, <2>2, <2>3
<1>6. CASE EndRaw
  <2>1. coverage' \subseteq Statuses
    BY <1>6, CoverageTypes DEF EndRaw
  <2>2. QED
    BY <1>6, <2>1, SamePlanTyped DEF EndRaw, Plan, TypeOK
<1>7. CASE EndDefaults
  BY <1>7 DEF EndDefaults, Plan, TypeOK, EachKeyOnce, EntryType
<1>8. CASE CheckResponses
  <2>1. CASE Panic
    BY <2>1, PanicTyped
  <2>2. CASE pc' = "registered" /\ UNCHANGED <<route, cfg, at, Plan, coverage>>
    BY <2>2, SamePlanTyped DEF Plan, TypeOK
  <2>3. QED
    BY <1>8, <2>1, <2>2 DEF CheckResponses
<1>9. CASE UNCHANGED vars
  BY <1>9 DEF vars, TypeOK, EachKeyOnce, EntryType
<1>10. CASE CheckRawValues
  BY <1>10, PanicTyped DEF CheckRawValues
<1>11. QED
  BY <1>1, <1>2, <1>3, <1>4, <1>5, <1>6, <1>7, <1>8, <1>9, <1>10 DEF Next

\* The walk of responsePlan keeps its state well formed for every route.
THEOREM PlanTypeCorrect == Spec => []TypeOK
<1>1. TypedOrder => TypeOK
  BY DEF TypedOrder
<1>2. QED
  BY InitTyped, NextTyped, <1>1, PTL DEF Spec

\* No key of a route is listed twice, so no response of the document is
\* overwritten by another.
THEOREM KeysStandOnce == Spec => []EachKeyOnce
<1>1. TypedOrder => EachKeyOnce
  BY DEF TypedOrder
<1>2. QED
  BY InitTyped, NextTyped, <1>1, PTL DEF Spec
-----------------------------------------------------------------------------
(* The last word. *)

\* Reading one more declaration: it becomes the last word on its key, and the
\* last words on other keys stay.
LEMMA OneMoreWord ==
    ASSUME NEW n \in Nat, NEW key, NEW i \in 1..(n + 1)
    PROVE  LastOf(n + 1, i, key) <=>
                \/ i = n + 1 /\ KeyOf(route.responses[n + 1]) = key
                \/ i \in 1..n /\ LastOf(n, i, key) /\ KeyOf(route.responses[n + 1]) # key
BY DEF LastOf

LEMMA OneMoreName ==
    ASSUME NEW n \in Nat, NEW key
    PROVE  NamedIn(n + 1, key) <=> NamedIn(n, key) \/ KeyOf(route.responses[n + 1]) = key
BY DEF NamedIn

\* No key has two last words.
LEMMA LastWordUnique ==
    ASSUME NEW n \in Nat, NEW key, NEW i, NEW j, LastOf(n, i, key), LastOf(n, j, key)
    PROVE  i = j
BY DEF LastOf

\* The walk never changes the route or the configuration.
LEMMA RouteStands ==
    ASSUME UNCHANGED <<route, cfg>>, NEW n, Read' = n, NEW key,
           FollowsWords(n, key, byKey', omitted', pc')
    PROVE  FollowsWords(Read, key, byKey, omitted, pc)'
BY DEF FollowsWords, LastOf, NamedIn, FromRes, FromConfig, DefaultCodes

LEMMA InitWalk == Init /\ TypeOK => WalkInv
<1> SUFFICES ASSUME Init, TypeOK PROVE WalkInv
  OBVIOUS
<1>1. pc = "begin" /\ at = 1 /\ byKey = <<>> /\ omitted = {} /\ order = <<>> /\ Read = 0
  BY DEF Init, Read
<1>2. \A key \in Keys : FollowsWords(0, key, byKey, omitted, pc)
  BY <1>1 DEF FollowsWords, NamedIn, LastOf
<1>3. DefaultsTaken
  BY <1>1 DEF DefaultsTaken
<1>4. QED
  BY <1>1, <1>2, <1>3, RouteTypes DEF WalkInv, Over

\* The next declaration names another key: nothing changes for this one.
LEMMA OtherWord ==
    ASSUME NEW n \in Nat, NEW key, NEW entries, NEW gone, NEW where,
           NEW entries2, NEW gone2, FollowsWords(n, key, entries, gone, where),
           KeyOf(route.responses[n + 1]) # key,
           key \in DOMAIN entries2 <=> key \in DOMAIN entries,
           key \in DOMAIN entries => entries2[key] = entries[key],
           key \in gone2 <=> key \in gone
    PROVE  FollowsWords(n + 1, key, entries2, gone2, where)
<1>1. \A i \in 1..(n + 1) : LastOf(n + 1, i, key) <=> i \in 1..n /\ LastOf(n, i, key)
  BY OneMoreWord
<1>2. NamedIn(n + 1, key) <=> NamedIn(n, key)
  BY OneMoreName
<1>3. 1..n \subseteq 1..(n + 1)
  OBVIOUS
<1>4. QED
  BY <1>1, <1>2, <1>3 DEF FollowsWords

\* The next declaration names this key: it is its last word.
LEMMA ThisWord ==
    ASSUME NEW n \in Nat, NEW key, NEW entries, NEW gone, NEW where,
           NEW entries2, NEW gone2, FollowsWords(n, key, entries, gone, where),
           KeyOf(route.responses[n + 1]) = key,
           DOMAIN entries \subseteq DOMAIN entries2,
           key \in gone2 <=> route.responses[n + 1].omit,
           ~route.responses[n + 1].omit => key \in DOMAIN entries2 /\ entries2[key].by = n + 1
    PROVE  FollowsWords(n + 1, key, entries2, gone2, where)
<1>1. \A i \in 1..(n + 1) : LastOf(n + 1, i, key) <=> i = n + 1
  BY DEF LastOf
<1>2. NamedIn(n + 1, key) /\ n + 1 \in 1..(n + 1)
  BY DEF NamedIn
<1>3. QED
  BY <1>1, <1>2 DEF FollowsWords

LEMMA ResDefaultWalk == TypeOK /\ WalkInv /\ ResDefault => WalkInv'
<1> SUFFICES ASSUME TypeOK, WalkInv, ResDefault PROVE WalkInv'
  OBVIOUS
<1>1. /\ route.raw = NoRaw /\ pc = "begin" /\ at = 1 /\ byKey = <<>> /\ omitted = {}
      /\ pc' = "declared" /\ at' = at /\ UNCHANGED <<route, cfg>>
  BY DEF ResDefault, WalkInv
<1>2. Read' = 0
  BY <1>1 DEF Read
<1>3. omitted' = {}
  BY <1>1 DEF ResDefault, Put, Plan
<1>4. \A key \in DOMAIN byKey' : byKey'[key].by = 0 /\ FromRes(key)
  BY <1>1 DEF ResDefault, Put, Plan, FromRes, Entry
<1>5. \A key : FromRes(key) => key \in DOMAIN byKey'
  BY <1>1 DEF ResDefault, Put, Plan, FromRes, Entry
<1>6. \A key \in Keys : FollowsWords(0, key, byKey', omitted', pc')
  BY <1>1, <1>3, <1>4, <1>5 DEF FollowsWords, NamedIn, LastOf
<1>7. \A key \in Keys : FollowsWords(Read, key, byKey, omitted, pc)'
  BY <1>1, <1>2, <1>6, RouteStands
<1>8. DefaultsTaken'
  BY <1>1 DEF DefaultsTaken
<1>9. QED
  BY <1>1, <1>7, <1>8, RouteTypes DEF WalkInv, Over

LEMMA PanicWalk == WalkInv /\ Panic /\ pc # "begin" => WalkInv'
BY DEF Panic, WalkInv, Plan, Over

LEMMA DeclarationWalk == TypeOK /\ WalkInv /\ Declaration => WalkInv'
<1> SUFFICES ASSUME TypeOK, WalkInv, Declaration PROVE WalkInv'
  OBVIOUS
<1> DEFINE n == at - 1
           resp == route.responses[at]
<1>1. /\ route.raw = NoRaw /\ pc = "declared" /\ at <= Len(route.responses) /\ n \in Nat
      /\ n + 1 = at /\ Read = n
  BY DEF Declaration, WalkInv, Read, TypeOK
<1>2. CASE Panic
  BY <1>1, <1>2, PanicWalk
<1>3. ASSUME pc' = pc, at' = at + 1, UNCHANGED <<route, cfg>>,
             \A key \in Keys : FollowsWords(n + 1, key, byKey', omitted', pc')
      PROVE  WalkInv'
  <2>1. Read' = n + 1
    BY <1>1, <1>3 DEF Read
  <2>2. \A key \in Keys : FollowsWords(Read, key, byKey, omitted, pc)'
    BY <1>3, <2>1, RouteStands
  <2>3. DefaultsTaken'
    BY <1>1, <1>3 DEF DefaultsTaken
  <2>4. QED
    BY <1>1, <1>3, <2>2, <2>3, RouteTypes DEF WalkInv, Over
<1>4. \A key \in Keys : FollowsWords(n, key, byKey, omitted, pc)
  BY <1>1 DEF WalkInv, Over
<1>5. CASE resp.omit /\ ~Panic
  <2>1. omitted' = omitted \cup {KeyOf(resp)} /\ at' = at + 1
        /\ UNCHANGED <<route, cfg, pc, byKey>>
    BY <1>5 DEF Declaration
  <2>2. SUFFICES ASSUME NEW key \in Keys PROVE FollowsWords(n + 1, key, byKey', omitted', pc')
    BY <1>3, <2>1
  <2>3. FollowsWords(n, key, byKey, omitted, pc)
    BY <1>4
  <2>4. CASE KeyOf(resp) = key
    BY <1>1, <1>5, <2>1, <2>3, <2>4, ThisWord
  <2>5. CASE KeyOf(resp) # key
    BY <1>1, <2>1, <2>3, <2>5, OtherWord
  <2>6. QED
    BY <2>4, <2>5
<1>6. CASE ~resp.omit /\ ~Panic
  <2>1. Put(KeyOf(resp), Entry(resp.status, DeclaredType(resp), at)) /\ at' = at + 1
        /\ UNCHANGED <<route, cfg, pc>>
    BY <1>6 DEF Declaration
  <2>2. SUFFICES ASSUME NEW key \in Keys PROVE FollowsWords(n + 1, key, byKey', omitted', pc')
    BY <1>3, <2>1
  <2>3. FollowsWords(n, key, byKey, omitted, pc)
    BY <1>4
  <2>4. /\ DOMAIN byKey' = DOMAIN byKey \cup {KeyOf(resp)}
        /\ byKey'[KeyOf(resp)].by = at
        /\ \A k \in DOMAIN byKey \ {KeyOf(resp)} : byKey'[k] = byKey[k]
        /\ omitted' = omitted \ {KeyOf(resp)}
    BY <2>1 DEF Put, Entry
  <2>5. CASE KeyOf(resp) = key
    <3>1. DOMAIN byKey \subseteq DOMAIN byKey' /\ key \in DOMAIN byKey' /\ byKey'[key].by = n + 1
      BY <1>1, <2>4, <2>5
    <3>2. key \notin omitted' /\ ~route.responses[n + 1].omit /\ KeyOf(route.responses[n + 1]) = key
      BY <1>1, <1>6, <2>4, <2>5
    <3>3. QED
      BY <1>1, <2>1, <2>3, <3>1, <3>2, ThisWord
  <2>6. CASE KeyOf(resp) # key
    <3>1. /\ key \in DOMAIN byKey' <=> key \in DOMAIN byKey
          /\ key \in DOMAIN byKey => byKey'[key] = byKey[key]
          /\ key \in omitted' <=> key \in omitted
      BY <2>4, <2>6
    <3>2. KeyOf(route.responses[n + 1]) # key
      BY <1>1, <2>6
    <3>3. QED
      BY <1>1, <2>1, <2>3, <3>1, <3>2, OtherWord
  <2>7. QED
    BY <2>5, <2>6
<1>7. QED
  BY <1>2, <1>5, <1>6

LEMMA EndDeclaredWalk == TypeOK /\ WalkInv /\ EndDeclared => WalkInv'
<1> SUFFICES ASSUME TypeOK, WalkInv, EndDeclared PROVE WalkInv'
  OBVIOUS
<1>1. /\ pc = "declared" /\ at > Len(route.responses) /\ route.raw = NoRaw
      /\ at - 1 <= Len(route.responses) /\ at \in Nat
      /\ pc' = "defaults" /\ at' = 1 /\ UNCHANGED <<route, cfg, byKey, omitted>>
  BY DEF EndDeclared, Plan, WalkInv, TypeOK
<1> DEFINE n == Len(route.responses)
<1>2. Read = n /\ Read' = n
  BY <1>1, RouteTypes DEF Read
<1>3. \A key \in Keys : FollowsWords(n, key, byKey, omitted, pc)
  BY <1>1, <1>2 DEF WalkInv, Over
<1>4. \A key \in Keys : FollowsWords(n, key, byKey', omitted', pc')
  BY <1>1, <1>3 DEF FollowsWords
<1>5. \A key \in Keys : FollowsWords(Read, key, byKey, omitted, pc)'
  BY <1>1, <1>2, <1>4, RouteStands
<1>6. DefaultsTaken'
  BY <1>1, RouteTypes DEF DefaultsTaken, DefaultCodes
<1>7. QED
  BY <1>1, <1>5, <1>6 DEF WalkInv, Over

LEMMA DefaultErrorWalk == TypeOK /\ WalkInv /\ DefaultError => WalkInv'
<1> SUFFICES ASSUME TypeOK, WalkInv, DefaultError PROVE WalkInv'
  OBVIOUS
<1> DEFINE n == Len(route.responses)
           code == DefaultCodes[at]
           K == DefaultKey(code)
<1>1. /\ pc = "defaults" /\ route.raw = NoRaw /\ at \in DOMAIN DefaultCodes
      /\ pc' = "defaults" /\ at' = at + 1 /\ UNCHANGED <<route, cfg>>
      /\ Read = n /\ Read' = n /\ n \in Nat /\ at \in Nat
  BY RouteTypes DEF DefaultError, WalkInv, TypeOK, Read
<1>2. \A key \in Keys : FollowsWords(n, key, byKey, omitted, pc)
  BY <1>1 DEF WalkInv, Over
<1>3. K \in Keys
  BY <1>1, RouteTypes DEF DefaultKey, Keys
<1>4. DefaultCodes' = DefaultCodes
  BY <1>1 DEF DefaultCodes
<1>5. DefaultsTaken
  BY <1>1 DEF WalkInv, Over
<1>6. ASSUME \A key \in Keys : FollowsWords(n, key, byKey', omitted', pc'),
             DOMAIN byKey \cup omitted \subseteq DOMAIN byKey' \cup omitted',
             ~(route.public /\ code \in {401, 403}) => K \in DOMAIN byKey' \cup omitted'
      PROVE  WalkInv'
  <2>1. \A key \in Keys : FollowsWords(Read, key, byKey, omitted, pc)'
    BY <1>1, <1>6, RouteStands
  <2>2. DefaultsTaken'
    BY <1>1, <1>4, <1>5, <1>6, RouteTypes DEF DefaultsTaken
  <2>3. QED
    BY <1>1, <2>1, <2>2 DEF WalkInv, Over
<1>7. CASE SkipsDefault(code)
  <2>1. UNCHANGED <<byKey, omitted>>
    BY <1>7 DEF DefaultError, Plan
  <2>2. ~(route.public /\ code \in {401, 403}) => K \in DOMAIN byKey \cup omitted
    BY <1>7 DEF SkipsDefault
  <2>3. QED
    BY <1>1, <1>2, <1>6, <2>1, <2>2
<1>8. CASE ~SkipsDefault(code)
  <2>1. K \notin DOMAIN byKey /\ K \notin omitted /\ ~(route.public /\ code \in {401, 403})
    BY <1>8 DEF SkipsDefault
  <2>2. /\ DOMAIN byKey' = DOMAIN byKey \cup {K} /\ byKey'[K].by = 0
        /\ \A k \in DOMAIN byKey : byKey'[k] = byKey[k]
        /\ omitted' = omitted
    <3>1. Put(K, Entry(code, cfg.errorType, 0))
      BY <1>8 DEF DefaultError
    <3>2. QED
      BY <2>1, <3>1 DEF Put, Entry
  <2>3. ~NamedIn(n, K)
    BY <1>2, <1>3, <2>1 DEF FollowsWords
  <2>4. FromConfig(K)
    BY <1>1, <2>1 DEF FromConfig
  <2>5. ASSUME NEW key \in Keys PROVE FollowsWords(n, key, byKey', omitted', pc')
    <3>1. FollowsWords(n, key, byKey, omitted, pc)
      BY <1>2
    <3>2. CASE key = K
      <4>1. FollowsWords(n, K, byKey, omitted, pc)
        BY <3>1, <3>2
      <4>2. FollowsWords(n, K, byKey', omitted', pc')
        BY <1>1, <2>1, <2>2, <2>3, <2>4, <4>1 DEF FollowsWords
      <4>3. QED
        BY <3>2, <4>2
    <3>3. CASE key # K
      BY <1>1, <2>2, <3>1, <3>3 DEF FollowsWords
    <3>4. QED
      BY <3>2, <3>3
  <2>6. QED
    BY <1>6, <2>2, <2>5
<1>9. QED
  BY <1>7, <1>8

LEMMA EndDefaultsWalk == TypeOK /\ WalkInv /\ EndDefaults => WalkInv'
<1> SUFFICES ASSUME TypeOK, WalkInv, EndDefaults PROVE WalkInv'
  OBVIOUS
<1> DEFINE n == Len(route.responses)
<1>1. /\ pc = "defaults" /\ route.raw = NoRaw /\ at > Len(DefaultCodes) /\ at \in Nat
      /\ pc' = "planned" /\ UNCHANGED <<route, cfg, byKey, omitted>>
      /\ Read = n /\ Read' = n
  BY RouteTypes DEF EndDefaults, Plan, WalkInv, TypeOK, Read
<1>2. \A key \in Keys : FollowsWords(n, key, byKey', omitted', pc')
  BY <1>1 DEF WalkInv, Over, FollowsWords
<1>3. \A key \in Keys : FollowsWords(Read, key, byKey, omitted, pc)'
  BY <1>1, <1>2, RouteStands
<1>4. DefaultsTaken'
  <2>1. DefaultsTaken
    BY <1>1 DEF WalkInv, Over
  <2>2. DefaultCodes' = DefaultCodes
    BY <1>1 DEF DefaultCodes
  <2>3. \A i \in DOMAIN DefaultCodes : i < at
    BY <1>1, RouteTypes
  <2>4. QED
    BY <1>1, <2>1, <2>2, <2>3 DEF DefaultsTaken
<1>5. QED
  BY <1>1, <1>3, <1>4 DEF WalkInv, Over

LEMMA CheckWalk == TypeOK /\ WalkInv /\ CheckResponses => WalkInv'
<1> SUFFICES ASSUME TypeOK, WalkInv, CheckResponses PROVE WalkInv'
  OBVIOUS
<1>1. CASE Panic
  BY <1>1, PanicWalk DEF CheckResponses
<1>2. CASE ~Panic
  <2>1. /\ pc = "planned" /\ pc' = "registered" /\ UNCHANGED <<route, cfg, at, byKey, omitted, order>>
    BY <1>2 DEF CheckResponses, Plan
  <2> DEFINE n == Len(route.responses)
  <2>2. Read = n /\ Read' = n
    BY <2>1 DEF Read
  <2>3. CASE route.raw = NoRaw
    <3>1. \A key \in Keys : FollowsWords(n, key, byKey', omitted', pc')
      BY <2>1, <2>2, <2>3 DEF WalkInv, Over, FollowsWords
    <3>2. \A key \in Keys : FollowsWords(Read, key, byKey, omitted, pc)'
      BY <2>1, <2>2, <3>1, RouteStands
    <3>3. DefaultsTaken'
      BY <2>1, <2>3 DEF DefaultsTaken, DefaultCodes, WalkInv, Over
    <3>4. QED
      BY <2>1, <2>3, <3>2, <3>3 DEF WalkInv, Over
  <2>4. CASE route.raw # NoRaw
    BY <2>1, <2>4 DEF WalkInv
  <2>5. QED
    BY <2>3, <2>4
<1>3. QED
  BY <1>1, <1>2

LEMMA RawWalk == TypeOK /\ WalkInv /\ (CheckRawValues \/ RawResponse \/ EndRaw) => WalkInv'
<1> SUFFICES ASSUME TypeOK, WalkInv, CheckRawValues \/ RawResponse \/ EndRaw PROVE WalkInv'
  OBVIOUS
<1>1. route.raw # NoRaw /\ pc = "begin" /\ route' = route /\ at' = at
      /\ pc' \in {"begin", "planned", "panicked"}
  BY DEF CheckRawValues, RawResponse, EndRaw, Panic
<1>2. omitted' = {}
  BY <1>1 DEF WalkInv, CheckRawValues, RawResponse, EndRaw, Panic, Plan, Put
<1>3. QED
  BY <1>1, <1>2 DEF WalkInv

LEMMA NextWalk == TypeOK /\ WalkInv /\ [Next]_vars => WalkInv'
<1> SUFFICES ASSUME TypeOK, WalkInv, [Next]_vars PROVE WalkInv'
  OBVIOUS
<1>1. CASE UNCHANGED vars
  <2>1. UNCHANGED <<route, cfg, pc, at, order, byKey, omitted>>
    BY <1>1 DEF vars
  <2>2. Read' = Read /\ DefaultsTaken' = DefaultsTaken /\ Over' = Over
    BY <2>1 DEF Read, DefaultsTaken, DefaultCodes, Over
  <2>3. ASSUME NEW key \in Keys, FollowsWords(Read, key, byKey, omitted, pc)
        PROVE  FollowsWords(Read, key, byKey, omitted, pc)'
    <3>1. FollowsWords(Read, key, byKey', omitted', pc')
      BY <2>1, <2>3
    <3>2. QED
      BY <2>1, <2>2, <3>1, RouteStands
  <2>4. QED
    BY <2>1, <2>2, <2>3 DEF WalkInv
<1>2. CASE Next
  BY <1>1, <1>2, ResDefaultWalk, DeclarationWalk, EndDeclaredWalk, DefaultErrorWalk, EndDefaultsWalk,
     RawWalk, CheckWalk DEF Next
<1>3. QED
  BY <1>1, <1>2

\* From the last words that the walk has seen to the property: at its end it
\* has read every declaration and every default.
LEMMA WalkFollows == TypeOK /\ WalkInv => LastWordStands
<1> SUFFICES ASSUME TypeOK, WalkInv, pc \in {"planned", "registered"}, route.raw = NoRaw,
                    NEW key \in Keys
             PROVE  /\ key \in Planned <=>
                          \/ \E i \in DOMAIN route.responses :
                              IsLastWord(i, key) /\ ~route.responses[i].omit
                          \/ ~Named(key) /\ (FromRes(key) \/ FromConfig(key))
                    /\ key \in Planned =>
                          IF Named(key) THEN IsLastWord(byKey[key].by, key) ELSE byKey[key].by = 0
  BY DEF LastWordStands
<1> DEFINE n == Len(route.responses)
<1>1. FollowsWords(n, key, byKey, omitted, pc) /\ DefaultsTaken /\ n \in Nat
  BY RouteTypes DEF WalkInv, Over, Read
<1>8. DOMAIN route.responses = 1..n
  BY RouteTypes
<1>2. Named(key) <=> NamedIn(n, key)
  BY <1>8 DEF Named, NamedIn
<1>3. ASSUME NEW i PROVE IsLastWord(i, key) <=> LastOf(n, i, key)
  BY <1>8 DEF IsLastWord, LastOf
<1>4. FromConfig(key) => key \in DOMAIN byKey \cup omitted
  BY <1>1, RouteTypes DEF FromConfig, DefaultsTaken
<1>5. CASE Named(key)
  <2>1. PICK i \in 1..n : LastOf(n, i, key)
    BY <1>1, <1>2, <1>5 DEF FollowsWords
  <2>2. \A j : LastOf(n, j, key) => j = i
    BY <1>1, <2>1, LastWordUnique
  <2>3. CASE route.responses[i].omit
    <3>1. key \in omitted
      BY <1>1, <2>1, <2>3 DEF FollowsWords
    <3>2. QED
      BY <1>3, <1>5, <2>2, <2>3, <3>1 DEF Planned
  <2>4. CASE ~route.responses[i].omit
    <3>1. key \notin omitted
      BY <1>1, <2>2, <2>4 DEF FollowsWords
    <3>2. key \in DOMAIN byKey /\ byKey[key].by = i
      BY <1>1, <2>1, <2>4 DEF FollowsWords
    <3>3. QED
      BY <1>3, <1>5, <2>1, <2>4, <3>1, <3>2, RouteTypes DEF Planned
  <2>5. QED
    BY <2>3, <2>4
<1>6. CASE ~Named(key)
  <2>1. ~NamedIn(n, key) /\ (\A i \in 1..n : ~LastOf(n, i, key)) /\ (\A i : ~IsLastWord(i, key))
    BY <1>2, <1>6 DEF NamedIn, LastOf, IsLastWord, Named
  <2>2. key \notin omitted
    BY <1>1, <2>1 DEF FollowsWords
  <2>3. key \in DOMAIN byKey => byKey[key].by = 0 /\ (FromRes(key) \/ FromConfig(key))
    BY <1>1, <2>1 DEF FollowsWords
  <2>4. FromRes(key) \/ FromConfig(key) => key \in DOMAIN byKey
    BY <1>1, <1>4, <2>2 DEF FollowsWords
  <2>5. QED
    BY <1>6, <2>1, <2>2, <2>3, <2>4 DEF Planned
<1>7. QED
  BY <1>5, <1>6

\* The document has the last word of a route on each key, whatever the route
\* declares, omits and declares again, and whatever the Config adds.
THEOREM LastWordsStand == Spec => []LastWordStands
<1>1. TypedOrder => TypeOK
  BY DEF TypedOrder
<1>2. Init => TypeOK /\ WalkInv
  BY InitTyped, InitWalk, <1>1
<1>3. TypedOrder /\ WalkInv => LastWordStands
  BY WalkFollows, <1>1
<1>4. TypedOrder /\ WalkInv /\ [Next]_vars => TypedOrder' /\ WalkInv'
  BY NextTyped, NextWalk, <1>1
<1>5. Init => TypedOrder /\ WalkInv
  BY InitTyped, <1>2
<1>6. QED
  BY <1>3, <1>4, <1>5, PTL DEF Spec
-----------------------------------------------------------------------------
(* What an entry holds. *)

\* The entry of a key names the declaration it came from, has a code that the
\* key covers, and has a derived body only under a key that may carry one.
GoodEntry(key, entry) ==
    /\ entry.by # 0 => /\ entry.by \in 1..Len(route.responses)
                       /\ KeyOf(route.responses[entry.by]) = key
    /\ key[1] = "code" => entry.code = key[2]
    /\ key \in Ranges => entry.code = 0 \/ entry.code \div 100 = key[2]
    /\ entry.by = 0 /\ HasBody(entry.body) =>
            key # Range(1) /\ ~(key[1] = "code" /\ Bodyless(key[2]))

GoodEntries == \A key \in DOMAIN byKey : GoodEntry(key, byKey[key])

LEMMA PutKeepsEntries ==
    ASSUME GoodEntries, NEW key, NEW entry, Put(key, entry), GoodEntry(key, entry), route' = route
    PROVE  GoodEntries'
BY DEF GoodEntries, GoodEntry, Put

LEMMA SameEntries ==
    ASSUME GoodEntries, UNCHANGED <<route, byKey>>
    PROVE  GoodEntries'
BY DEF GoodEntries, GoodEntry

LEMMA DeclaredEntryIsGood ==
    ASSUME TypeOK, NEW i \in 1..Len(route.responses), ~Malformed(route.responses[i]), NEW body
    PROVE  GoodEntry(KeyOf(route.responses[i]), Entry(route.responses[i].status, body, i))
<1> DEFINE resp == route.responses[i]
           entry == Entry(resp.status, body, i)
<1>1. resp \in Responses
  BY RouteTypes
<1>2. resp.status \in Int /\ resp.key \in Ranges \cup {Default, Unset, Typo}
  BY <1>1 DEF Responses
<1>3. entry.by = i /\ entry.code = resp.status /\ i # 0
  BY DEF Entry
<1>4. KeyOf(resp)[1] = "code" => resp.status = KeyOf(resp)[2]
  BY <1>2 DEF KeyOf, Code, Ranges, Range, Default, Unset, Typo
<1>5. KeyOf(resp) \in Ranges => resp.status = 0 \/ resp.status \div 100 = KeyOf(resp)[2]
  BY <1>2 DEF KeyOf, Malformed, Code, Ranges, Range, Default, Unset, Typo
<1>6. QED
  BY <1>3, <1>4, <1>5 DEF GoodEntry

LEMMA NextEntries == TypeOK /\ GoodEntries /\ [Next]_vars => GoodEntries'
<1> SUFFICES ASSUME TypeOK, GoodEntries, [Next]_vars PROVE GoodEntries'
  OBVIOUS
<1>1. CASE ResDefault
  <2>1. route' = route
    BY <1>1 DEF ResDefault
  <2>2. GoodEntry(Code(204), Entry(204, "nil", 0)) /\ GoodEntry(Code(200), Entry(200, route.res, 0))
    BY DEF GoodEntry, Entry, Code, Ranges, Range, HasBody, Bodyless
  <2>3. CASE UNCHANGED Plan
    BY <2>1, <2>3, SameEntries DEF Plan
  <2>4. CASE Put(Code(204), Entry(204, "nil", 0))
    BY <2>1, <2>2, <2>4, PutKeepsEntries
  <2>5. CASE Put(Code(200), Entry(200, route.res, 0))
    BY <2>1, <2>2, <2>5, PutKeepsEntries
  <2>6. QED
    BY <1>1, <2>3, <2>4, <2>5 DEF ResDefault
<1>2. CASE Declaration
  <2> DEFINE resp == route.responses[at]
  <2>1. at \in 1..Len(route.responses)
    BY <1>2, RouteTypes DEF Declaration, TypeOK
  <2>2. CASE UNCHANGED <<route, byKey>>
    BY <2>2, SameEntries
  <2>3. CASE ~Malformed(resp) /\ Put(KeyOf(resp), Entry(resp.status, DeclaredType(resp), at)) /\ route' = route
    BY <2>1, <2>3, DeclaredEntryIsGood, PutKeepsEntries
  <2>4. QED
    BY <1>2, <2>2, <2>3 DEF Declaration, Panic, Plan
<1>3. CASE DefaultError
  <2> DEFINE code == DefaultCodes[at]
  <2>1. route' = route
    BY <1>3 DEF DefaultError
  <2>2. at \in 1..Len(DefaultCodes)
    BY <1>3, RouteTypes DEF DefaultError, TypeOK
  <2>3. code \in {0} \cup (Statuses \ ((100..199) \cup {204, 205, 304}))
    BY <2>2, RouteTypes
  <2>4. GoodEntry(DefaultKey(code), Entry(code, cfg.errorType, 0))
    BY <2>3 DEF GoodEntry, Entry, DefaultKey, Default, Code, Ranges, Range, Bodyless
  <2>5. CASE UNCHANGED Plan
    BY <2>1, <2>5, SameEntries DEF Plan
  <2>6. CASE Put(DefaultKey(code), Entry(code, cfg.errorType, 0))
    BY <2>1, <2>4, <2>6, PutKeepsEntries
  <2>7. QED
    BY <1>3, <2>5, <2>6 DEF DefaultError
<1>4. CASE RawResponse
  <2>1. PICK e \in RawPending :
            \/ BadRawEntry(e) /\ Panic
            \/ /\ ~BadRawEntry(e)
               /\ Put(e.key, Entry(IF e.key[1] = "code" THEN e.key[2] ELSE 0, "nil", 0))
               /\ UNCHANGED <<route, cfg, pc, at, coverage>>
    BY <1>4 DEF RawResponse
  <2>2. GoodEntry(e.key, Entry(IF e.key[1] = "code" THEN e.key[2] ELSE 0, "nil", 0))
    BY DEF GoodEntry, Entry, Ranges, Range, HasBody
  <2>3. CASE Panic
    BY <2>3, SameEntries DEF Panic, Plan
  <2>4. CASE Put(e.key, Entry(IF e.key[1] = "code" THEN e.key[2] ELSE 0, "nil", 0)) /\ route' = route
    BY <2>2, <2>4, PutKeepsEntries
  <2>5. QED
    BY <2>1, <2>3, <2>4
<1>5. CASE EndDeclared \/ CheckRawValues \/ EndRaw \/ EndDefaults \/ CheckResponses \/ UNCHANGED vars
  <2>1. UNCHANGED <<route, byKey>>
    BY <1>5 DEF EndDeclared, CheckRawValues, EndRaw, EndDefaults, CheckResponses, Panic, Plan, vars
  <2>2. QED
    BY <2>1, SameEntries
<1>6. QED
  BY <1>1, <1>2, <1>3, <1>4, <1>5 DEF Next

\* What the walk without defaults returned stays in the plan, and a registered
\* plan passed its checks.
CheckedPlan ==
    /\ pc \in {"defaults", "planned", "registered"} => coverage \subseteq PlanStatuses(FALSE)
    /\ pc = "registered" => ~Rejected

LEMMA SamePlan ==
    ASSUME UNCHANGED <<route, byKey, omitted>>
    PROVE  PlanStatuses(FALSE)' = PlanStatuses(FALSE) /\ Rejected' = Rejected
BY DEF PlanStatuses, CodesOf, Planned, Rejected, BadResponse, BodylessResponse

LEMMA GrowingPlan ==
    ASSUME Planned \subseteq Planned', \A key \in Planned : byKey'[key] = byKey[key]
    PROVE  PlanStatuses(FALSE) \subseteq PlanStatuses(FALSE)'
BY DEF PlanStatuses, CodesOf

LEMMA NextChecked == CheckedPlan /\ [Next]_vars => CheckedPlan'
<1> SUFFICES ASSUME CheckedPlan, [Next]_vars PROVE CheckedPlan'
  OBVIOUS
<1>1. CASE ResDefault \/ Declaration \/ CheckRawValues \/ RawResponse
  <2>1. pc' \in {"begin", "declared", "panicked"}
    BY <1>1 DEF ResDefault, Declaration, CheckRawValues, RawResponse, Panic
  <2>2. QED
    BY <2>1 DEF CheckedPlan
<1>2. CASE EndDeclared \/ EndRaw
  <2>1. UNCHANGED <<route, byKey, omitted>> /\ coverage' = PlanStatuses(FALSE) /\ pc' # "registered"
    BY <1>2 DEF EndDeclared, EndRaw, Plan
  <2>2. QED
    BY <2>1, SamePlan DEF CheckedPlan
<1>3. CASE DefaultError
  <2> DEFINE code == DefaultCodes[at]
             K == DefaultKey(code)
  <2>1. pc = "defaults" /\ pc' = "defaults" /\ coverage' = coverage /\ route' = route
    BY <1>3 DEF DefaultError
  <2>2. CASE SkipsDefault(code)
    <3>1. UNCHANGED <<route, byKey, omitted>>
      BY <1>3, <2>1, <2>2 DEF DefaultError, Plan
    <3>2. QED
      BY <2>1, <3>1, SamePlan DEF CheckedPlan
  <2>3. CASE ~SkipsDefault(code)
    <3>1. Put(K, Entry(code, cfg.errorType, 0))
      BY <1>3, <2>3 DEF DefaultError
    <3>2. K \notin DOMAIN byKey
      BY <2>3 DEF SkipsDefault
    <3>3. Planned \subseteq Planned' /\ \A key \in Planned : byKey'[key] = byKey[key]
      BY <3>1, <3>2 DEF Put, Planned
    <3>4. QED
      BY <2>1, <3>3, GrowingPlan DEF CheckedPlan
  <2>4. QED
    BY <2>2, <2>3
<1>4. CASE EndDefaults \/ CheckResponses \/ UNCHANGED vars
  <2>1. UNCHANGED <<route, byKey, omitted, coverage>>
    BY <1>4 DEF EndDefaults, CheckResponses, Panic, Plan, vars
  <2>2. PlanStatuses(FALSE)' = PlanStatuses(FALSE) /\ Rejected' = Rejected
    BY <2>1, SamePlan
  <2>3. /\ pc' \in {"defaults", "planned", "registered"} => pc \in {"defaults", "planned", "registered"}
        /\ pc' = "registered" => pc = "registered" \/ ~Rejected
    BY <1>4 DEF EndDefaults, CheckResponses, Panic, vars
  <2>4. QED
    BY <2>1, <2>2, <2>3 DEF CheckedPlan
<1>5. QED
  BY <1>1, <1>2, <1>3, <1>4 DEF Next

\* The members of Raw.responses in the plan passed their checks, and a plan made
\* of them passed the check of a HEAD route.
RawInv ==
    route.raw # NoRaw =>
        /\ \A e \in route.raw : e.key \in DOMAIN byKey => ~BadRawEntry(e)
        /\ pc \in {"planned", "registered"} => ~HeadContent

LEMMA NextRaw == TypeOK /\ WalkInv /\ RawInv /\ [Next]_vars => RawInv'
<1> SUFFICES ASSUME TypeOK, WalkInv, RawInv, [Next]_vars, route.raw # NoRaw PROVE RawInv'
  BY DEF Next, vars, ResDefault, Declaration, EndDeclared, DefaultError, EndDefaults, CheckRawValues,
         RawResponse, EndRaw, CheckResponses, Panic, RawInv
<1>1. pc \in {"begin", "planned", "registered", "panicked"}
  BY DEF WalkInv
<1>2. CASE RawResponse
  <2>1. PICK e \in RawPending :
            \/ BadRawEntry(e) /\ Panic
            \/ /\ ~BadRawEntry(e)
               /\ Put(e.key, Entry(IF e.key[1] = "code" THEN e.key[2] ELSE 0, "nil", 0))
               /\ UNCHANGED <<route, cfg, pc, at, coverage>>
    BY <1>2 DEF RawResponse
  <2>2. CASE Panic
    BY <2>2 DEF Panic, Plan, RawInv, BadRawEntry
  <2>3. CASE /\ ~BadRawEntry(e)
             /\ Put(e.key, Entry(IF e.key[1] = "code" THEN e.key[2] ELSE 0, "nil", 0))
             /\ UNCHANGED <<route, cfg, pc, at, coverage>>
    <3>1. pc' = "begin" /\ route' = route
      BY <1>2, <2>3 DEF RawResponse
    <3>2. DOMAIN byKey' = DOMAIN byKey \cup {e.key}
      BY <2>3 DEF Put
    <3>3. e \in route.raw /\ e \in RawEntries /\ e.key # Extension
      BY RouteTypes DEF RawPending
    <3>4. e.key \in Keys
      BY <2>3, <3>3 DEF BadRawEntry, RawEntries
    <3>5. ASSUME NEW f \in route.raw, f.key \in DOMAIN byKey' PROVE ~BadRawEntry(f)
      <4>1. CASE f.key \in DOMAIN byKey
        BY <4>1 DEF RawInv
      <4>2. CASE f.key = e.key
        BY <2>3, <3>3, <3>4, <4>2, RouteTypes
      <4>3. QED
        BY <3>2, <3>5, <4>1, <4>2
    <3>6. QED
      BY <3>1, <3>5 DEF RawInv, BadRawEntry
  <2>4. QED
    BY <2>1, <2>2, <2>3
<1>3. CASE CheckRawValues \/ EndRaw \/ CheckResponses \/ UNCHANGED vars
  <2>1. UNCHANGED <<route, byKey>>
    BY <1>3 DEF CheckRawValues, EndRaw, CheckResponses, Panic, Plan, vars
  <2>2. pc' \in {"planned", "registered"} => ~HeadContent
    BY <1>3 DEF CheckRawValues, EndRaw, CheckResponses, Panic, vars, RawInv
  <2>3. QED
    BY <2>1, <2>2 DEF RawInv, HeadContent, BadRawEntry
<1>4. QED
  BY <1>1, <1>2, <1>3 DEF Next, ResDefault, Declaration, EndDeclared, DefaultError, EndDefaults

LEMMA PlanIsGood == Spec => [](TypedOrder /\ WalkInv /\ GoodEntries /\ CheckedPlan /\ RawInv)
<1>1. TypedOrder => TypeOK
  BY DEF TypedOrder
<1>2. Init => TypedOrder /\ WalkInv
  BY InitTyped, InitWalk, <1>1
<1>3. Init => GoodEntries /\ CheckedPlan /\ RawInv
  BY DEF Init, GoodEntries, CheckedPlan, RawInv
<1>4. TypedOrder /\ WalkInv /\ GoodEntries /\ CheckedPlan /\ RawInv /\ [Next]_vars
        => TypedOrder' /\ WalkInv' /\ GoodEntries' /\ CheckedPlan' /\ RawInv'
  BY NextTyped, NextWalk, NextEntries, NextChecked, NextRaw, <1>1
<1>5. QED
  BY <1>2, <1>3, <1>4, PTL DEF Spec

\* A code that the drift check demands is one that it allows.
THEOREM DemandIsAllowed == Spec => []DemandedIsAllowed
<1>1. CheckedPlan => DemandedIsAllowed
  <2> SUFFICES ASSUME CheckedPlan, pc = "registered", 0 \notin PlanStatuses(TRUE)
               PROVE  coverage \subseteq PlanStatuses(TRUE)
    BY DEF DemandedIsAllowed
  <2>1. Default \notin Planned
    BY DEF PlanStatuses, CodesOf
  <2>2. PlanStatuses(FALSE) \subseteq PlanStatuses(TRUE)
    BY <2>1 DEF PlanStatuses, CodesOf
  <2>3. QED
    BY <2>2 DEF CheckedPlan
<1>2. QED
  BY PlanIsGood, <1>1, PTL

\* What the drift check allows is what the document lists.
THEOREM AllowedStandsInDocument == Spec => []AllowedIsDocumented
<1>1. TypedOrder /\ GoodEntries => AllowedIsDocumented
  <2> SUFFICES ASSUME TypedOrder, GoodEntries
               PROVE  PlanStatuses(TRUE) =
                        {code \in {0} \cup 100..599 : \E key \in Planned : Covers(key, code)}
    BY DEF AllowedIsDocumented
  <2>1. ASSUME NEW key \in Planned, NEW code
        PROVE  code \in CodesOf(key, byKey[key], TRUE) <=>
                    code \in {0} \cup 100..599 /\ Covers(key, code)
    <3>1. GoodEntry(key, byKey[key]) /\ key \in Keys /\ byKey[key].code \in {0} \cup Statuses
      BY DEF GoodEntries, Planned, TypedOrder, TypeOK, EntryType
    <3>6. Statuses \subseteq 100..599
      BY StatusTypes
    <3>2. CASE key = Default
      BY <3>2 DEF CodesOf, Covers, Default, Ranges, Range, Code
    <3>3. CASE key \in Ranges
      <4>1. PICK d \in 1..5 : key = Range(d)
        BY <3>3 DEF Ranges
      <4>2. key[2] = d /\ key # Default /\ \A c : key # Code(c)
        BY <4>1 DEF Range, Default, Code
      <4>3. byKey[key].code = 0 \/ byKey[key].code \div 100 = d
        BY <3>1, <3>3, <4>2 DEF GoodEntry
      <4>4. byKey[key].code \in {0} \cup 100..599
        BY <3>1, StatusOrNone
      <4>5. CodesOf(key, byKey[key], TRUE) = (d * 100)..(d * 100 + 99)
        <5>1. byKey[key].code # 0 => byKey[key].code \in (d * 100)..(d * 100 + 99)
          <6>1. byKey[key].code # 0 => byKey[key].code \in Int /\ byKey[key].code \div 100 = d
            BY <4>3, <4>4
          <6>2. QED
            BY <4>1, <6>1, Hundreds
        <5>2. CodesOf(key, byKey[key], TRUE) =
                (IF byKey[key].code # 0 THEN {byKey[key].code} ELSE {})
                    \cup ((d * 100)..(d * 100 + 99))
          BY <3>3, <4>2 DEF CodesOf
        <5>3. QED
          BY <5>1, <5>2
      <4>6. Covers(key, code) <=> code \div 100 = d
        BY <3>3, <4>2 DEF Covers
      <4>7. QED
        <5> DEFINE codes == CodesOf(key, byKey[key], TRUE)
                   covered == Covers(key, code)
        <5>1. codes = (d * 100)..(d * 100 + 99) /\ (covered <=> code \div 100 = d)
          BY <4>5, <4>6
        <5> HIDE DEF codes, covered
        <5>2. SUFFICES code \in codes <=> code \in {0} \cup 100..599 /\ covered
          BY DEF codes, covered
        <5>3. CASE code \in Int
          <6>1. code \in (d * 100)..(d * 100 + 99) <=> code \in {0} \cup 100..599 /\ code \div 100 = d
            BY <4>1, <5>3, RangeCodes
          <6>2. QED
            BY <5>1, <6>1
        <5>4. CASE code \notin Int
          <6>1. code \notin (d * 100)..(d * 100 + 99) /\ code \notin {0} \cup 100..599
            BY <5>4
          <6>2. QED
            BY <5>1, <6>1
        <5>5. QED
          BY <5>3, <5>4
    <3>4. CASE key \in {Code(c) : c \in Statuses}
      <4>1. PICK c \in Statuses : key = Code(c)
        BY <3>4
      <4>2. key[1] = "code" /\ key[2] = c /\ key # Default /\ key \notin Ranges /\ c \in 100..599
        BY <3>6, <4>1 DEF Code, Default, Ranges, Range
      <4>3. byKey[key].code = c
        BY <3>1, <4>2 DEF GoodEntry
      <4>4. CodesOf(key, byKey[key], TRUE) = {c}
        BY <4>2, <4>3 DEF CodesOf
      <4>5. Covers(key, code) <=> code = c
        BY <4>1, <4>2 DEF Covers, Code
      <4>6. QED
        <5>1. c \in {0} \cup 100..599
          BY <4>2
        <5>2. code \in CodesOf(key, byKey[key], TRUE) <=> code = c
          BY <4>4
        <5>3. code = c => code \in {0} \cup 100..599
          BY <5>1
        <5>4. QED
          BY <4>5, <5>2, <5>3
    <3>5. QED
      BY <3>1, <3>2, <3>3, <3>4 DEF Keys
  <2>2. ASSUME NEW code
        PROVE  code \in PlanStatuses(TRUE) <=>
                    code \in {0} \cup 100..599 /\ \E key \in Planned : Covers(key, code)
    <3>1. code \in PlanStatuses(TRUE) <=>
            \E key \in Planned : code \in CodesOf(key, byKey[key], TRUE)
      BY DEF PlanStatuses
    <3>2. ASSUME NEW key \in Planned
          PROVE  code \in CodesOf(key, byKey[key], TRUE) <=> code \in {0} \cup 100..599 /\ Covers(key, code)
      BY <2>1
    <3> DEFINE isCode == code \in {0} \cup 100..599
               allows(key) == code \in CodesOf(key, byKey[key], TRUE)
    <3>3. \A key \in Planned : allows(key) <=> isCode /\ Covers(key, code)
      BY <3>2
    <3>4. code \in PlanStatuses(TRUE) <=> \E key \in Planned : allows(key)
      BY <3>1
    <3> HIDE DEF isCode, allows
    <3>5. code \in PlanStatuses(TRUE) <=> isCode /\ \E key \in Planned : Covers(key, code)
      BY <3>3, <3>4
    <3>6. QED
      BY <3>5 DEF isCode
  <2> DEFINE allowed == PlanStatuses(TRUE)
             listed(code) == \E key \in Planned : Covers(key, code)
  <2>3. \A code : code \in allowed <=> code \in {0} \cup 100..599 /\ listed(code)
    BY <2>2
  <2> HIDE DEF allowed, listed
  <2>4. allowed = {code \in {0} \cup 100..599 : listed(code)}
    BY <2>3
  <2>5. QED
    BY <2>4 DEF allowed, listed
<1>2. QED
  BY PlanIsGood, <1>1, PTL

\* No registered response shows content where none may be, on a HEAD route or
\* under a status without a body, whoever would put it there: a Response, the
\* Config, Response.Raw (checkResponse) or Raw.responses (checkRawValues and
\* checkRawResponse).  The range 1XX is held to it where no Raw.responses is.
THEOREM NoContentIsForbidden == Spec => []NoForbiddenContent
<1>1. TypedOrder /\ GoodEntries /\ CheckedPlan /\ RawInv => NoForbiddenContent
  <2> SUFFICES ASSUME TypedOrder, GoodEntries, ~Rejected, RawInv, pc = "registered", NEW key \in Planned,
                      \/ route.head
                      \/ key = Range(1) /\ route.raw = NoRaw
                      \/ key[1] = "code" /\ Bodyless(key[2])
               PROVE  ~HasContent(key)
    BY DEF NoForbiddenContent, CheckedPlan
  <2> DEFINE entry == byKey[key]
             resp == route.responses[entry.by]
  <2>1. GoodEntry(key, entry)
    BY DEF GoodEntries, Planned
  <2>2. CASE entry.by = 0
    <3>1. ~(~route.head /\ HasBody(entry.body))
      BY <2>1, <2>2 DEF GoodEntry
    <3>2. ASSUME route.raw # NoRaw, NEW e \in route.raw, e.key = key, e.is = "response", e.content
          PROVE  FALSE
      <4>1. ~HeadContent /\ ~BadRawEntry(e)
        BY <3>2 DEF RawInv, Planned
      <4>2. QED
        BY <3>2, <4>1 DEF HeadContent, BadRawEntry
    <3>3. QED
      BY <2>2, <3>1, <3>2 DEF HasContent
  <2>3. CASE entry.by # 0
    <3>1. ~BadResponse(resp, entry.body)
      BY <2>3 DEF Rejected
    <3>2. KeyOf(resp) = key /\ resp \in Responses
      BY <2>1, <2>3, RouteTypes DEF GoodEntry, TypedOrder
    <3>6. route.raw = NoRaw
      BY <2>1, <2>3, RouteTypes DEF GoodEntry, TypedOrder
    <3>3. CASE route.head
      BY <3>1, <3>3, <3>6 DEF BadResponse, HasContent
    <3>4. CASE key = Range(1) \/ (key[1] = "code" /\ Bodyless(key[2]))
      <4>1. resp.key \in Ranges \cup {Default, Unset, Typo}
        BY <3>2 DEF Responses
      <4>2. BodylessResponse(resp)
        <5>1. CASE resp.key = Unset
          <6>1. key = Code(resp.status)
            BY <3>2, <5>1 DEF KeyOf
          <6>2. key # Range(1) /\ key[2] = resp.status
            BY <6>1 DEF Code, Range
          <6>3. QED
            BY <3>4, <5>1, <6>2 DEF BodylessResponse
        <5>2. CASE resp.key # Unset
          <6>1. key = resp.key
            BY <3>2, <5>2 DEF KeyOf
          <6>2. key[1] # "code"
            BY <4>1, <5>2, <6>1 DEF Ranges, Range, Default, Typo
          <6>3. QED
            BY <3>4, <5>2, <6>1, <6>2 DEF BodylessResponse
        <5>3. QED
          BY <5>1, <5>2
      <4>3. QED
        BY <3>1, <3>6, <4>2 DEF BadResponse, HasContent
    <3>5. QED
      BY <3>3, <3>4
  <2>4. QED
    BY <2>2, <2>3
<1>2. QED
  BY PlanIsGood, <1>1, PTL

\* A route that omits nothing documents a success response.
THEOREM ResponsesAreNeverMissing == Spec => []SomeResponse
<1>1. TypedOrder /\ WalkInv /\ CheckedPlan => SomeResponse
  <2> SUFFICES ASSUME TypedOrder, WalkInv, CheckedPlan, pc = "registered" PROVE SomeResponse
    BY DEF SomeResponse
  <2>1. Planned # {}
    BY DEF CheckedPlan, Rejected
  <2>2. ASSUME route.raw = NoRaw, \A i \in DOMAIN route.responses : ~route.responses[i].omit
        PROVE  \E key \in Planned :
                  \/ key \in {Range(2), Range(3), Code(101)}
                  \/ key[1] = "code" /\ key[2] \in (200..399) \ {304}
    <3> DEFINE n == Len(route.responses)
    <3>1. DOMAIN route.responses = 1..n /\ n \in Nat /\ \A i \in 1..n : route.responses[i] \in Responses
      BY RouteTypes DEF TypedOrder
    <3>2. \A key \in Keys : FollowsWords(n, key, byKey, omitted, pc)
      BY <2>2 DEF WalkInv, Over, Read
    <3>3. omitted = {}
      BY <2>2, <3>1, <3>2 DEF FollowsWords, TypedOrder, TypeOK
    <3>4. CASE \E i \in 1..n : IsSuccess(route.responses[i])
      <4>1. PICK i \in 1..n : IsSuccess(route.responses[i])
        BY <3>4
      <4> DEFINE key == KeyOf(route.responses[i])
      <4>2. route.responses[i] \in Responses
        BY <3>1
      <4>3. /\ key \in {Range(2), Range(3), Code(101)}
               \/ (key[1] = "code" /\ key[2] \in (200..399) \ {304})
            /\ key \in Keys
        <5> DEFINE resp == route.responses[i]
        <5>1. resp.status \in Int /\ (IsStatus(resp.status) => resp.status \in Statuses)
          BY <4>2 DEF Responses
        <5>2. CASE resp.key # Unset
          <6>1. key \in {Range(2), Range(3)}
            BY <4>1, <5>2 DEF IsSuccess, KeyOf
          <6>2. Range(2) \in Keys /\ Range(3) \in Keys
            BY DEF Keys, Ranges
          <6> HIDE DEF key
          <6>3. QED
            BY <6>1, <6>2
        <5>3. CASE resp.key = Unset
          <6>1. resp.status \in ({101} \cup 200..399) \ {304} /\ key = Code(resp.status)
            BY <4>1, <5>3 DEF IsSuccess, KeyOf
          <6>2. resp.status \in Statuses
            BY <5>1, <6>1, SuccessIsStatus
          <6>3. QED
            BY <6>1, <6>2 DEF Keys, Code
        <5>4. QED
          BY <5>2, <5>3
      <4>4. NamedIn(n, key)
        BY <4>1 DEF NamedIn
      <4>5. FollowsWords(n, key, byKey, omitted, pc)
        BY <3>2, <4>3
      <4>6. key \in Planned
        BY <2>2, <3>1, <3>3, <4>4, <4>5 DEF FollowsWords, Planned
      <4>7. QED
        BY <4>3, <4>6
    <3>5. CASE \A i \in 1..n : ~IsSuccess(route.responses[i])
      <4>1. PICK c \in {200, 204} : FromRes(Code(c))
        BY <3>1, <3>5 DEF FromRes
      <4>2. Code(c) \in Keys
        BY StatusKeys
      <4>3. Code(c) \in Planned
        BY <3>2, <3>3, <4>1, <4>2 DEF FollowsWords, Planned
      <4>4. QED
        BY <4>3 DEF Code
    <3>6. QED
      BY <3>4, <3>5
  <2>3. QED
    BY <2>1, <2>2 DEF SomeResponse
<1>2. QED
  BY PlanIsGood, <1>1, PTL
=============================================================================
