------------------------------ MODULE Schemas ------------------------------
(***************************************************************************)
(* The schemas of one build (schema.go, defs.go, fixups.go, unions.go,     *)
(* params_body.go, walk.go).  The reflector, a library, turns a Go struct  *)
(* into a schema and hoists the structs below it; the fixes then make it   *)
(* say what JSON does: null for pointers, the fields that win, open maps.  *)
(* After all operations the unions get their branches.                     *)
(*                                                                         *)
(* A hoisted struct (byName) and one reflected for itself (byType) are     *)
(* separate schemas; the document takes the second when there is one.      *)
(***************************************************************************)
EXTENDS Fields, FiniteSets

CONSTANTS
    Inline,             \* the structs without a name, which stay in place
    Programs,           \* the programs: each is a set of operations
    Placeholders,       \* Placeholders[t]: in the route of a request t
    VariantType,        \* VariantType[v]: the struct that Register[T] gave v
    BranchName(_, _, _) \* the component of branch i of an owner, k-th try

\* An operation reflects a struct, of a response or of a request.
Operation == [type : DOMAIN Declared, request : BOOLEAN]

ASSUME SchemasAssumption ==
    /\ Inline \subseteq DOMAIN Declared
    /\ \A program \in Programs : program \subseteq Operation
    /\ \A program \in Programs : \A o \in program : o.request => o.type \in DOMAIN Placeholders
    /\ \A v \in DOMAIN VariantType : VariantType[v] \in DOMAIN Declared

VARIABLES
    types,      \* Types, fixed
    program,    \* the operations, fixed
    closed,     \* Config.ClosedSchemas
    todo,       \* the operations still to reflect
    current,    \* the operation that is being built, if any
    job,        \* the type that refFor is reflecting, or NoTag
    pending,    \* the components that its walk has still to fix
    byType,     \* schemaRegistry.byType, with the schemas of the entries
    byName,     \* schemaRegistry.byName
    fixed,      \* schemaRegistry.fixed, of the components
    forms,      \* the form schemas of the requests
    merged,     \* the unions whose branches stand: owner and property
    phase       \* "operations", "variants", "branches", "done" or "refused"

vars == <<types, program, closed, todo, current, job, pending, byType, byName, fixed, forms, merged, phase>>

\* A schema.  additional is its additionalProperties: unset, a schema or none.
Blank == [types |-> {}, ref |-> NoTag, any |-> <<>>, one |-> <<>>, items |-> <<>>,
          props |-> [n \in {} |-> <<>>], required |-> {}, additional |-> "unset", values |-> <<>>,
          disc |-> FALSE, const |-> NoTag, variants |-> <<>>, payload |-> <<>>]

OfType(name) == [Blank EXCEPT !.types = {name}]
Ref(t) == [Blank EXCEPT !.ref = t]
Null == OfType("null")

Put(f, x, y) == [z \in DOMAIN f \cup {x} |-> IF z = x THEN y ELSE f[z]]
-----------------------------------------------------------------------------
(* The reflector. *)

\* The order in which the reflector visits the fields of t: declaration order,
\* and once more the winners when t embeds a struct (dominantJSONFields).
Visits[t \in Structs] ==
    IF t \notin DOMAIN Declared THEN FieldsOf[t]
    ELSE FlattenSeq([i \in DOMAIN Declared[t] |->
            LET f == Declared[t][i] IN
            IF ~Promotes(f) THEN <<f>>
            ELSE IF f.hidden THEN <<>> ELSE Visits[Head(Deref(f.type))]])
         \o (IF \E i \in DOMAIN Declared[t] : Promotes(Declared[t][i]) THEN JsonFields[t, FALSE] ELSE <<>>)

\* The schema of a Go type, with those of the structs that stay in place.
RECURSIVE RawType(_, _)
RawType(type, inPlace) ==
    CASE Head(type) = "ptr" -> RawType(Tail(type), inPlace)
      [] Head(type) = "text" -> OfType("string")
      [] Head(type) = "any" -> Blank
      [] Head(type) = "list" -> [OfType("array") EXCEPT !.items = <<RawType(Tail(type), inPlace)>>]
      [] Head(type) = "map" /\ Tail(type) = <<"any">> -> OfType("object")
      [] Head(type) = "map" ->
            [OfType("object") EXCEPT !.additional = "schema", !.values = <<RawType(Tail(type), inPlace)>>]
      [] Head(type) \in Inline -> inPlace[Head(type)]
      [] OTHER -> Ref(Head(type))

RawProperty(f, raw) ==
    CASE f.variants # <<>> -> [Blank EXCEPT !.one = <<[Blank EXCEPT !.variants = f.variants]>>]
      [] f.nulls -> [Blank EXCEPT !.one = <<[raw EXCEPT !.disc = f.disc], Null>>]
      [] OTHER -> [raw EXCEPT !.disc = f.disc]

LastOf(n, seen) ==
    seen[CHOOSE i \in DOMAIN seen : WireName(seen[i]) = n
                /\ \A j \in (i + 1)..Len(seen) : WireName(seen[j]) # n]

\* The schema of a struct: a later visit replaces the schema of a property, and
\* required names add up.
RawFields(seen, inPlace) ==
    [OfType("object") EXCEPT
        !.props = [n \in {WireName(f) : f \in Range(seen)} |->
                    RawProperty(LastOf(n, seen), RawType(LastOf(n, seen).type, inPlace))],
        !.required = {WireName(f) : f \in {f \in Range(seen) : RequiredField(f)}}]

RawStruct[t \in Structs] == RawFields(SelectSeq(Visits[t], LAMBDA f : ~f.hidden /\ ~f.dash), RawStruct)

\* The structs that a schema of t names, which the reflector puts in $defs.
Named(t) == {Last(f.type) : f \in {f \in Range(Visits[t]) : ~f.hidden /\ ~f.dash}} \cap DOMAIN Declared
RECURSIVE Below(_)
Below(found) ==
    IF UNION {Named(t) : t \in found} \subseteq found THEN found
    ELSE Below(found \cup UNION {Named(t) : t \in found})

\* Fault: a field below an embedded pointer counts like any other.
ContendedByCount(cands) ==
    {n \in {WireName(c.field) : c \in Range(cands)} :
        Cardinality({i \in DOMAIN cands : WireName(cands[i].field) = n}) > 1}

\* The names that several fields want, or one below an embedded pointer.
Contended(cands) ==
    {n \in {WireName(c.field) : c \in Range(cands)} :
        LET of == {i \in DOMAIN cands : WireName(cands[i].field) = n}
        IN  Cardinality(of) > 1 \/ \E i \in of : cands[i].optional}

\* checkHiddenFields, on t and on the structs that stand in place in it.
HidesInPlace[t \in Structs] ==
    \/ Hides[t]
    \/ \E f \in Range(FieldsOf[t]) : ~f.hidden /\ Last(f.type) \in Inline /\ HidesInPlace[Last(f.type)]
-----------------------------------------------------------------------------
(* The Go types: what the code takes from each, and what JSON does with it. *)

\* What encoding/json does with a struct, by its rules: the ways to a field,
\* and the one that wins a name, the shallowest or else the one with a tag.
Ways(t) ==
    {p \in Paths[t] : ~Promotes(Last(p)) /\ \A f \in Parents(p) : Promotes(f) /\ ~f.hidden}
Outranks(p, q) ==
    LET Explicit(w) == Last(w).json # NoTag \/ Last(w).dash
    IN  Len(p) < Len(q) \/ (Len(p) = Len(q) /\ Explicit(p) /\ ~Explicit(q))
Winning(ways) ==
    {p \in ways : \A q \in ways \ {p} : WireName(Last(q)) = WireName(Last(p)) => Outranks(p, q)}
AlwaysWritten(p) ==
    Last(p).always \/ ~(Last(p).omit \/ \E f \in Parents(p) : IsPointer(f.type))

\* What the request t may not lose: what JSON reads into a field that is no
\* parameter's own.
Given(t) ==
    {p \in Winning({p \in Paths[t] :
                        /\ Promotes(Last(p)) => IsParam(Last(p))
                        /\ \A f \in Parents(p) : Promotes(f) /\ ~IsParam(f) /\ ~f.hidden}) :
        Last(p) \in ExportedFields[t] /\ ~(Last(p).dash /\ ~Last(p).omit)}

\* What the code takes from a struct (fields to body), and what its schema is
\* measured by (shown and given).
Types ==
    [t \in Structs |->
        [fields |-> FieldsOf[t], contended |-> Contended(Candidates[t]), raw |-> RawStruct[t], below |-> Below({t}),
         hides |-> HidesInPlace[t],
         params |-> IF t \in DOMAIN Declared THEN {f \in ExportedFields[t] : IsParam(f)} ELSE {},
         body |-> IF t \in DOMAIN Declared THEN RequestBody[t] ELSE NoTag,
         shown |-> IF t \in DOMAIN Declared THEN {p \in Winning(Ways(t)) : ~Last(p).hidden} ELSE {},
         given |-> IF t \in DOMAIN Declared THEN Given(t) ELSE {}]]

Shown(t) == types[t].shown

Init ==
    /\ types = Types
    /\ program \in Programs /\ closed \in BOOLEAN
    /\ todo = program /\ current = {} /\ job = NoTag /\ pending = {}
    /\ byType = [t \in {} |-> Blank] /\ byName = [t \in {} |-> Blank]
    /\ fixed = {} /\ forms = [t \in {} |-> Blank] /\ merged = {}
    /\ phase = "operations"

-----------------------------------------------------------------------------
(* The fixes. *)

RECURSIVE AdmitsNull(_)
AdmitsNull(s) ==
    \/ "null" \in s.types
    \/ \E arm \in Range(s.any) \cup Range(s.one) : AdmitsNull(arm)

\* nullable and allowNull.
Nullable(s) ==
    CASE AdmitsNull(s) -> s
      [] s.types # {} -> [s EXCEPT !.types = @ \cup {"null"}]
      [] s.ref # NoTag -> [s EXCEPT !.ref = NoTag, !.any = <<Ref(s.ref), Null>>]
      [] s.any # <<>> -> [s EXCEPT !.any = Append(@, Null)]
      [] s.one # <<>> -> [s EXCEPT !.one = Append(@, Null)]
      [] OTHER -> s

Kept(fields) == {WireName(f) : f \in {f \in Range(fields) : ~f.hidden}}
Needed(fields) == {WireName(f) : f \in {f \in Range(fields) : ~f.hidden /\ RequiredField(f)}}

\* removeShadowedFields: contended names are as the winning field says.
RemoveShadowedFields(names, fields, s) ==
    [s EXCEPT !.props = [n \in DOMAIN @ \ (names \ Kept(fields)) |-> @[n]],
              !.required = @ \ (names \ Needed(fields))]

Raw == [t \in DOMAIN types |-> types[t].raw]

\* addDashProperty: the reflector drops a property called "-".
AddDashProperty(dashes, s) ==
    IF dashes = {} THEN s
    ELSE [s EXCEPT !.props = Put(@, "-", RawType((CHOOSE f \in dashes : TRUE).type, Raw)),
                   !.required = @ \cup (IF \A f \in dashes : RequiredField(f) THEN {"-"} ELSE {})]

\* applySchemaFixes on a schema that stands in place: what a $ref names is
\* fixed on its own.
RECURSIVE Fix(_, _), FixField(_, _), FixFields(_, _), FixStructFields(_, _)
Fix(type, s) ==
    LET t == Deref(type)
        Elem(x) == IF IsPointer(Tail(t)) THEN Nullable(Fix(Tail(t), x)) ELSE Fix(Tail(t), x)
        Arms(arms) == [i \in DOMAIN arms |-> IF arms[i] = Null THEN Null ELSE Fix(t, arms[i])]
        armed == [s EXCEPT !.any = Arms(@), !.one = Arms(@)]
    IN  CASE s.ref # NoTag -> s
          [] Head(t) = "list" -> [armed EXCEPT !.items = [i \in DOMAIN @ |-> Elem(@[i])]]
          [] Head(t) = "map" /\ s.additional = "unset" ->
                [armed EXCEPT !.additional = "schema", !.values = <<Elem(Blank)>>]
          [] Head(t) = "map" -> [armed EXCEPT !.values = [i \in DOMAIN @ |-> Elem(@[i])]]
          [] Head(t) \in DOMAIN types /\ DOMAIN s.props # {} -> FixStructFields(types[Head(t)], armed)
          [] OTHER -> armed
FixField(f, p) ==
    LET q == Fix(f.type, [p EXCEPT !.payload = IF f.variants # <<>> THEN f.type ELSE @])
    IN  IF IsPointer(f.type) THEN Nullable(q) ELSE q
FixFields(fields, s) ==
    [s EXCEPT !.props = [n \in DOMAIN @ |->
        IF \E f \in fields : WireName(f) = n THEN FixField(CHOOSE f \in fields : WireName(f) = n, @[n]) ELSE @[n]]]
FixStructFields(about, s) ==
    FixFields({f \in Range(about.fields) : ~f.hidden},
              AddDashProperty({f \in Range(about.fields) : f.dash /\ ~f.hidden},
                              RemoveShadowedFields(about.contended, about.fields, s)))

\* The components that the walk of a schema follows.
RECURSIVE Refs(_)
Refs(s) ==
    ({s.ref} \ {NoTag})
        \cup UNION {Refs(x) : x \in Range(s.any) \cup Range(s.one) \cup Range(s.items)
                                    \cup Range(s.values) \cup Range(s.props)}

\* closeSchema.
RECURSIVE CloseSchema(_)
CloseSchema(s) ==
    LET All(seq) == [i \in DOMAIN seq |-> CloseSchema(seq[i])]
    IN  [s EXCEPT !.any = All(@), !.one = All(@), !.items = All(@), !.values = All(@), !.props = All(@),
                  !.additional = IF "object" \in s.types /\ @ = "unset" THEN "none" ELSE @]

Closed(s) == IF closed THEN CloseSchema(s) ELSE s

\* bodyForRef takes a hoisted schema before a registered one.
Resolve(t) == IF t \in DOMAIN byName THEN <<"name", t>> ELSE <<"type", t>>
Body(c) == IF c[1] = "name" THEN byName[c[2]] ELSE byType[c[2]]

\* The components that the walk of a fixed schema goes on to, each once.
Follow(s) == {Resolve(t) : t \in Refs(s)} \ fixed

\* refFor, unwrapDefs and addDef: t is registered, and what is below it
\* hoisted, and closed, before the fixes.
Register(t) ==
    LET hoisted == types[t].below \ (Inline \cup DOMAIN byName \cup {t})
    IN  /\ byType' = Put(byType, t, types[t].raw)
        /\ byName' = [u \in DOMAIN byName \cup hoisted |->
                        IF u \in hoisted THEN Closed(types[u].raw) ELSE byName[u]]
        /\ job' = t /\ pending' = {<<"type", t>>}

\* applySchemaFixes on one component.  The walk is depth first; a component is
\* fixed by itself, so their order makes no difference.
FixComponent(c) ==
    /\ c \in pending /\ phase # "refused"
    /\ ~(closed /\ types[c[2]].hides)
    /\ LET new == Fix(<<c[2]>>, Body(c))
       IN  /\ byType' = IF c[1] = "type" THEN [byType EXCEPT ![c[2]] = new] ELSE byType
           /\ byName' = IF c[1] = "name" THEN [byName EXCEPT ![c[2]] = new] ELSE byName
           /\ pending' = (pending \cup Follow(new)) \ {c}
    /\ fixed' = fixed \cup {c}
    /\ UNCHANGED <<types, program, closed, todo, current, job, forms, merged, phase>>

Refuse ==
    /\ phase' = "refused"
    /\ UNCHANGED <<types, program, closed, todo, current, job, pending, byType, byName, fixed, forms, merged>>

\* A closed schema would reject what a hidden field writes.
RefuseHidden(c) ==
    /\ c \in pending /\ phase # "refused"
    /\ closed /\ types[c[2]].hides
    /\ Refuse

\* The end of refFor: the type itself is closed after the fixes.
CloseRegistered ==
    /\ job # NoTag /\ pending = {}
    /\ byType' = [byType EXCEPT ![job] = Closed(@)]
    /\ job' = NoTag
    /\ UNCHANGED <<types, program, closed, todo, current, pending, byName, fixed, forms, merged, phase>>
-----------------------------------------------------------------------------
(* The operations. *)

\* formRenames: the names of properties on a form, "-" for none.
FormNames(fields, s) ==
    [n \in DOMAIN s.props |->
        IF \E f \in fields : WireName(f) = n THEN FormName(CHOOSE f \in fields : WireName(f) = n) ELSE n]

\* renamedSchema refuses two fields with one form name.
GoodNames(as) == \A m, n \in DOMAIN as : m # n /\ as[m] # "-" => as[m] # as[n]

KeptOnForm(as) == {n \in DOMAIN as : as[n] # "-"}

\* Fault: fields are renamed one after the other.
RenamedByTurns(as, s) ==
    [s EXCEPT !.props = [m \in {as[n] : n \in KeptOnForm(as)} |->
                s.props[IF m \in KeptOnForm(as) THEN m ELSE CHOOSE n \in KeptOnForm(as) : as[n] = m]],
              !.required = {as[n] : n \in @ \cap KeptOnForm(as)}]

\* renamedSchema: all fields are renamed at once.
RenamedSchema(as, s) ==
    [s EXCEPT !.props = [m \in {as[n] : n \in KeptOnForm(as)} |->
                            s.props[CHOOSE n \in KeptOnForm(as) : as[n] = m]],
              !.required = {as[n] : n \in @ \cap KeptOnForm(as)}]

FormNamesOf(t) == FormNames({f \in Range(types[t].fields) : ~f.hidden}, Body(Resolve(t)))

\* The type that an operation puts in components.
Target(o) == IF o.request THEN types[o.type].body ELSE o.type

\* operationFor: parameters first, then the type of the body or the response.
Start(o) ==
    /\ phase = "operations" /\ current = {} /\ o \in todo
    /\ o.request => GoodParams(types[o.type].params, Placeholders[o.type])
    /\ todo' = todo \ {o} /\ current' = {o}
    /\ IF Target(o) \in DOMAIN byType \cup {NoTag} THEN UNCHANGED <<byType, byName, job, pending>>
       ELSE Register(Target(o))
    /\ UNCHANGED <<types, program, closed, fixed, forms, merged, phase>>

RefuseParams(o) ==
    /\ phase = "operations" /\ current = {} /\ o \in todo
    /\ o.request /\ ~GoodParams(types[o.type].params, Placeholders[o.type])
    /\ Refuse

\* The rest of the operation, once its type is registered: formSchema.
Complete(o) ==
    /\ job = NoTag /\ o \in current /\ phase = "operations"
    /\ current' = {}
    /\ IF o.request /\ Target(o) # NoTag
       THEN \E as \in {FormNamesOf(Target(o))} :
                GoodNames(as) /\ forms' = Put(forms, o.type, RenamedSchema(as, Body(Resolve(Target(o)))))
       ELSE UNCHANGED forms
    /\ UNCHANGED <<types, program, closed, todo, job, pending, byType, byName, fixed, merged, phase>>

RefuseForm(o) ==
    /\ job = NoTag /\ o \in current /\ phase = "operations"
    /\ o.request /\ Target(o) # NoTag /\ ~GoodNames(FormNamesOf(Target(o)))
    /\ Refuse

AllReflected ==
    /\ phase = "operations" /\ todo = {} /\ current = {}
    /\ phase' = "variants"
    /\ UNCHANGED <<types, program, closed, todo, current, job, pending, byType, byName, fixed, forms, merged>>
-----------------------------------------------------------------------------
(* The unions. *)

\* eachSchema: what the document holds under a name.
Document == [c \in DOMAIN byType \cup DOMAIN byName |-> IF c \in DOMAIN byType THEN byType[c] ELSE byName[c]]

\* unionVariantNames of a property.
VariantsOf(p) ==
    LET arms == {arm \in Range(p.one) : arm.variants # <<>>}
    IN  IF arms = {} THEN <<>> ELSE (CHOOSE arm \in arms : TRUE).variants

\* declaredUnion: a property that is the discriminator and one that has variants.
Discriminators(s) == {n \in DOMAIN s.props : s.props[n].disc}
Payloads(s) == {n \in DOMAIN s.props : VariantsOf(s.props[n]) # <<>>}
IsUnion(s) == s.one = <<>> /\ Discriminators(s) # {} /\ Payloads(s) # {}

\* A schema of a component: the component, or the property called n.
At(s, n) == IF n = NoTag THEN s ELSE s.props[n]
Unions ==
    UNION {{<<c, n>> : n \in {n \in DOMAIN Document[c].props \cup {NoTag} : IsUnion(At(Document[c], n))}} :
                c \in DOMAIN Document}

Payload(s) == s.props[CHOOSE n \in Payloads(s) : TRUE]

\* reflectAllVariants: the types that unions name are reflected, and those of
\* the unions that come with them.
Wanted == UNION {Range(VariantsOf(Payload(At(Document[u[1]], u[2])))) : u \in Unions}

ReflectVariant(v) ==
    /\ phase = "variants" /\ job = NoTag /\ v \in Wanted \cap DOMAIN VariantType
    /\ VariantType[v] \notin DOMAIN byType
    /\ Register(VariantType[v])
    /\ UNCHANGED <<types, program, closed, todo, current, fixed, forms, merged, phase>>

\* variantType panics on a name that Register did not give.
RefuseVariant(v) ==
    /\ phase = "variants" /\ job = NoTag /\ v \in Wanted \ DOMAIN VariantType
    /\ Refuse

AllVariants ==
    /\ phase = "variants" /\ job = NoTag
    /\ \A v \in Wanted : v \in DOMAIN VariantType /\ VariantType[v] \in DOMAIN byType
    /\ phase' = "branches"
    /\ UNCHANGED <<types, program, closed, todo, current, job, pending, byType, byName, fixed, forms, merged>>

\* variantShape: the variant where a list or a map of the payload holds any.
RECURSIVE VariantShape(_, _)
VariantShape(type, ref) ==
    LET t == Deref(type)
        Elem == LET s == VariantShape(Tail(t), ref) IN IF IsPointer(Tail(t)) THEN Nullable(s) ELSE s
    IN  CASE Last(t) # "any" -> ref
          [] Head(t) = "list" -> [OfType("array") EXCEPT !.items = <<Elem>>]
          [] Head(t) = "map" -> [OfType("object") EXCEPT !.additional = "schema", !.values = <<Elem>>]
          [] OTHER -> ref

\* payloadSchema, with the null of the field.
PayloadSchema(p, v) ==
    LET s == IF p.payload = <<>> THEN Ref(VariantType[v]) ELSE VariantShape(p.payload, Ref(VariantType[v]))
    IN  IF AdmitsNull(p) THEN Nullable(s) ELSE s

\* addUnionBranch.
Branch(s, v) ==
    LET d == CHOOSE n \in Discriminators(s) : TRUE
        p == CHOOSE n \in Payloads(s) : TRUE
    IN  [s EXCEPT !.types = {"object"}, !.required = @ \cup {d},
                  !.props = [@ EXCEPT ![d] = [@ EXCEPT !.disc = FALSE, !.const = v], ![p] = PayloadSchema(@, v)],
                  !.additional = IF closed THEN "none" ELSE @]

\* Fault: a branch takes the name of a type that was reflected for itself.
TakenByDefinition(name) == name \in DOMAIN byName

\* unionBranchName: names of hoisted schemas, of branches and of types.
Taken(name) == name \in DOMAIN byType \cup DOMAIN byName

BranchNames(c, vs) ==
    [i \in DOMAIN vs |->
        LET k == CHOOSE k \in 1..9 : ~Taken(BranchName(c, i, k)) /\ \A j \in 1..(k - 1) : Taken(BranchName(c, i, j))
        IN  BranchName(c, i, k)]

\* clearObjectKeywords, with the null of a pointer.
Envelope(s, names) ==
    LET e == [Blank EXCEPT !.one = [i \in DOMAIN names |-> Ref(names[i])]]
    IN  IF "null" \in s.types THEN Nullable(e) ELSE e

\* makeUnionEnvelope and addUnionBranches.
MakeUnionEnvelope(c, n) ==
    LET s == At(Document[c], n)
        vs == VariantsOf(Payload(s))
        names == BranchNames(c, vs)
        new == IF n = NoTag THEN Envelope(s, names)
               ELSE [Document[c] EXCEPT !.props[n] = Envelope(s, names)]
        defs == [m \in DOMAIN byName \cup Range(names) |->
                    IF m \in Range(names) THEN Branch(s, vs[CHOOSE i \in DOMAIN vs : names[i] = m]) ELSE byName[m]]
    IN  /\ phase = "branches" /\ <<c, n>> \in Unions
        /\ byType' = IF c \in DOMAIN byType THEN [byType EXCEPT ![c] = new] ELSE byType
        /\ byName' = IF c \in DOMAIN byType THEN defs ELSE [defs EXCEPT ![c] = new]
        /\ merged' = merged \cup {<<c, n>>}
        /\ UNCHANGED <<types, program, closed, todo, current, job, pending, fixed, forms, phase>>

RECURSIVE HasVariants(_)
HasVariants(s) ==
    \/ s.variants # <<>>
    \/ \E x \in Range(s.any) \cup Range(s.one) \cup Range(s.items) \cup Range(s.values) \cup Range(s.props) :
        HasVariants(x)

\* checkTypes: variants outside a union are no JSON Schema types.
Finish ==
    /\ phase = "branches" /\ Unions = {}
    /\ phase' = IF \E c \in DOMAIN Document : HasVariants(Document[c]) THEN "refused" ELSE "done"
    /\ UNCHANGED <<types, program, closed, todo, current, job, pending, byType, byName, fixed, forms, merged>>

Next ==
    \/ \E o \in todo : Start(o) \/ RefuseParams(o)
    \/ \E o \in current : Complete(o) \/ RefuseForm(o)
    \/ \E c \in pending : FixComponent(c) \/ RefuseHidden(c)
    \/ CloseRegistered
    \/ AllReflected
    \/ \E v \in Wanted : ReflectVariant(v) \/ RefuseVariant(v)
    \/ AllVariants
    \/ \E u \in Unions : MakeUnionEnvelope(u[1], u[2])
    \/ Finish

Spec == Init /\ [][Next]_vars
-----------------------------------------------------------------------------
(* Properties. *)

\* What a schema accepts: null, and the other alternatives.
RECURSIVE TakesNull(_), NonNull(_)
TakesNull(s) ==
    LET arms == Range(s.any) \cup Range(s.one)
    IN  IF arms # {} THEN \E a \in arms : TakesNull(a) ELSE s.ref = NoTag /\ (s.types = {} \/ "null" \in s.types)
NonNull(s) ==
    LET arms == (Range(s.any) \cup Range(s.one)) \ {Null}
    IN  IF arms = {} THEN {s} ELSE UNION {NonNull(a) : a \in arms}

\* A schema describes the values of a Go type, and an object those of a struct.
RECURSIVE Describes(_, _, _), Fits(_, _)
Describes(type, orNull, s) ==
    LET t == Deref(type) IN
    /\ t # <<"any">> => (TakesNull(s) <=> IsPointer(type) \/ orNull)
    /\ \A a \in NonNull(s) :
        CASE Head(t) = "text" -> a.types \ {"null"} = {"string"}
          [] Head(t) = "any" -> a.types = {} /\ a.ref = NoTag
          [] Head(t) = "list" -> "array" \in a.types /\ Describes(Tail(t), FALSE, a.items[1])
          [] Head(t) = "map" -> /\ "object" \in a.types
                                /\ a.additional = "schema" => Describes(Tail(t), FALSE, a.values[1])
                                /\ a.additional = "none" => closed /\ Tail(t) = <<"any">>
          [] Head(t) \in Inline -> Fits(Shown(Head(t)), a)
          [] OTHER -> a.ref = Head(t)
Fits(shown, s) ==
    /\ DOMAIN s.props = {WireName(Last(p)) : p \in shown}
    /\ s.required = {WireName(Last(p)) : p \in {p \in shown : AlwaysWritten(p)}}
    /\ s.additional = IF closed THEN "none" ELSE "unset"
    /\ \A p \in shown :
        Last(p).variants = <<>> => Describes(Last(p).type, Last(p).nulls, s.props[WireName(Last(p))])

\* The components that a reader of the document can come to.
RECURSIVE Readable(_)
Readable(found) ==
    LET more == found \cup UNION {Refs(Document[c]) : c \in found}
    IN  IF more = found THEN found ELSE Readable(more)

InMerged(c) == \E u \in merged : u[1] = c

\* In whatever order the operations of a program are reflected, each object
\* schema that a reader of the document comes to has the fields that
\* encoding/json writes, requires those that it always writes, and accepts null
\* where it writes null, whether the struct was hoisted or reflected for itself.
SchemasDescribeJSON ==
    phase # "refused" /\ job = NoTag =>
        \A c \in Readable(DOMAIN byType) \cap DOMAIN Declared :
            ~InMerged(c) => Fits(Shown(c), Document[c])

\* A struct in the place of the any of a payload.
InPlace(type, t) == IF Last(type) = "any" THEN Append(SubSeq(type, 1, Len(type) - 1), t) ELSE <<t>>

Way(t, n) == CHOOSE p \in Shown(t) : WireName(Last(p)) = n

\* b is the branch of the union struct t for the variant v.
IsBranch(b, t, v) ==
    LET d == CHOOSE p \in Shown(t) : Last(p).disc
        data == CHOOSE p \in Shown(t) : Last(p).variants # <<>>
    IN  /\ DOMAIN b.props = {WireName(Last(p)) : p \in Shown(t)}
        /\ b.props[WireName(Last(d))].const = v
        /\ b.required = {WireName(Last(d))} \cup {WireName(Last(p)) : p \in {p \in Shown(t) : AlwaysWritten(p)}}
        /\ Describes(InPlace(Last(data).type, VariantType[v]), FALSE, b.props[WireName(Last(data))])
        /\ \A p \in Shown(t) \ {d, data} : Describes(Last(p).type, Last(p).nulls, b.props[WireName(Last(p))])

\* e is what is left of the union struct t, which stands in a type.
IsEnvelope(e, type) ==
    LET t == Last(type)
        vs == Last(CHOOSE p \in Shown(t) : Last(p).variants # <<>>).variants
    IN  /\ e.props = Blank.props /\ e.types = {} /\ e.additional = "unset"
        /\ TakesNull(e) <=> IsPointer(type)
        /\ Len(SelectSeq(e.one, LAMBDA arm : arm # Null)) = Len(vs)
        /\ \A i \in DOMAIN vs : e.one[i].ref \in DOMAIN Document /\ IsBranch(Document[e.one[i].ref], t, vs[i])

\* A union names one branch for each variant, which no type and no other union
\* takes away from it; the branch requires the discriminator, has the variant
\* where the payload holds any, and all else as the envelope declares it; and
\* an envelope behind a pointer still accepts null.
UnionsAreWhole ==
    phase = "done" =>
        /\ \A u \in merged :
            /\ IsEnvelope(At(Document[u[1]], u[2]), IF u[2] = NoTag THEN <<u[1]>> ELSE Last(Way(u[1], u[2])).type)
            /\ \A w \in merged \ {u} :
                Range(At(Document[u[1]], u[2]).one) \cap Range(At(Document[w[1]], w[2]).one) \subseteq {Null}
        /\ Readable(DOMAIN byType) \subseteq DOMAIN Document

\* An operation with parameters loses no field of its request: a field that JSON
\* reads is a parameter or a property of the body, never both, under the name
\* that the form gives it on a form.  (A field that Go cannot select by its name
\* is no parameter, and json:"-," goes with the split: README.)
SplitLosesNothing ==
    \A o \in program \ (todo \cup current) : (o.request /\ phase # "refused") =>
        LET fields == types[o.type].given
            rest == {p \in fields : ~IsParam(Last(p))}
            written == {p \in rest : ~Last(p).hidden /\ FormName(Last(p)) # "-"}
        IN  /\ \A p \in fields \ rest : Last(p) \in types[o.type].params
            /\ rest = {} <=> Target(o) = NoTag
            /\ rest # {} =>
                LET s == forms[o.type] IN
                /\ DOMAIN s.props = {FormName(Last(p)) : p \in written}
                /\ s.required = {FormName(Last(p)) : p \in {p \in written : AlwaysWritten(p)}}
                /\ \A p \in written : Describes(Last(p).type, Last(p).nulls, s.props[FormName(Last(p))])

\* "ClosedSchemas: Emits additionalProperties: false for object schemas while
\* preserving map values" (skills/specout/references/configuration.md:66): a map of
\* anything stays open wherever it stands.
FreeMapsStayOpen ==
    phase = "done" =>
        \A c \in Readable(DOMAIN byType) \cap DOMAIN Declared : \A p \in Shown(c) :
            Last(p).type = <<"map", "any">> /\ ~InMerged(c)
                => Document[c].props[WireName(Last(p))].additional # "none"
=============================================================================
