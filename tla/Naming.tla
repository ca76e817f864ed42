------------------------------- MODULE Naming -------------------------------
(***************************************************************************)
(* The component names of one build (schema.go, build.go, operation.go,    *)
(* body.go).  A build reflects the types of its routes in order.  A type   *)
(* has an override, or the name of its Go type, or, an anonymous struct,   *)
(* the next AnonymousN.  A request whose parameters are taken out leaves a *)
(* generated body type named after it.  A named type that claims a number  *)
(* an anonymous struct took makes the build start over with the number     *)
(* reserved.                                                               *)
(*                                                                         *)
(* A component name is a pair: <<"Anonymous", n>>, <<"Body", name>> for    *)
(* the body of the request called name, <<"Type", text>> for any other.    *)
(***************************************************************************)
EXTENDS Naturals, Sequences, FiniteSets, Functions

CONSTANTS
    Types,          \* the types that routes reflect
    Anonymous,      \* the anonymous structs among them, generated bodies included
    NoType,
    Names,          \* component names
    DefaultName,    \* DefaultName[t]: name of the Go type t, by sanitizeName
    Overrides,      \* Overrides[t]: name that SchemaName[t] set, for some types
    Programs        \* the sequences of reflections that the routes of a program make

\* One reflection: of a type, or of the body that request leaves.
Items == [type : Types, request : Types \cup {NoType}]

AnonymousName(n) == <<"Anonymous", n>>
BodyName(name) == <<"Body", name>>

ASSUME NamingAssumption ==
    /\ Anonymous \subseteq Types /\ NoType \notin Types
    /\ \A t \in Types \ Anonymous : DefaultName[t] \in Names
    /\ DOMAIN Overrides \subseteq Types /\ \A t \in DOMAIN Overrides : Overrides[t] \in Names
    /\ Programs \subseteq Seq(Items)
    /\ \A p \in Programs : \A i \in DOMAIN p :
        p[i].request # NoType => p[i].type \in Anonymous \ DOMAIN Overrides

VARIABLES
    program,    \* the reflections of the build
    todo,       \* the reflections still to do
    generated,  \* the overrides that body names added to schemaRegistry.overrides
    names,      \* schemaRegistry.names, for anonymous structs
    owners,     \* schemaRegistry.owners
    anon,       \* schemaRegistry.anon
    reserved,   \* the names reserved by earlier runs of reflectRoutes
    outcome     \* "running", "done", "duplicate" (a panic that fails the build)

vars == <<program, todo, generated, names, owners, anon, reserved, outcome>>

\* newSchemaRegistry.
NewRegistry == generated = <<>> /\ names = <<>> /\ owners = <<>> /\ anon = 0

Init ==
    /\ program \in Programs
    /\ todo = program
    /\ NewRegistry
    /\ reserved = {}
    /\ outcome = "running"

With(f, x, y) == [z \in DOMAIN f \cup {x} |-> IF z = x THEN y ELSE f[z]]

Taken(n) == AnonymousName(n) \in DOMAIN owners \cup reserved

\* nextAnonymousName.
NextNumber ==
    CHOOSE n \in (anon + 1)..(anon + Cardinality(DOMAIN owners) + Cardinality(reserved) + 1) :
        ~Taken(n) /\ \A m \in (anon + 1)..(n - 1) : Taken(m)

\* nameFor takes a number for t.
NeedsNumber(t) ==
    t \in Anonymous /\ t \notin DOMAIN generated \cup DOMAIN Overrides \cup DOMAIN names

\* nameFor: override, then a name given before, then a new one.
NameFor(t) ==
    IF t \in DOMAIN generated THEN generated[t]
    ELSE IF t \in DOMAIN Overrides THEN Overrides[t]
    ELSE IF t \in DOMAIN names THEN names[t]
    ELSE IF t \in Anonymous THEN AnonymousName(NextNumber) ELSE DefaultName[t]

\* The type that the next reflection names first: of a body, its request.
Subject(item) == IF item.request = NoType THEN item.type ELSE item.request

\* The name under which the next reflection registers its type.
ItemName(item) ==
    IF item.request = NoType THEN NameFor(item.type) ELSE BodyName(NameFor(item.request))

\* Fault: a type is registered again under a later name.
RegisteredNever(t) == FALSE

\* refFor finds the type in the registry.
Registered(t) == t \in Range(owners)

\* claimName finds the name taken by another type.
Clashes(item) ==
    /\ ~Registered(item.type)
    /\ ItemName(item) \in DOMAIN owners
    /\ owners[ItemName(item)] # item.type

\* Fault: a name that another run could not free is tried again and again.
CanFreeAlways(item) ==
    /\ owners[ItemName(item)] \in Anonymous
    /\ item.type \notin Anonymous

\* Fault: no run is repeated.
CanFreeNever(item) == FALSE

\* Another run can free the name: an anonymous struct took its number.
CanFree(item) ==
    /\ owners[ItemName(item)] \in Anonymous
    /\ item.type \notin Anonymous
    /\ ItemName(item) \notin reserved

\* nameFor gives the subject its name, also when its body is registered.
GiveName(item) ==
    IF NeedsNumber(Subject(item)) /\ (item.request # NoType \/ ~Registered(item.type))
    THEN /\ names' = With(names, Subject(item), AnonymousName(NextNumber))
         /\ anon' = NextNumber
    ELSE UNCHANGED <<names, anon>>

\* Fault: the owner of a name is not looked up.
ClaimOver(item) ==
    /\ todo # <<>> /\ item = Head(todo)
    /\ todo' = Tail(todo)
    /\ GiveName(item)
    /\ generated' = IF item.request = NoType THEN generated
                    ELSE With(generated, item.type, ItemName(item))
    /\ owners' = IF Registered(item.type) THEN owners
                 ELSE With(owners, ItemName(item), item.type)
    /\ UNCHANGED <<program, reserved, outcome>>

\* One type is reflected: operation, bodyType, refFor, claimName.
Claim(item) ==
    /\ todo # <<>> /\ item = Head(todo)
    /\ ~Clashes(item)
    /\ todo' = Tail(todo)
    /\ GiveName(item)
    /\ generated' = IF item.request = NoType THEN generated
                    ELSE With(generated, item.type, ItemName(item))
    /\ owners' = IF Registered(item.type) THEN owners
                 ELSE With(owners, ItemName(item), item.type)
    /\ UNCHANGED <<program, reserved, outcome>>

\* reflectRoutes recovers a nameClash, and pathsAndSchemas runs it again.
StartOver(item) ==
    /\ todo # <<>> /\ item = Head(todo)
    /\ Clashes(item) /\ CanFree(item)
    /\ reserved' = reserved \cup {ItemName(item)}
    /\ todo' = program
    /\ generated' = <<>> /\ names' = <<>> /\ owners' = <<>> /\ anon' = 0
    /\ UNCHANGED <<program, outcome>>

\* panicDuplicateName.
Duplicate(item) ==
    /\ todo # <<>> /\ item = Head(todo)
    /\ Clashes(item) /\ ~CanFree(item)
    /\ outcome' = "duplicate"
    /\ UNCHANGED <<program, todo, generated, names, owners, anon, reserved>>

Finish ==
    /\ todo = <<>>
    /\ outcome' = "done"
    /\ UNCHANGED <<program, todo, generated, names, owners, anon, reserved>>

Next ==
    \/ outcome = "running" /\ \/ \E item \in Range(todo) :
                                    Claim(item) \/ StartOver(item) \/ Duplicate(item)
                              \/ Finish
    \/ outcome # "running" /\ UNCHANGED vars

\* pathsAndSchemas is a loop of one goroutine: it goes on until it returns.
Spec == Init /\ [][Next]_vars /\ WF_vars(Next)
-----------------------------------------------------------------------------
(* Properties. *)

\* The types of the program.
Reflected == {item.type : item \in Range(program)}

Named == {t \in Types : t \notin Anonymous \/ t \in DOMAIN Overrides}

\* The name that a named type or an override fixes, whatever the order.
FixedName(t) == IF t \in DOMAIN Overrides THEN Overrides[t] ELSE DefaultName[t]

\* No body is that of an anonymous request: bodyType gives such a request a
\* number and never claims it (body.go:27).
NamedRequests ==
    \A p \in Programs : \A i \in DOMAIN p : p[i].request # NoType => p[i].request \in Named

\* No schema is lost under the name of another type: in the document each
\* reflected type has a component of its own.
EveryTypeHasComponent ==
    outcome = "done" => \A t \in Reflected : Cardinality({n \in DOMAIN owners : owners[n] = t}) = 1

\* "An anonymous struct takes the next AnonymousN name that no named type uses"
\* (build.go:84).
AnonymousAvoidsNamed ==
    outcome = "done" =>
        \A t \in DOMAIN names : \A u \in Named \cap Reflected : names[t] # FixedName(u)

\* The names that do not depend on numbers.
Fixed ==
    {<<t, FixedName(t)>> : t \in Named \cap Reflected}
        \cup {<<item.type, BodyName(FixedName(item.request))>> : item \in
                {item \in Range(program) : item.request \in Named}}

\* The build fails only when two types fix one name, so SchemaName can mend it:
\* a number that an anonymous struct took never fails it, unless SchemaName gave
\* that number to another anonymous struct (claimName starts over for types
\* that Go names only).
DuplicateIsReal ==
    outcome = "duplicate" =>
        \/ \E p, q \in Fixed : p[1] # q[1] /\ p[2] = q[2]
        \/ \E t \in Anonymous \cap DOMAIN Overrides \cap Reflected, u \in DOMAIN names :
            names[u] = Overrides[t]

\* A build comes to an end: the loop holds the generator's lock.
Terminates == <>(outcome # "running")
=============================================================================
