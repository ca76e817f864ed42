---------------------------- MODULE NamingProofs ----------------------------
(***************************************************************************)
(* Theorems about component names for every set of types, overrides and    *)
(* programs: each type of a finished build has one component, anonymous    *)
(* structs keep away from the names of others, and a build fails only when *)
(* names that the program fixes collide.                                   *)
(***************************************************************************)
EXTENDS Naming, WellFoundedInduction, FiniteSetTheorems, TLAPS

(***************************************************************************)
(* A free number always exists.                                            *)
(***************************************************************************)

LEMMA LeastNumber ==
    ASSUME NEW S \in SUBSET Nat, S # {}
    PROVE  \E x \in S : \A y \in S : x <= y
<1>1. IsWellFoundedOn(OpToRel(<, Nat), Nat)
  BY NatLessThanWellFounded
<1>2. PICK x \in S : \A y \in S : ~(<<y, x>> \in OpToRel(<, Nat))
  BY <1>1, WFMin
<1>3. ASSUME NEW y \in S PROVE x <= y
  <2>1. ~(y < x)
    BY <1>2 DEF OpToRel
  <2>2. QED
    BY <2>1
<1>4. QED
  BY <1>3

LEMMA FreeNumber ==
    ASSUME NEW taken, IsFiniteSet(taken), NEW from \in Nat, NEW size \in Nat,
           Cardinality(taken) <= size
    PROVE  \E n \in from..(from + size) : AnonymousName(n) \notin taken
<1> SUFFICES ASSUME \A n \in from..(from + size) : AnonymousName(n) \in taken PROVE FALSE
  OBVIOUS
<1> DEFINE numbers == from..(from + size)
           f == [n \in numbers |-> AnonymousName(n)]
<1>1. IsFiniteSet(numbers) /\ Cardinality(numbers) = size + 1
  BY FS_Interval
<1>2. f \in [numbers -> taken] /\ Cardinality(taken) < Cardinality(numbers)
  BY <1>1, FS_CardinalityType
<1>3. PICK x, y \in numbers : x # y /\ f[x] = f[y]
  <2> HIDE DEF f, numbers
  <2>1. QED
    BY <1>1, <1>2, FS_PigeonHole
<1>4. QED
  BY <1>3 DEF AnonymousName

\* nextAnonymousName finds a name that no type holds.
LEMMA NumberIsFree ==
    ASSUME IsFiniteSet(DOMAIN owners), IsFiniteSet(reserved), anon \in Nat
    PROVE  NextNumber \in Nat /\ ~Taken(NextNumber)
<1> DEFINE last == anon + Cardinality(DOMAIN owners) + Cardinality(reserved) + 1
           free == {n \in (anon + 1)..last : ~Taken(n)}
<1>1. Cardinality(DOMAIN owners) \in Nat /\ Cardinality(reserved) \in Nat
  BY FS_CardinalityType
<1>2. free # {}
  <2> DEFINE size == Cardinality(DOMAIN owners) + Cardinality(reserved)
             taken == DOMAIN owners \cup reserved
  <2>1. IsFiniteSet(taken) /\ Cardinality(taken) <= size
    <3>1. /\ IsFiniteSet(taken)
          /\ Cardinality(taken) = Cardinality(DOMAIN owners) + Cardinality(reserved)
                                    - Cardinality(DOMAIN owners \cap reserved)
      BY FS_Union
    <3>2. IsFiniteSet(DOMAIN owners \cap reserved)
      BY FS_Subset
    <3>3. Cardinality(DOMAIN owners \cap reserved) \in Nat
      BY <3>2, FS_CardinalityType
    <3>4. QED
      BY <1>1, <3>1, <3>3
  <2>2. anon + 1 \in Nat /\ size \in Nat /\ last = (anon + 1) + size
    BY <1>1
  <2> HIDE DEF size
  <2>3. \E n \in (anon + 1)..((anon + 1) + size) : AnonymousName(n) \notin taken
    BY <2>1, <2>2, FreeNumber
  <2>4. QED
    BY <2>2, <2>3 DEF Taken
<1>3. free \in SUBSET Nat
  BY <1>1
<1>4. PICK n \in free : \A m \in free : n <= m
  <2> HIDE DEF free
  <2>1. QED
    BY <1>2, <1>3, LeastNumber
<1>5. \A m \in (anon + 1)..(n - 1) : Taken(m)
  <2> SUFFICES ASSUME NEW m \in (anon + 1)..(n - 1), ~Taken(m) PROVE FALSE
    OBVIOUS
  <2>1. m \in free /\ ~(n <= m)
    BY <1>1, <1>4
  <2>2. QED
    BY <1>4, <2>1
<1>6. \E k \in (anon + 1)..last : ~Taken(k) /\ \A m \in (anon + 1)..(k - 1) : Taken(m)
  BY <1>4, <1>5
<1>7. NextNumber \in (anon + 1)..last /\ ~Taken(NextNumber)
  <2>1. NextNumber = CHOOSE k \in (anon + 1)..last : ~Taken(k) /\ \A m \in (anon + 1)..(k - 1) : Taken(m)
    BY DEF NextNumber
  <2> HIDE DEF last
  <2>2. QED
    BY <1>6, <2>1
<1>8. QED
  BY <1>1, <1>7

(***************************************************************************)
(* The invariants.                                                         *)
(***************************************************************************)

TypeOK ==
    /\ program \in Programs
    /\ todo \in Seq(Items) /\ Range(todo) \subseteq Range(program)
    /\ outcome = "done" => todo = <<>>
    /\ anon \in Nat
    /\ IsFiniteSet(DOMAIN owners) /\ IsFiniteSet(reserved)

\* No type has two components, and what is reflected has one.
OwnersInv ==
    /\ \A m, n \in DOMAIN owners : owners[m] = owners[n] => m = n
    /\ \A item \in Range(program) : item \in Range(todo) \/ Registered(item.type)

\* The types that names and generated name, and that they are registered.
GivenInv ==
    /\ DOMAIN generated \subseteq Anonymous \ DOMAIN Overrides
    /\ \A t \in DOMAIN generated : Registered(t)
    /\ \A t \in DOMAIN names :
        /\ t \in Anonymous \ DOMAIN Overrides
        /\ names[t] \in DOMAIN owners \ reserved /\ owners[names[t]] = t
        /\ \E k \in Nat : names[t] = AnonymousName(k)

\* A component has a name that the program fixes, or a number.
SourceInv ==
    \A n \in DOMAIN owners :
        <<owners[n], n>> \in Fixed \/ (owners[n] \in DOMAIN names /\ names[owners[n]] = n)

NamesInv == TypeOK /\ OwnersInv /\ GivenInv /\ SourceInv /\ DuplicateIsReal

LEMMA RangeOf == \A s : Range(s) = {s[i] : i \in DOMAIN s}
BY DEF Range

LEMMA HeadAndTail ==
    ASSUME NEW T, NEW s \in Seq(T), s # <<>>
    PROVE  /\ Tail(s) \in Seq(T) /\ Range(s) = {Head(s)} \cup Range(Tail(s))
           /\ Head(s) \in T
<1>1. Len(s) \in Nat \ {0} /\ DOMAIN s = 1..Len(s) /\ Head(s) = s[1]
  OBVIOUS
<1>2. Tail(s) \in Seq(T) /\ DOMAIN Tail(s) = 1..(Len(s) - 1) /\ \A i \in 1..(Len(s) - 1) : Tail(s)[i] = s[i + 1]
  OBVIOUS
<1>3. \A i \in 1..Len(s) : i = 1 \/ (i - 1 \in 1..(Len(s) - 1) /\ s[i] = Tail(s)[i - 1])
  BY <1>1, <1>2
<1>4. \A i \in 1..(Len(s) - 1) : i + 1 \in 1..Len(s)
  BY <1>1
<1>5. Range(s) \subseteq {Head(s)} \cup Range(Tail(s))
  <2>1. ASSUME NEW i \in 1..Len(s) PROVE s[i] \in {Head(s)} \cup Range(Tail(s))
    <3>1. CASE i = 1
      BY <1>1, <3>1
    <3>2. CASE i - 1 \in 1..(Len(s) - 1) /\ s[i] = Tail(s)[i - 1]
      BY <1>2, <3>2, RangeOf
    <3>3. QED
      BY <1>3, <3>1, <3>2
  <2>2. QED
    BY <1>1, <2>1, RangeOf
<1>6. Head(s) \in Range(s) /\ Head(s) \in T
  BY <1>1, RangeOf
<1>7. ASSUME NEW i \in 1..(Len(s) - 1) PROVE Tail(s)[i] \in Range(s)
  BY <1>1, <1>2, <1>4, RangeOf
<1>8. Range(Tail(s)) \subseteq Range(s)
  BY <1>2, <1>7, RangeOf
<1>9. QED
  BY <1>2, <1>5, <1>6, <1>8

LEMMA WithIs ==
    ASSUME NEW f, NEW x, NEW y
    PROVE  /\ DOMAIN With(f, x, y) = DOMAIN f \cup {x} /\ With(f, x, y)[x] = y
           /\ \A z \in DOMAIN f : z # x => With(f, x, y)[z] = f[z]
BY DEF With

\* The items of a program, as NamingAssumption describes them.
LEMMA ItemOfProgram ==
    ASSUME TypeOK, NEW item \in Range(todo)
    PROVE  /\ item \in Items /\ item \in Range(program) /\ item.type \in Reflected
           /\ item.request # NoType => item.type \in Anonymous \ DOMAIN Overrides
           /\ NamedRequests /\ item.request # NoType => item.request \in Named
<1>1. item \in Range(program) /\ program \in Programs
  BY DEF TypeOK
<1>2. PICK i \in DOMAIN program : item = program[i]
  BY <1>1, RangeOf
<1>3. program \in Seq(Items)
  BY <1>1, NamingAssumption
<1>4. QED
  BY <1>1, <1>2, <1>3, NamingAssumption DEF Reflected, NamedRequests

LEMMA InitInv == Init => NamesInv
<1> SUFFICES ASSUME Init PROVE NamesInv
  OBVIOUS
<1>1. owners = <<>> /\ names = <<>> /\ generated = <<>> /\ DOMAIN <<>> = {}
  BY DEF Init, NewRegistry
<1>2. TypeOK
  <2>1. IsFiniteSet({})
    BY FS_EmptySet
  <2>2. QED
    BY <1>1, <2>1, NamingAssumption DEF Init, NewRegistry, TypeOK
<1>3. OwnersInv
  BY <1>1 DEF Init, OwnersInv
<1>4. QED
  BY <1>1, <1>2, <1>3 DEF Init, NamesInv, GivenInv, SourceInv, DuplicateIsReal

\* The part that holds with anonymous requests too.
RegistryInv == TypeOK /\ OwnersInv

LEMMA ClaimType ==
    ASSUME TypeOK, NEW item, Claim(item)
    PROVE  TypeOK'
<1>1. item \in Range(todo)
  BY HeadAndTail DEF Claim, TypeOK
<1>2. todo' \in Seq(Items) /\ Range(todo') \subseteq Range(program) /\ outcome' = outcome /\ program' = program
  BY HeadAndTail DEF Claim, TypeOK
<1>3. anon' \in Nat
  BY NumberIsFree DEF Claim, GiveName, TypeOK
<1>4. IsFiniteSet(DOMAIN owners') /\ reserved' = reserved
  <2>1. owners' = owners \/ DOMAIN owners' = DOMAIN owners \cup {ItemName(item)}
    BY WithIs DEF Claim
  <2>2. IsFiniteSet(DOMAIN owners \cup {ItemName(item)})
    BY FS_AddElement DEF TypeOK
  <2>3. QED
    BY <2>1, <2>2 DEF Claim, TypeOK
<1>5. outcome' = "done" => todo' = <<>>
  BY DEF Claim, TypeOK
<1>6. QED
  BY <1>2, <1>3, <1>4, <1>5 DEF TypeOK

\* What a claim does to the owners.
LEMMA ClaimedOwners ==
    ASSUME NEW item, Claim(item)
    PROVE  \/ Registered(item.type) /\ owners' = owners
           \/ /\ ~Registered(item.type) /\ ItemName(item) \notin DOMAIN owners
              /\ DOMAIN owners' = DOMAIN owners \cup {ItemName(item)}
              /\ owners'[ItemName(item)] = item.type
              /\ \A n \in DOMAIN owners : owners'[n] = owners[n]
<1>1. CASE Registered(item.type)
  BY <1>1 DEF Claim
<1>2. CASE ~Registered(item.type)
  <2>1. ItemName(item) \notin DOMAIN owners
    BY <1>2, RangeOf DEF Claim, Clashes, Registered
  <2>2. owners' = With(owners, ItemName(item), item.type)
    BY <1>2 DEF Claim
  <2> DEFINE name == ItemName(item)
  <2>3. /\ DOMAIN owners' = DOMAIN owners \cup {name} /\ owners'[name] = item.type
        /\ \A n \in DOMAIN owners : n # name => owners'[n] = owners[n]
    <3> HIDE DEF name
    <3>1. owners' = With(owners, name, item.type)
      BY <2>2 DEF name
    <3>2. QED
      BY <3>1 DEF With
  <2>4. \A n \in DOMAIN owners : owners'[n] = owners[n]
    BY <2>1, <2>3
  <2>5. QED
    BY <1>2, <2>1, <2>3, <2>4
<1>3. QED
  BY <1>1, <1>2

LEMMA ClaimOwners ==
    ASSUME RegistryInv, NEW item, Claim(item)
    PROVE  /\ OwnersInv'
           /\ \A t : Registered(t)' <=> Registered(t) \/ t = item.type
<1>1. \A t : Registered(t) <=> \E n \in DOMAIN owners : owners[n] = t
  BY RangeOf DEF Registered
<1>2. \A t : Registered(t)' <=> \E n \in DOMAIN owners' : owners'[n] = t
  BY RangeOf DEF Registered
<1>3. \A t : Registered(t)' <=> Registered(t) \/ t = item.type
  BY <1>1, <1>2, ClaimedOwners
<1>4. \A m, n \in DOMAIN owners' : owners'[m] = owners'[n] => m = n
  <2> DEFINE name == ItemName(item)
  <2>1. \A m, n \in DOMAIN owners : owners[m] = owners[n] => m = n
    BY DEF RegistryInv, OwnersInv
  <2>2. CASE owners' = owners
    BY <2>1, <2>2
  <2>3. CASE owners' # owners
    <3>1. /\ ~Registered(item.type) /\ name \notin DOMAIN owners
          /\ DOMAIN owners' = DOMAIN owners \cup {name} /\ owners'[name] = item.type
          /\ \A n \in DOMAIN owners : owners'[n] = owners[n]
      BY <2>3, ClaimedOwners
    <3>2. \A n \in DOMAIN owners : owners[n] # item.type
      BY <1>1, <3>1
    <3> HIDE DEF name
    <3>3. QED
      BY <2>1, <3>1, <3>2
  <2>4. QED
    BY <2>2, <2>3
<1>5. program' = program /\ Range(todo) = {item} \cup Range(todo')
  BY HeadAndTail DEF Claim, RegistryInv, TypeOK
<1>6. QED
  BY <1>3, <1>4, <1>5 DEF RegistryInv, OwnersInv

LEMMA StartOverInv ==
    ASSUME RegistryInv, outcome = "running", NEW item, StartOver(item)
    PROVE  NamesInv'
<1>1. owners' = <<>> /\ names' = <<>> /\ generated' = <<>> /\ DOMAIN <<>> = {} /\ todo' = program /\ program' = program
  BY DEF StartOver
<1>2. TypeOK'
  <2>1. IsFiniteSet({}) /\ IsFiniteSet(reserved \cup {ItemName(item)})
    BY FS_EmptySet, FS_AddElement DEF RegistryInv, TypeOK
  <2>2. program \in Seq(Items) /\ outcome' = outcome
    BY NamingAssumption DEF RegistryInv, TypeOK, StartOver
  <2>3. outcome # "done"
    OBVIOUS
  <2>4. QED
    BY <1>1, <2>1, <2>2, <2>3 DEF RegistryInv, TypeOK, StartOver
<1>3. OwnersInv'
  BY <1>1 DEF OwnersInv
<1>4. outcome' # "duplicate"
  BY DEF StartOver
<1>5. QED
  BY <1>1, <1>2, <1>3, <1>4 DEF NamesInv, GivenInv, SourceInv, DuplicateIsReal

(***************************************************************************)
(* Names of types without an anonymous request.                            *)
(***************************************************************************)

LEMMA NamedKeepsName ==
    ASSUME GivenInv, NEW u \in Named
    PROVE  NameFor(u) = FixedName(u) /\ ~NeedsNumber(u)
BY DEF GivenInv, Named, NameFor, FixedName, NeedsNumber

\* The name of a type that is not registered is fixed by the program, or the
\* next number.
LEMMA NewName ==
    ASSUME NamesInv, NamedRequests, NEW item \in Range(todo), ~Registered(item.type)
    PROVE  \/ <<item.type, ItemName(item)>> \in Fixed /\ ~NeedsNumber(Subject(item))
              /\ (item.request # NoType => \E x : ItemName(item) = BodyName(x))
              /\ (item.request = NoType => item.type \in Named /\ ItemName(item) = FixedName(item.type))
           \/ /\ item.request = NoType /\ NeedsNumber(item.type)
              /\ ItemName(item) = AnonymousName(NextNumber)
<1>1. /\ item \in Items /\ item \in Range(program) /\ item.type \in Reflected
      /\ (item.request # NoType => item.request \in Named)
  BY ItemOfProgram DEF NamesInv
<1>2. CASE item.request # NoType
  <2>1. NameFor(item.request) = FixedName(item.request) /\ ~NeedsNumber(item.request)
    BY <1>1, <1>2, NamedKeepsName DEF NamesInv
  <2>2. ItemName(item) = BodyName(FixedName(item.request)) /\ Subject(item) = item.request
    BY <1>2, <2>1 DEF ItemName, Subject
  <2>3. <<item.type, BodyName(FixedName(item.request))>> \in Fixed
    BY <1>1, <1>2 DEF Fixed
  <2>4. QED
    BY <1>2, <2>1, <2>2, <2>3
<1>3. CASE item.request = NoType /\ item.type \in Named
  <2>1. NameFor(item.type) = FixedName(item.type) /\ ~NeedsNumber(item.type)
    BY <1>3, NamedKeepsName DEF NamesInv
  <2>2. ItemName(item) = FixedName(item.type) /\ Subject(item) = item.type
    BY <1>3, <2>1 DEF ItemName, Subject
  <2>3. <<item.type, FixedName(item.type)>> \in Fixed
    BY <1>1, <1>3 DEF Fixed
  <2>4. QED
    BY <1>3, <2>1, <2>2, <2>3
<1>4. CASE item.request = NoType /\ item.type \notin Named
  <2>1. item.type \in Anonymous /\ item.type \notin DOMAIN Overrides
    BY <1>1, <1>4 DEF Named, Items
  <2>2. item.type \notin DOMAIN generated
    BY DEF NamesInv, GivenInv
  <2>3. item.type \notin DOMAIN names
    <3>1. item.type \in DOMAIN names => names[item.type] \in DOMAIN owners /\ owners[names[item.type]] = item.type
      BY DEF NamesInv, GivenInv
    <3>2. QED
      BY <3>1, RangeOf DEF Registered
  <2>4. QED
    BY <1>4, <2>1, <2>2, <2>3 DEF ItemName, NameFor, NeedsNumber
<1>5. QED
  BY <1>2, <1>3, <1>4

LEMMA ClaimNames ==
    ASSUME NamesInv, NamedRequests, outcome = "running", NEW item, Claim(item)
    PROVE  NamesInv'
<1>1. item \in Range(todo)
  BY HeadAndTail DEF Claim, NamesInv, TypeOK
<1>2. TypeOK' /\ OwnersInv' /\ \A t : Registered(t)' <=> Registered(t) \/ t = item.type
  BY ClaimType, ClaimOwners DEF NamesInv, RegistryInv
<1>3. outcome' = "running" /\ program' = program /\ reserved' = reserved /\ Fixed' = Fixed
  BY DEF Claim, Fixed, Reflected
<1>4. /\ item.request # NoType => item.type \in Anonymous \ DOMAIN Overrides
      /\ item.request # NoType => item.request \in Named
  BY <1>1, ItemOfProgram DEF NamesInv
<1>5. /\ DOMAIN generated' \subseteq Anonymous \ DOMAIN Overrides
      /\ \A t \in DOMAIN generated' : Registered(t)'
  <2>1. generated' = generated \/ (item.request # NoType /\ DOMAIN generated' = DOMAIN generated \cup {item.type})
    <3>1. generated' = generated \/ (item.request # NoType /\ generated' = With(generated, item.type, ItemName(item)))
      BY DEF Claim
    <3>2. QED
      BY <3>1 DEF With
  <2>2. QED
    BY <1>2, <1>4, <2>1 DEF NamesInv, GivenInv
<1> DEFINE name == ItemName(item)
           Given(t) == /\ t \in Anonymous \ DOMAIN Overrides
                       /\ names[t] \in DOMAIN owners \ reserved /\ owners[names[t]] = t
                       /\ \E k \in Nat : names[t] = AnonymousName(k)
           Sourced(n) == <<owners[n], n>> \in Fixed \/ (owners[n] \in DOMAIN names /\ names[owners[n]] = n)
<1>6. (\A t \in DOMAIN names : Given(t)) /\ (\A n \in DOMAIN owners : Sourced(n))
  BY DEF NamesInv, GivenInv, SourceInv
<1>7. (\A t \in DOMAIN names' : Given(t)') /\ (\A n \in DOMAIN owners' : Sourced(n)')
  <2>1. CASE Registered(item.type)
    <3>1. owners' = owners
      BY <2>1 DEF Claim
    <3>2. names' = names
      <4>1. item.request # NoType => ~NeedsNumber(Subject(item))
        BY <1>4, NamedKeepsName DEF NamesInv, Subject
      <4>2. QED
        BY <2>1, <4>1 DEF Claim, GiveName
    <3>3. QED
      BY <1>3, <1>6, <3>1, <3>2
  <2>2. CASE ~Registered(item.type)
    <3>1. /\ name \notin DOMAIN owners /\ DOMAIN owners' = DOMAIN owners \cup {name}
          /\ owners'[name] = item.type /\ \A n \in DOMAIN owners : owners'[n] = owners[n]
      BY <2>2, ClaimedOwners
    <3>2. CASE <<item.type, name>> \in Fixed /\ ~NeedsNumber(Subject(item))
      <4>1. names' = names
        BY <3>2 DEF Claim, GiveName
      <4> HIDE DEF name
      <4>2. \A t \in DOMAIN names' : Given(t)'
        BY <1>3, <1>6, <3>1, <4>1
      <4>3. \A n \in DOMAIN owners' : Sourced(n)'
        BY <1>3, <1>6, <3>1, <3>2, <4>1
      <4>4. QED
        BY <4>2, <4>3
    <3>3. CASE item.request = NoType /\ NeedsNumber(item.type) /\ name = AnonymousName(NextNumber)
      <4>1. NextNumber \in Nat /\ name \notin DOMAIN owners \cup reserved
        BY <3>3, NumberIsFree DEF NamesInv, TypeOK, Taken
      <4>2. names' = With(names, item.type, name)
        BY <2>2, <3>3 DEF Claim, GiveName, Subject
      <4>3. item.type \in Anonymous \ DOMAIN Overrides /\ item.type \notin DOMAIN names
        BY <3>3 DEF NeedsNumber
      <4>4. \E k \in Nat : name = AnonymousName(k)
        BY <3>3, <4>1
      <4> HIDE DEF name
      <4>5. /\ DOMAIN names' = DOMAIN names \cup {item.type} /\ names'[item.type] = name
            /\ \A t \in DOMAIN names : names'[t] = names[t]
        BY <4>2, <4>3 DEF With
      <4>6. \A t \in DOMAIN names' : Given(t)'
        <5>1. Given(item.type)'
          BY <1>3, <3>1, <4>1, <4>3, <4>4, <4>5
        <5>2. ASSUME NEW t \in DOMAIN names PROVE Given(t)'
          <6>1. Given(t) /\ names'[t] = names[t]
            BY <1>6, <4>5
          <6>2. owners'[names[t]] = owners[names[t]] /\ names[t] \in DOMAIN owners'
            BY <3>1, <6>1
          <6>3. QED
            BY <1>3, <6>1, <6>2
        <5>3. QED
          BY <4>5, <5>1, <5>2
      <4>7. \A n \in DOMAIN owners' : Sourced(n)'
        BY <1>3, <1>6, <3>1, <4>5
      <4>8. QED
        BY <4>6, <4>7
    <3>4. QED
      BY <1>1, <2>2, <3>2, <3>3, NewName
  <2>3. QED
    BY <2>1, <2>2
<1>8. QED
  BY <1>2, <1>3, <1>5, <1>7 DEF NamesInv, GivenInv, SourceInv, DuplicateIsReal

\* A build fails on names that the program fixes.
LEMMA DuplicateNames ==
    ASSUME NamesInv, NamedRequests, NEW item, Duplicate(item)
    PROVE  NamesInv'
<1>1. item \in Range(todo)
  BY HeadAndTail DEF Duplicate, NamesInv, TypeOK
<1> DEFINE name == ItemName(item)
           owner == owners[name]
<1>2. ~Registered(item.type) /\ name \in DOMAIN owners /\ owner # item.type
  BY DEF Duplicate, Clashes
<1>3. owner \notin Anonymous \/ item.type \in Anonymous \/ name \in reserved
  BY DEF Duplicate, CanFree
<1>4. \/ <<item.type, name>> \in Fixed
         /\ (item.request # NoType => \E x : name = BodyName(x))
         /\ (item.request = NoType => item.type \in Named /\ name = FixedName(item.type))
      \/ name = AnonymousName(NextNumber)
  BY <1>1, <1>2, NewName
<1>5. <<owner, name>> \in Fixed \/ (owner \in DOMAIN names /\ names[owner] = name)
  BY <1>2 DEF NamesInv, SourceInv
<1>6. name # AnonymousName(NextNumber)
  BY <1>2, NumberIsFree DEF NamesInv, TypeOK, Taken
<1>7. item.type \in Reflected
  BY <1>1, ItemOfProgram DEF NamesInv
<1> HIDE DEF name, owner
<1>8. \/ \E p, q \in Fixed : p[1] # q[1] /\ p[2] = q[2]
      \/ \E t \in Anonymous \cap DOMAIN Overrides \cap Reflected, u \in DOMAIN names : names[u] = Overrides[t]
  <2>1. CASE <<owner, name>> \in Fixed
    <3>1. <<item.type, name>>[1] # <<owner, name>>[1] /\ <<item.type, name>>[2] = <<owner, name>>[2]
      BY <1>2
    <3>2. QED
      BY <1>4, <1>6, <2>1, <3>1
  <2>2. CASE owner \in DOMAIN names /\ names[owner] = name
    <3>1. owner \in Anonymous /\ name \notin reserved /\ \E k \in Nat : name = AnonymousName(k)
      BY <2>2 DEF NamesInv, GivenInv
    <3>2. item.type \in Anonymous /\ item.request = NoType
      BY <1>3, <1>4, <1>6, <3>1 DEF AnonymousName, BodyName
    <3>3. item.type \in DOMAIN Overrides /\ name = Overrides[item.type]
      BY <1>4, <1>6, <3>2 DEF Named, FixedName
    <3>4. QED
      BY <1>7, <2>2, <3>2, <3>3
  <2>3. QED
    BY <1>5, <2>1, <2>2
<1>9. UNCHANGED <<program, todo, generated, names, owners, anon, reserved>> /\ outcome' = "duplicate"
  BY DEF Duplicate
<1>10. QED
  BY <1>8, <1>9 DEF NamesInv, TypeOK, OwnersInv, GivenInv, SourceInv, DuplicateIsReal, Registered,
                    Fixed, Reflected

(***************************************************************************)
(* The theorems.                                                           *)
(***************************************************************************)

LEMMA FinishInv ==
    /\ RegistryInv /\ Finish => RegistryInv'
    /\ NamesInv /\ Finish => NamesInv'
<1>1. Finish => UNCHANGED <<program, todo, generated, names, owners, anon, reserved>>
                /\ outcome' = "done" /\ todo = <<>>
  BY DEF Finish
<1>2. QED
  BY <1>1 DEF RegistryInv, NamesInv, TypeOK, OwnersInv, GivenInv, SourceInv, DuplicateIsReal, Registered,
              Fixed, Reflected

LEMMA StutterInv ==
    /\ RegistryInv /\ UNCHANGED vars => RegistryInv'
    /\ NamesInv /\ UNCHANGED vars => NamesInv'
BY DEF vars, RegistryInv, NamesInv, TypeOK, OwnersInv, GivenInv, SourceInv, DuplicateIsReal, Registered,
       Fixed, Reflected

LEMMA NextRegistry == RegistryInv /\ [Next]_vars => RegistryInv'
<1> SUFFICES ASSUME RegistryInv, [Next]_vars PROVE RegistryInv'
  OBVIOUS
<1>1. ASSUME outcome = "running", NEW item, Claim(item) PROVE RegistryInv'
  BY <1>1, ClaimType, ClaimOwners DEF RegistryInv
<1>2. ASSUME outcome = "running", NEW item, StartOver(item) PROVE RegistryInv'
  BY <1>2, StartOverInv DEF RegistryInv, NamesInv
<1>3. ASSUME NEW item, Duplicate(item) PROVE RegistryInv'
  <2>1. UNCHANGED <<program, todo, anon, owners, reserved>> /\ outcome' = "duplicate"
    BY <1>3 DEF Duplicate
  <2>2. QED
    BY <2>1 DEF RegistryInv, TypeOK, OwnersInv, Registered
<1>4. CASE Finish
  BY <1>4, FinishInv
<1>5. CASE UNCHANGED vars
  BY <1>5, StutterInv
<1>6. QED
  BY <1>1, <1>2, <1>3, <1>4, <1>5 DEF Next

LEMMA NextNames == NamedRequests /\ NamesInv /\ [Next]_vars => NamesInv'
<1> SUFFICES ASSUME NamedRequests, NamesInv, [Next]_vars PROVE NamesInv'
  OBVIOUS
<1>1. ASSUME outcome = "running", NEW item, Claim(item) PROVE NamesInv'
  BY <1>1, ClaimNames
<1>2. ASSUME outcome = "running", NEW item, StartOver(item) PROVE NamesInv'
  BY <1>2, StartOverInv DEF RegistryInv, NamesInv
<1>3. ASSUME NEW item, Duplicate(item) PROVE NamesInv'
  BY <1>3, DuplicateNames
<1>4. CASE Finish
  BY <1>4, FinishInv
<1>5. CASE UNCHANGED vars
  BY <1>5, StutterInv
<1>6. QED
  BY <1>1, <1>2, <1>3, <1>4, <1>5 DEF Next

\* In a finished build every reflected type has one component of its own,
\* however often the build started over (refFor, claimName, reflectRoutes).
THEOREM OneComponentEach == Spec => []EveryTypeHasComponent
<1>1. Init => RegistryInv
  BY InitInv DEF NamesInv, RegistryInv
<1>2. RegistryInv => EveryTypeHasComponent
  <2> SUFFICES ASSUME RegistryInv, outcome = "done", NEW t \in Reflected
               PROVE  Cardinality({n \in DOMAIN owners : owners[n] = t}) = 1
    BY DEF EveryTypeHasComponent
  <2>1. PICK item \in Range(program) : item.type = t
    BY DEF Reflected
  <2>2. Range(todo) = {}
    BY RangeOf DEF RegistryInv, TypeOK
  <2>3. PICK n \in DOMAIN owners : owners[n] = t
    BY <2>1, <2>2, RangeOf DEF RegistryInv, OwnersInv, Registered
  <2>4. {m \in DOMAIN owners : owners[m] = t} = {n}
    BY <2>3 DEF RegistryInv, OwnersInv
  <2>5. QED
    BY <2>4, FS_Singleton
<1>3. QED
  BY <1>1, <1>2, NextRegistry, PTL DEF Spec

\* Where no body is that of an anonymous request, the number of an anonymous
\* struct is the name of no other type (nextAnonymousName, claimName).
THEOREM NumbersAvoidNames == NamedRequests => (Spec => []AnonymousAvoidsNamed)
<1>1. NamesInv => AnonymousAvoidsNamed
  <2> SUFFICES ASSUME NamesInv, outcome = "done", NEW t \in DOMAIN names, NEW u \in Named \cap Reflected,
                      names[t] = FixedName(u)
               PROVE  FALSE
    BY DEF AnonymousAvoidsNamed
  <2>1. PICK item \in Range(program) : item.type = u
    BY DEF Reflected
  <2>2. Range(todo) = {}
    BY RangeOf DEF NamesInv, TypeOK
  <2>3. PICK n \in DOMAIN owners : owners[n] = u
    BY <2>1, <2>2, RangeOf DEF NamesInv, OwnersInv, Registered
  <2>4. u \notin DOMAIN names
    BY DEF NamesInv, GivenInv, Named
  <2>5. <<u, n>> \in Fixed
    BY <2>3, <2>4 DEF NamesInv, SourceInv
  <2>6. n = FixedName(u)
    <3>1. ASSUME NEW other \in Range(program), other.request \in Named, other.type = u PROVE FALSE
      <4>1. PICK i \in DOMAIN program : other = program[i]
        BY <3>1, RangeOf
      <4>2. other.request # NoType
        BY <3>1, NamingAssumption DEF Named
      <4>3. other.type \in Anonymous \ DOMAIN Overrides
        BY <4>1, <4>2, NamingAssumption DEF NamesInv, TypeOK
      <4>4. QED
        BY <3>1, <4>3 DEF Named
    <3>2. QED
      BY <2>5, <3>1 DEF Fixed
  <2>7. owners[names[t]] = t
    BY DEF NamesInv, GivenInv
  <2>8. QED
    BY <2>3, <2>4, <2>6, <2>7
<1>2. ASSUME NamedRequests PROVE NamesInv /\ [Next]_vars => NamesInv'
  BY <1>2, NextNames
<1>3. ASSUME NamedRequests PROVE Spec => []AnonymousAvoidsNamed
  BY <1>1, <1>2, <1>3, InitInv, PTL DEF Spec
<1>4. QED
  BY <1>3

\* Where no body is that of an anonymous request, a build fails only when two
\* types fix one name, or SchemaName gave a number to one anonymous struct that
\* another one took (claimName, reflectRoutes).
THEOREM FailuresAreReal == NamedRequests => (Spec => []DuplicateIsReal)
<1>1. NamesInv => DuplicateIsReal
  BY DEF NamesInv
<1>2. ASSUME NamedRequests PROVE NamesInv /\ [Next]_vars => NamesInv'
  BY <1>2, NextNames
<1>3. ASSUME NamedRequests PROVE Spec => []DuplicateIsReal
  BY <1>1, <1>2, <1>3, InitInv, PTL DEF Spec
<1>4. QED
  BY <1>3
=============================================================================
