--------------------------- MODULE BindingProofs ---------------------------
(***************************************************************************)
(* Theorems about routes on live routers for every program, every number   *)
(* of routers and clients, and every interleaving of registrations and     *)
(* requests: registration keeps the promise of Exposure, Record names the  *)
(* document entry, a documented route answers, Adopt is exact.             *)
(***************************************************************************)
EXTENDS Binding, WellFoundedInduction, FiniteSetTheorems, TLAPS

(***************************************************************************)
(* Sequences.                                                              *)
(***************************************************************************)

LEMMA LeastNumber ==
    ASSUME NEW S \in SUBSET Nat, S # {}
    PROVE  \E x \in S : \A y \in S : x <= y
<1>1. IsWellFoundedOn(OpToRel(<, Nat), Nat)
  BY NatLessThanWellFounded
<1>2. PICK x \in S : \A y \in S : ~(<<y, x>> \in OpToRel(<, Nat))
  BY <1>1, WFMin
<1>3. ASSUME NEW y \in S PROVE x <= y
  <2>1. ~(y < x)
    BY <1>2 DEF OpToRel
  <2>2. QED
    BY <2>1
<1>4. QED
  BY <1>3

\* The step of the recursion in Filter.
FilterStep(seq, S, f, n) ==
    IF n = 0 THEN <<>> ELSE IF seq[n] \in S THEN Append(f[n - 1], seq[n]) ELSE f[n - 1]

LEMMA FilterExists ==
    ASSUME NEW T, NEW seq \in Seq(T), NEW S, NEW k \in Nat
    PROVE  \E f : f = [n \in 0..k |-> FilterStep(seq, S, f, n)]
<1> DEFINE bad == {j \in Nat : ~\E f : f = [n \in 0..j |-> FilterStep(seq, S, f, n)]}
<1> SUFFICES ASSUME bad # {} PROVE FALSE
  OBVIOUS
<1>1. PICK b \in bad : \A j \in bad : b <= j
  BY LeastNumber
<1>2. b # 0
  <2> DEFINE f == [n \in 0..0 |-> <<>>]
  <2>1. f = [n \in 0..0 |-> FilterStep(seq, S, f, n)]
    BY DEF FilterStep
  <2>2. QED
    BY <2>1
<1>3. b - 1 \in Nat /\ b - 1 \notin bad
  BY <1>1, <1>2
<1>4. PICK f : f = [n \in 0..(b - 1) |-> FilterStep(seq, S, f, n)]
  BY <1>3
<1> DEFINE g == [n \in 0..b |-> IF n < b THEN f[n] ELSE FilterStep(seq, S, f, b)]
<1>5. ASSUME NEW n \in 0..b PROVE g[n] = FilterStep(seq, S, g, n)
  <2>1. CASE n = 0
    BY <1>2, <1>3, <1>4, <2>1 DEF FilterStep
  <2>2. CASE n > 0 /\ n < b
    <3>1. g[n - 1] = f[n - 1] /\ g[n] = f[n]
      BY <2>2
    <3>2. f[n] = FilterStep(seq, S, f, n)
      BY <1>3, <1>4, <2>2
    <3>3. QED
      BY <2>2, <3>1, <3>2 DEF FilterStep
  <2>3. CASE n = b
    <3>1. g[n - 1] = f[n - 1] /\ g[n] = FilterStep(seq, S, f, b)
      BY <1>2, <1>3, <2>3
    <3>2. QED
      BY <1>2, <2>3, <3>1 DEF FilterStep
  <2>4. QED
    BY <2>1, <2>2, <2>3
<1>6. g = [n \in 0..b |-> FilterStep(seq, S, g, n)]
  BY <1>5
<1>7. QED
  BY <1>6

\* Filter keeps the elements that are in S and no others.
LEMMA FilterElements ==
    ASSUME NEW T, NEW seq \in Seq(T), NEW S
    PROVE  /\ Filter(seq, S) \in Seq(T)
           /\ Elements(Filter(seq, S)) = Elements(seq) \cap S
<1> DEFINE upTo == CHOOSE f : f = [n \in 0..Len(seq) |-> FilterStep(seq, S, f, n)]
<1>1. Filter(seq, S) = upTo[Len(seq)]
  BY DEF Filter, FilterStep
<1>2. upTo = [n \in 0..Len(seq) |-> FilterStep(seq, S, upTo, n)]
  BY FilterExists
<1> HIDE DEF upTo
<1>3. \A n \in 0..Len(seq) : upTo[n] = FilterStep(seq, S, upTo, n)
  BY <1>2
<1> DEFINE Good(n) == upTo[n] \in Seq(T) /\ Elements(upTo[n]) = {seq[i] : i \in 1..n} \cap S
           bad == {n \in 0..Len(seq) : ~Good(n)}
<1>4. bad = {}
  <2> SUFFICES ASSUME bad # {} PROVE FALSE
    OBVIOUS
  <2>1. PICK b \in bad : \A j \in bad : b <= j
    <3>1. bad \in SUBSET Nat
      OBVIOUS
    <3> HIDE DEF bad
    <3>2. QED
      BY <3>1, LeastNumber
  <2>2. b # 0
    <3>1. upTo[0] = <<>>
      <4>1. 0 \in 0..Len(seq)
        OBVIOUS
      <4>2. QED
        BY <1>3, <4>1 DEF FilterStep
    <3>2. Good(0)
      BY <3>1 DEF Elements
    <3>3. QED
      BY <3>2
  <2>3. b - 1 \in 0..Len(seq) /\ b \in 1..Len(seq) /\ Good(b - 1)
    <3>1. b - 1 \in 0..Len(seq) /\ b \in 1..Len(seq) /\ ~(b <= b - 1)
      BY <2>2
    <3>2. b - 1 \notin bad
      BY <2>1, <3>1
    <3>3. QED
      BY <3>1, <3>2
  <2> DEFINE s == upTo[b - 1]
  <2>4. s \in Seq(T) /\ Elements(s) = {seq[i] : i \in 1..(b - 1)} \cap S
    BY <2>3
  <2>5. {seq[i] : i \in 1..b} = {seq[i] : i \in 1..(b - 1)} \cup {seq[b]}
    BY <2>3
  <2>6. seq[b] \in T
    BY <2>3
  <2>7. upTo[b] = IF seq[b] \in S THEN Append(s, seq[b]) ELSE s
    BY <1>3, <2>2, <2>3 DEF FilterStep
  <2> HIDE DEF s
  <2>8. Elements(Append(s, seq[b])) = Elements(s) \cup {seq[b]}
    <3>1. DOMAIN Append(s, seq[b]) = 1..(Len(s) + 1) /\ DOMAIN s = 1..Len(s) /\ Len(s) \in Nat
      BY <2>4, <2>6
    <3>2. \A i \in 1..(Len(s) + 1) : Append(s, seq[b])[i] = IF i <= Len(s) THEN s[i] ELSE seq[b]
      BY <2>4, <2>6
    <3>3. \A i \in 1..Len(s) : Append(s, seq[b])[i] = s[i]
      BY <3>1, <3>2
    <3>4. Append(s, seq[b])[Len(s) + 1] = seq[b] /\ Len(s) + 1 \in 1..(Len(s) + 1)
      BY <3>1, <3>2
    <3>5. 1..(Len(s) + 1) = 1..Len(s) \cup {Len(s) + 1}
      BY <3>1
    <3>6. QED
      BY <3>1, <3>3, <3>4, <3>5 DEF Elements
  <2>9. Good(b)
    BY <2>4, <2>5, <2>6, <2>7, <2>8
  <2>10. QED
    BY <2>9
<1>5. Good(Len(seq))
  BY <1>4
<1>6. {seq[i] : i \in 1..Len(seq)} = Elements(seq)
  BY DEF Elements
<1>7. QED
  BY <1>1, <1>5, <1>6

(***************************************************************************)
(* The routers hand a request to routes of their tables.                   *)
(***************************************************************************)

\* A finite nonempty sequence has an element that no other one is less than.
LEMMA Unbeaten ==
    ASSUME NEW n \in Nat \ {0}, NEW Less,
           \A i \in 1..n : <<i, i>> \notin Less,
           \A i, j, k \in 1..n : <<i, j>> \in Less /\ <<j, k>> \in Less => <<i, k>> \in Less
    PROVE  \E i \in 1..n : \A j \in 1..n : <<j, i>> \notin Less
<1> DEFINE below(i) == {j \in 1..n : <<j, i>> \in Less}
           sizes == {Cardinality(below(i)) : i \in 1..n}
<1>1. \A i \in 1..n : IsFiniteSet(below(i)) /\ Cardinality(below(i)) \in Nat
  <2>1. IsFiniteSet(1..n)
    BY FS_Interval
  <2>2. QED
    BY <2>1, FS_Subset, FS_CardinalityType
<1>2. PICK i \in 1..n : \A j \in 1..n : Cardinality(below(i)) <= Cardinality(below(j))
  <2>1. \A i \in 1..n : Cardinality(below(i)) \in Nat
    BY <1>1
  <2> HIDE DEF below
  <2>2. sizes \in SUBSET Nat /\ sizes # {}
    <3>1. 1 \in 1..n
      OBVIOUS
    <3>2. Cardinality(below(1)) \in sizes
      BY <3>1
    <3>3. sizes \subseteq Nat
      BY <2>1
    <3>4. QED
      BY <3>2, <3>3
  <2>3. PICK x \in sizes : \A y \in sizes : x <= y
    <3> HIDE DEF sizes
    <3>1. QED
      BY <2>2, LeastNumber
  <2>4. PICK i \in 1..n : x = Cardinality(below(i))
    BY <2>3
  <2>5. QED
    BY <2>3, <2>4
<1>3. ASSUME NEW j \in 1..n, <<j, i>> \in Less PROVE FALSE
  <2>1. below(j) \subseteq below(i) /\ j \in below(i) /\ j \notin below(j)
    BY <1>3
  <2>2. Cardinality(below(j)) <= Cardinality(below(i))
        /\ (Cardinality(below(i)) = Cardinality(below(j)) => below(i) = below(j))
    BY <1>1, <2>1, FS_Subset
  <2>3. Cardinality(below(i)) # Cardinality(below(j))
    BY <2>1, <2>2
  <2>4. Cardinality(below(i)) <= Cardinality(below(j))
    BY <1>2
  <2>5. Cardinality(below(i)) \in Nat /\ Cardinality(below(j)) \in Nat
    BY <1>1
  <2> HIDE DEF below
  <2>6. QED
    BY <2>2, <2>3, <2>4, <2>5
<1>4. QED
  BY <1>3

LEMMA NarrowestIsOneOf ==
    ASSUME NEW T, NEW rs \in Seq(T)
    PROVE  Narrowest(rs) \in Seq(T) /\ Elements(Narrowest(rs)) \subseteq Elements(rs)
<1> DEFINE Beats(i, j) == /\ Takes[rs[i].path] \subseteq Takes[rs[j].path]
                          /\ (Takes[rs[j].path] \subseteq Takes[rs[i].path] => i > j)
           less == {p \in (1..Len(rs)) \X (1..Len(rs)) : Beats(p[1], p[2])}
           best == CHOOSE i \in DOMAIN rs : \A j \in DOMAIN rs : ~Beats(j, i)
<1>1. CASE rs = <<>>
  BY <1>1 DEF Narrowest
<1>2. CASE rs # <<>>
  <2>1. DOMAIN rs = 1..Len(rs) /\ Len(rs) \in Nat \ {0}
    BY <1>2
  <2>2. \A i, j \in 1..Len(rs) : <<i, j>> \in less <=> Beats(i, j)
    OBVIOUS
  <2>3. \A i \in 1..Len(rs) : <<i, i>> \notin less
    BY <2>1
  <2>4. \A i, j, k \in 1..Len(rs) : Beats(i, j) /\ Beats(j, k) => Beats(i, k)
    BY <2>1
  <2> HIDE DEF Beats
  <2>5. \A i, j, k \in 1..Len(rs) : <<i, j>> \in less /\ <<j, k>> \in less => <<i, k>> \in less
    BY <2>2, <2>4
  <2>6. \E i \in 1..Len(rs) : \A j \in 1..Len(rs) : <<j, i>> \notin less
    <3> HIDE DEF less
    <3>1. QED
      BY <2>1, <2>3, <2>5, Unbeaten
  <2>7. \E i \in DOMAIN rs : \A j \in DOMAIN rs : ~Beats(j, i)
    BY <2>1, <2>2, <2>6
  <2>8. best \in DOMAIN rs
    BY <2>7
  <2>9. Narrowest(rs) = <<rs[best]>>
    BY <1>2 DEF Narrowest, Beats
  <2> HIDE DEF best
  <2>10. Elements(<<rs[best]>>) = {rs[best]}
    BY DEF Elements
  <2>11. rs[best] \in T
    BY <2>1, <2>8
  <2>12. QED
    BY <2>8, <2>9, <2>10, <2>11 DEF Elements
<1>3. QED
  BY <1>1, <1>2

LEMMA ElementsOfBoth ==
    ASSUME NEW T, NEW s \in Seq(T), NEW t \in Seq(T)
    PROVE  s \o t \in Seq(T) /\ Elements(s \o t) \subseteq Elements(s) \cup Elements(t)
<1>1. s \o t \in Seq(T) /\ DOMAIN (s \o t) = 1..(Len(s) + Len(t))
  OBVIOUS
<1>2. ASSUME NEW i \in 1..(Len(s) + Len(t)) PROVE (s \o t)[i] \in Elements(s) \cup Elements(t)
  <2>1. CASE i <= Len(s)
    BY <2>1 DEF Elements
  <2>2. CASE i > Len(s)
    <3>1. i - Len(s) \in DOMAIN t /\ (s \o t)[i] = t[i - Len(s)]
      BY <2>2
    <3>2. QED
      BY <3>1 DEF Elements
  <2>3. QED
    BY <2>1, <2>2
<1>3. QED
  BY <1>1, <1>2 DEF Elements

LEMMA ElementsOfTail ==
    ASSUME NEW T, NEW s \in Seq(T), s # <<>>
    PROVE  Tail(s) \in Seq(T) /\ Elements(Tail(s)) \subseteq Elements(s) /\ Head(s) \in Elements(s)
BY DEF Elements

TablesAreSequences == table \in [Engines -> Seq(sites)]

LEMMA CandidatesFromTable ==
    ASSUME TablesAreSequences, NEW e \in Engines, NEW method, NEW target
    PROVE  /\ Candidates(e, method, target) \in Seq(sites)
           /\ Elements(Candidates(e, method, target)) \subseteq Elements(table[e])
<1>1. table[e] \in Seq(sites)
  BY DEF TablesAreSequences
<1>2. ASSUME NEW m
      PROVE  Matching(e, m, target) \in Seq(sites) /\ Elements(Matching(e, m, target)) \subseteq Elements(table[e])
  BY <1>1, FilterElements DEF Matching
<1> DEFINE rs == Matching(e, method, target)
           kinds == {r.kind : r \in Elements(table[e])}
           head == IF method = "HEAD" THEN Matching(e, "GET", target) ELSE <<>>
<1>3. rs \in Seq(sites) /\ Elements(rs) \subseteq Elements(table[e])
  BY <1>2
<1>4. head \in Seq(sites) /\ Elements(head) \subseteq Elements(table[e])
  BY <1>2 DEF Elements
<1>5. Candidates(e, method, target) =
        CASE kinds = {"fiber"} -> rs \o head
          [] kinds = {"gorilla"} -> SubSeq(rs, 1, IF rs = <<>> THEN 0 ELSE 1)
          [] OTHER -> Narrowest(rs)
  BY DEF Candidates
<1> HIDE DEF rs, kinds, head
<1>6. CASE kinds = {"fiber"}
  <2>1. Candidates(e, method, target) = rs \o head
    BY <1>5, <1>6
  <2>2. QED
    BY <1>3, <1>4, <2>1, ElementsOfBoth
<1>7. CASE kinds = {"gorilla"}
  <2>1. Candidates(e, method, target) = SubSeq(rs, 1, IF rs = <<>> THEN 0 ELSE 1)
    BY <1>5, <1>7
  <2>2. CASE rs = <<>>
    <3>1. SubSeq(rs, 1, 0) = <<>>
      BY <1>3, <2>2
    <3>2. QED
      BY <2>1, <2>2, <3>1 DEF Elements
  <2>3. CASE rs # <<>>
    <3>1. SubSeq(rs, 1, 1) \in Seq(sites) /\ DOMAIN SubSeq(rs, 1, 1) = {1} /\ SubSeq(rs, 1, 1)[1] = rs[1] /\ 1 \in DOMAIN rs
      BY <1>3, <2>3
    <3>2. QED
      BY <1>3, <2>1, <2>3, <3>1 DEF Elements
  <2>4. QED
    BY <2>2, <2>3
<1>8. CASE kinds # {"fiber"} /\ kinds # {"gorilla"}
  <2>1. Candidates(e, method, target) = Narrowest(rs)
    BY <1>5, <1>8
  <2>2. QED
    BY <1>3, <2>1, NarrowestIsOneOf
<1>9. QED
  BY <1>6, <1>7, <1>8

(***************************************************************************)
(* The invariant.                                                          *)
(***************************************************************************)

Recorded == {"remember", "clash", "store", "open", "done"}
Phases == Recorded \cup {"idle", "failed", "mounted"}

Request == [engine : Engines \cup {NoSite}, method : Methods \cup {NoSite},
            target : Targets \cup {NoSite}, todo : Seq(sites)]

TypeOK ==
    /\ sites \in Setups
    /\ phase \in [sites -> Phases]
    /\ TablesAreSequences
    /\ at \in [Clients -> Request]

\* The document has the routes whose registration came as far as the record,
\* and only those open their gates.
RecordsInv ==
    /\ \A s \in sites : phase[s] \notin {"idle", "done"} => s.own
    /\ \A s \in sites : phase[s] \in Recorded \ {"done"} => s.kind \in Gated
    /\ records = {s \in sites : s.own /\ phase[s] \in Recorded}
    /\ bound \subseteq records
    /\ \A s \in bound : phase[s] = "done" /\ s.kind \in Gated

\* A route that a router has.  On net/http and gorilla it is between the
\* router and the document, or in the document, or a template that failed.
Placed(r) ==
    r.own => /\ phase[r] # "idle" /\ r.kind # "document"
             /\ LiveAtOnce(r) => phase[r] \in {"mounted", "done"} \/ (phase[r] = "failed" /\ Doc(r) = Bad)
             /\ r.kind = "std" => Doc(r) # Bad

PlacedInv ==
    /\ \A e \in Engines : \A r \in Elements(table[e]) : Placed(r)
    /\ \A c \in Clients : \A r \in Elements(at[c].todo) : Placed(r)

BindInv == TypeOK /\ RecordsInv /\ PlacedInv

\* The mapping to Exposure.
Assured == {s \in sites : LiveAtOnce(s) /\ phase[s] = "mounted" /\ BinderAccepts(s)}
Failed == {s \in sites : s.own /\ phase[s] = "failed"}
Served == {s \in ran : s.kind = "gorilla" => BinderAccepts(s)}

LEMMA SitesHaveKinds == TypeOK => \A s \in sites : s \in Sites /\ s.kind \in Kinds
                                     /\ (s.kind = "document" => s.own) /\ (s.kind = "std" => s.rel = s.path)
<1> SUFFICES ASSUME TypeOK, NEW s \in sites
             PROVE  s \in Sites /\ s.kind \in Kinds
                    /\ (s.kind = "document" => s.own) /\ (s.kind = "std" => s.rel = s.path)
  OBVIOUS
<1>1. s \in Sites
  BY DEF TypeOK, Sites
<1>2. s \in SiteType
  BY BindingAssumption DEF TypeOK
<1>3. QED
  BY <1>1, <1>2, BindingAssumption DEF SiteType

\* The check of a template of net/http or gorilla asks nothing of the document.
LEMMA LiveCheck == \A s : LiveAtOnce(s) => (BinderAccepts(s) <=> Doc(s) # Bad)
BY DEF LiveAtOnce, BinderAccepts, Gated

LEMMA InitInv == Init => BindInv
<1> SUFFICES ASSUME Init PROVE BindInv
  OBVIOUS
<1>1. NoRequest \in Request
  BY DEF NoRequest, Request
<1>2. TypeOK
  BY <1>1 DEF Init, TypeOK, Phases, TablesAreSequences
<1>3. RecordsInv
  BY DEF Init, RecordsInv, Recorded
<1>4. PlacedInv
  BY DEF Init, PlacedInv, Elements, NoRequest
<1>5. QED
  BY <1>2, <1>3, <1>4 DEF BindInv

(***************************************************************************)
(* One registration.  Progress(s, next) is what every step of one does to  *)
(* the phases.                                                             *)
(***************************************************************************)

Progress(s, next) == sites' = sites /\ phase' = [phase EXCEPT ![s] = next]

\* The routes on the routers stay well placed while s moves on.
LEMMA PlacedProgress ==
    ASSUME BindInv, NEW s \in sites, NEW next \in Phases, Progress(s, next),
           next # "idle",
           LiveAtOnce(s) /\ phase[s] # "idle" => next = "done" \/ (next = "failed" /\ Doc(s) = Bad),
           NEW r \in sites, Placed(r)
    PROVE  Placed(r)'
<1>1. phase'[s] = next /\ \A x \in sites \ {s} : phase'[x] = phase[x]
  BY DEF Progress, BindInv, TypeOK
<1>2. CASE r # s
  BY <1>1, <1>2 DEF Placed, LiveAtOnce, Doc
<1>3. CASE r = s
  BY <1>1, <1>3 DEF Placed, LiveAtOnce, Doc
<1>4. QED
  BY <1>2, <1>3

LEMMA RequestsInSites ==
    ASSUME BindInv
    PROVE  /\ \A e \in Engines : Elements(table[e]) \subseteq sites
           /\ \A c \in Clients : at[c].todo \in Seq(sites) /\ Elements(at[c].todo) \subseteq sites
<1>1. \A e \in Engines : table[e] \in Seq(sites)
  BY DEF BindInv, TypeOK, TablesAreSequences
<1>2. \A c \in Clients : at[c].todo \in Seq(sites)
  BY DEF BindInv, TypeOK, Request
<1>3. QED
  BY <1>1, <1>2 DEF Elements

\* A step that moves s on and leaves the routers and the requests alone.
LEMMA QuietProgress ==
    ASSUME BindInv, NEW s \in sites, NEW next \in Phases, Progress(s, next),
           next # "idle",
           LiveAtOnce(s) /\ phase[s] # "idle" => next = "done" \/ (next = "failed" /\ Doc(s) = Bad),
           table' = table, at' = at
    PROVE  TypeOK' /\ PlacedInv'
<1>1. TypeOK'
  BY DEF Progress, BindInv, TypeOK, TablesAreSequences, Request
<1>2. PlacedInv'
  <2>1. \A e \in Engines : \A r \in Elements(table[e]) : Placed(r)'
    <3>1. ASSUME NEW e \in Engines, NEW r \in Elements(table[e]) PROVE Placed(r)'
      <4>1. r \in sites /\ Placed(r)
        BY RequestsInSites DEF BindInv, PlacedInv
      <4>2. QED
        BY <4>1, PlacedProgress
    <3>2. QED
      BY <3>1
  <2>2. \A c \in Clients : \A r \in Elements(at[c].todo) : Placed(r)'
    <3>1. ASSUME NEW c \in Clients, NEW r \in Elements(at[c].todo) PROVE Placed(r)'
      <4>1. r \in sites /\ Placed(r)
        BY RequestsInSites DEF BindInv, PlacedInv
      <4>2. QED
        BY <4>1, PlacedProgress
    <3>2. QED
      BY <3>1
  <2>3. QED
    BY <2>1, <2>2 DEF PlacedInv, Elements
<1>3. QED
  BY <1>1, <1>2

LEMMA AddedToTable ==
    ASSUME BindInv, NEW s \in sites, AddTo(s), sites' = sites
    PROVE  /\ TablesAreSequences'
           /\ \A e \in Engines : Elements(table'[e]) \subseteq Elements(table[e]) \cup {s}
<1> DEFINE kept == Filter(table[s.engine], {r \in sites : ~Replaces(s, r)})
<1>1. s.engine \in Engines
  BY BindingAssumption DEF BindInv, TypeOK, SiteType
<1>2. table \in [Engines -> Seq(sites)]
  BY DEF BindInv, TypeOK, TablesAreSequences
<1>3. kept \in Seq(sites) /\ Elements(kept) \subseteq Elements(table[s.engine])
  BY <1>1, <1>2, FilterElements
<1>4. table' = [table EXCEPT ![s.engine] = Append(kept, s)]
  BY DEF AddTo
<1> HIDE DEF kept
<1>5. Append(kept, s) \in Seq(sites) /\ Elements(Append(kept, s)) \subseteq Elements(kept) \cup {s}
  <2>1. Append(kept, s) \in Seq(sites) /\ DOMAIN Append(kept, s) = 1..(Len(kept) + 1)
    BY <1>3
  <2>2. \A i \in 1..(Len(kept) + 1) : Append(kept, s)[i] = IF i <= Len(kept) THEN kept[i] ELSE s
    BY <1>3
  <2>3. \A i \in 1..(Len(kept) + 1) : i <= Len(kept) => i \in DOMAIN kept
    BY <1>3
  <2>4. QED
    BY <2>1, <2>2, <2>3 DEF Elements
<1>6. TablesAreSequences'
  BY <1>1, <1>2, <1>4, <1>5 DEF TablesAreSequences
<1>7. ASSUME NEW e \in Engines PROVE Elements(table'[e]) \subseteq Elements(table[e]) \cup {s}
  <2>1. CASE e = s.engine
    <3>1. table'[e] = Append(kept, s)
      BY <1>2, <1>4, <2>1
    <3>2. QED
      BY <1>3, <1>5, <2>1, <3>1
  <2>2. CASE e # s.engine
    <3>1. table'[e] = table[e]
      BY <1>2, <1>4, <2>2
    <3>2. QED
      BY <3>1
  <2>3. QED
    BY <2>1, <2>2
<1>8. QED
  BY <1>6, <1>7

\* A step that moves s on and puts it on its router.
LEMMA AddedProgress ==
    ASSUME BindInv, NEW s \in sites, NEW next \in Phases, Progress(s, next),
           next # "idle", phase[s] = "idle", AddTo(s), at' = at, Placed(s)'
    PROVE  TypeOK' /\ PlacedInv'
<1>1. sites' = sites
  BY DEF Progress
<1>2. TypeOK'
  BY <1>1, AddedToTable DEF Progress, BindInv, TypeOK, Request
<1>3. PlacedInv'
  <2>1. ASSUME NEW e \in Engines, NEW r \in Elements(table'[e]) PROVE Placed(r)'
    <3>1. CASE r = s
      BY <3>1
    <3>2. CASE r # s
      <4>1. r \in Elements(table[e])
        BY <1>1, <2>1, <3>2, AddedToTable
      <4>2. r \in sites /\ Placed(r)
        BY <4>1, RequestsInSites DEF BindInv, PlacedInv
      <4>3. QED
        BY <4>2, PlacedProgress
    <3>3. QED
      BY <3>1, <3>2
  <2>2. ASSUME NEW c \in Clients, NEW r \in Elements(at[c].todo) PROVE Placed(r)'
    <3>1. r \in sites /\ Placed(r)
      BY <2>2, RequestsInSites DEF BindInv, PlacedInv
    <3>2. QED
      BY <3>1, PlacedProgress
  <2>3. QED
    BY <2>1, <2>2 DEF PlacedInv, Elements
<1>4. QED
  BY <1>2, <1>3

(***************************************************************************)
(* The steps of registrations keep the invariant.                          *)
(***************************************************************************)

LEMMA RegisterInv == ASSUME BindInv, NEW s \in sites, Register(s) PROVE BindInv'
<1> USE DEF MoveTo, Progress
<1>0. /\ s.kind \in Kinds /\ (s.kind = "document" => s.own) /\ (s.kind = "std" => s.rel = s.path)
      /\ phase \in [sites -> Phases] /\ phase[s] \in Phases
  BY SitesHaveKinds DEF BindInv, TypeOK
<1>1. CASE RejectEarly(s)
  <2>1. Progress(s, "failed") /\ UNCHANGED <<table, at, records, bound>> /\ s.own /\ phase[s] = "idle"
    BY <1>1 DEF RejectEarly, router, serving
  <2>2. TypeOK' /\ PlacedInv'
    BY <2>1, QuietProgress DEF Phases
  <2>3. RecordsInv'
    BY <1>0, <2>1 DEF BindInv, RecordsInv, Recorded
  <2>4. QED
    BY <2>2, <2>3 DEF BindInv
<1>2. CASE TooLate(s)
  <2>1. Progress(s, "failed") /\ UNCHANGED <<table, at, records, bound>> /\ s.own /\ phase[s] = "idle"
    BY <1>2 DEF TooLate, router, serving
  <2>2. TypeOK' /\ PlacedInv'
    BY <2>1, QuietProgress DEF Phases
  <2>3. RecordsInv'
    BY <1>0, <2>1 DEF BindInv, RecordsInv, Recorded
  <2>4. QED
    BY <2>2, <2>3 DEF BindInv
<1>3. CASE Mount(s)
  <2>1. /\ UNCHANGED <<sites, at, records, bound>> /\ s.own /\ phase[s] = "idle"
        /\ s.kind # "document" /\ PassesEarlyChecks(s)
    BY <1>3 DEF Mount, serving
  <2>2. CASE RouterAccepts(s)
    <3>1. Progress(s, "mounted") /\ AddTo(s)
      BY <1>3, <2>2 DEF Mount
    <3>2. Placed(s)'
      <4>1. phase'[s] = "mounted"
        BY <1>0, <3>1
      <4>2. s.kind = "std" => Doc(s) # Bad
        BY <1>0, <2>1 DEF PassesEarlyChecks, EarlyPath, Doc
      <4>3. QED
        BY <2>1, <4>1, <4>2 DEF Placed, Doc
    <3>3. TypeOK' /\ PlacedInv'
      BY <2>1, <3>1, <3>2, AddedProgress DEF Phases
    <3>4. RecordsInv'
      BY <1>0, <2>1, <3>1 DEF BindInv, RecordsInv, Recorded
    <3>5. QED
      BY <3>3, <3>4 DEF BindInv
  <2>3. CASE ~RouterAccepts(s)
    <3>1. Progress(s, "failed") /\ table' = table
      BY <1>3, <2>3 DEF Mount
    <3>2. TypeOK' /\ PlacedInv'
      BY <2>1, <3>1, QuietProgress DEF Phases
    <3>3. RecordsInv'
      BY <1>0, <2>1, <3>1 DEF BindInv, RecordsInv, Recorded
    <3>4. QED
      BY <3>2, <3>3 DEF BindInv
  <2>4. QED
    BY <2>2, <2>3
<1>4. CASE Record(s)
  <2>1. UNCHANGED <<sites, table, at, bound>> /\ phase[s] = "mounted" /\ s.own
    BY <1>4 DEF Record, router, serving, BindInv, RecordsInv
  <2>2. CASE BinderAccepts(s)
    <3>1. Progress(s, AfterBind(s)) /\ records' = records \cup {s}
      BY <1>4, <2>2 DEF Record
    <3>2. /\ AfterBind(s) \in Recorded /\ (LiveAtOnce(s) => AfterBind(s) = "done")
          /\ AfterBind(s) # "done" => s.kind \in Gated
      BY <1>0 DEF AfterBind, Recorded, LiveAtOnce, Kinds, Gated
    <3>3. TypeOK' /\ PlacedInv'
      <4>1. AfterBind(s) \in Phases /\ AfterBind(s) # "idle"
        BY <3>2 DEF Phases, Recorded
      <4>2. QED
        BY <2>1, <3>1, <3>2, <4>1, QuietProgress
    <3>4. RecordsInv'
      <4>1. \A r \in sites : phase'[r] = IF r = s THEN AfterBind(s) ELSE phase[r]
        BY <1>0, <3>1
      <4>2. records' = {r \in sites : r.own /\ phase'[r] \in Recorded}
        BY <2>1, <3>1, <3>2, <4>1 DEF BindInv, RecordsInv
      <4>3. QED
        BY <2>1, <3>1, <3>2, <4>1, <4>2 DEF BindInv, RecordsInv, Recorded
    <3>5. QED
      BY <3>3, <3>4 DEF BindInv
  <2>3. CASE ~BinderAccepts(s)
    <3>1. Progress(s, "failed") /\ records' = records
      BY <1>4, <2>3 DEF Record
    <3>2. LiveAtOnce(s) => Doc(s) = Bad
      BY <2>3, LiveCheck
    <3>3. TypeOK' /\ PlacedInv'
      BY <2>1, <3>1, <3>2, QuietProgress DEF Phases
    <3>4. RecordsInv'
      BY <1>0, <2>1, <3>1 DEF BindInv, RecordsInv, Recorded
    <3>5. QED
      BY <3>3, <3>4 DEF BindInv
  <2>4. QED
    BY <2>2, <2>3
<1>5. CASE Document(s)
  <2>1. /\ Progress(s, "done") /\ UNCHANGED <<table, at, bound>> /\ phase[s] = "idle"
        /\ s.own /\ records' = records \cup {s}
    BY <1>0, <1>5 DEF Document, router, serving
  <2>2. TypeOK' /\ PlacedInv'
    BY <2>1, QuietProgress DEF Phases, Recorded
  <2>3. RecordsInv'
    BY <1>0, <2>1 DEF BindInv, RecordsInv, Recorded
  <2>4. QED
    BY <2>2, <2>3 DEF BindInv
<1>6. CASE Stray(s)
  <2>1. Progress(s, "done") /\ AddTo(s) /\ UNCHANGED <<at, records, bound>> /\ phase[s] = "idle" /\ ~s.own
    BY <1>6 DEF Stray, serving
  <2>2. Placed(s)'
    BY <2>1 DEF Placed
  <2>3. TypeOK' /\ PlacedInv'
    BY <2>1, <2>2, AddedProgress DEF Phases, Recorded
  <2>4. RecordsInv'
    BY <1>0, <2>1 DEF BindInv, RecordsInv, Recorded
  <2>5. QED
    BY <2>3, <2>4 DEF BindInv
<1>7. CASE LoadOrStore(s) \/ StoreShared(s) \/ StoreRegistered(s)
  <2>1. PICK next \in {phase[s], "remember", "clash", "open"} : Progress(s, next)
    BY <1>7 DEF LoadOrStore, StoreShared, StoreRegistered, NextSpelling
  <2>2. UNCHANGED <<table, at, records, bound>> /\ phase[s] \in {"remember", "clash", "store"}
    BY <1>7 DEF LoadOrStore, StoreShared, StoreRegistered, router, serving
  <2>3. next \in Recorded \ {"done"} /\ phase[s] \in Recorded \ {"done"}
    BY <2>1, <2>2 DEF Recorded
  <2>4. s.kind \in Gated /\ ~LiveAtOnce(s)
    BY <2>3 DEF BindInv, RecordsInv, LiveAtOnce, Gated
  <2>5. TypeOK' /\ PlacedInv'
    <3>1. next \in Phases /\ next # "idle"
      BY <2>3 DEF Phases, Recorded
    <3>2. QED
      BY <2>1, <2>2, <2>4, <3>1, QuietProgress
  <2>6. RecordsInv'
    <3>1. \A r \in sites : phase'[r] = IF r = s THEN next ELSE phase[r]
      BY <1>0, <2>1
    <3>2. sites' = sites
      BY <2>1
    <3>3. records' = {r \in sites' : r.own /\ phase'[r] \in Recorded}
      BY <2>2, <2>3, <3>1, <3>2 DEF BindInv, RecordsInv
    <3>4. QED
      BY <2>2, <2>3, <2>4, <3>1, <3>2, <3>3 DEF BindInv, RecordsInv, Recorded
  <2>7. QED
    BY <2>5, <2>6 DEF BindInv
<1>8. CASE Open(s)
  <2>1. /\ Progress(s, "done") /\ UNCHANGED <<table, at, records>> /\ phase[s] = "open"
        /\ bound' = bound \cup {s}
    BY <1>8 DEF Open, router, serving
  <2>2. TypeOK' /\ PlacedInv'
    BY <2>1, QuietProgress DEF Phases, Recorded
  <2>3. s \in records
    BY <2>1 DEF BindInv, RecordsInv, Recorded
  <2>4. RecordsInv'
    BY <1>0, <2>1, <2>3 DEF BindInv, RecordsInv, Recorded
  <2>5. QED
    BY <2>2, <2>4 DEF BindInv
<1>9. QED
  BY <1>1, <1>2, <1>3, <1>4, <1>5, <1>6, <1>7, <1>8 DEF Register

(***************************************************************************)
(* The other steps keep it: they leave the registrations alone, and a      *)
(* client holds routes of a table.                                         *)
(***************************************************************************)

Unregistered == UNCHANGED <<sites, phase, table, records, bound>>

\* A step after which client c holds the routes of todo.
LEMMA HeldInv ==
    ASSUME BindInv, Unregistered, NEW c \in Clients, NEW held \in Request,
           at' = [at EXCEPT ![c] = held], \A r \in Elements(held.todo) : Placed(r)
    PROVE  BindInv'
<1>1. at \in [Clients -> Request] /\ sites' = sites
  BY DEF BindInv, TypeOK, Unregistered
<1>2. TypeOK' /\ RecordsInv'
  <2>1. at' \in [Clients -> Request]
    BY <1>1
  <2>2. Request' = Request
    BY <1>1 DEF Request
  <2>3. TypeOK'
    BY <2>1, <2>2 DEF BindInv, TypeOK, TablesAreSequences, Unregistered
  <2>4. QED
    BY <2>3 DEF BindInv, RecordsInv, Unregistered
<1>3. \A r : Placed(r) => Placed(r)'
  BY DEF Unregistered, Placed, LiveAtOnce, Doc
<1>4. \A e \in Engines : \A r \in Elements(table'[e]) : Placed(r)'
  BY <1>3 DEF Unregistered, BindInv, PlacedInv
<1>5. ASSUME NEW d \in Clients, NEW r \in Elements(at'[d].todo) PROVE Placed(r)'
  <2>1. CASE d = c
    <3>1. at'[d] = held
      BY <1>1, <2>1
    <3>2. QED
      BY <1>3, <1>5, <3>1
  <2>2. CASE d # c
    <3>1. at'[d] = at[d]
      BY <1>1, <2>2
    <3>2. QED
      BY <1>3, <1>5, <3>1 DEF BindInv, PlacedInv
  <2>3. QED
    BY <2>1, <2>2
<1>6. QED
  BY <1>2, <1>4, <1>5 DEF BindInv, PlacedInv, Elements

LEMMA NothingHeld ==
    ASSUME BindInv, Unregistered, NEW c \in Clients, at' = [at EXCEPT ![c] = NoRequest]
    PROVE  BindInv'
<1>1. NoRequest \in Request /\ Elements(NoRequest.todo) = {}
  BY DEF NoRequest, Request, Elements
<1>2. QED
  BY <1>1, HeldInv

LEMMA RequestInv ==
    ASSUME BindInv, NEW c \in Clients, Arrive(c) \/ PassOn(c) \/ Run(c) \/ TurnAway(c)
    PROVE  BindInv' /\ Unregistered
<1>1. Unregistered
  BY DEF Arrive, PassOn, Run, TurnAway, Unregistered, registry, router
<1>2. CASE Arrive(c)
  <2>1. PICK e \in Engines, method \in Methods \ {AnyMethod}, target \in Targets :
          LET todo == Candidates(e, method, target)
          IN  at' = [at EXCEPT ![c] =
                  IF todo = <<>> THEN NoRequest
                  ELSE [engine |-> e, method |-> method, target |-> target, todo |-> todo]]
    BY <1>2 DEF Arrive
  <2> DEFINE todo == Candidates(e, method, target)
  <2>2. todo \in Seq(sites) /\ Elements(todo) \subseteq Elements(table[e])
    BY CandidatesFromTable DEF BindInv, TypeOK
  <2>3. \A r \in Elements(todo) : Placed(r)
    BY <2>2 DEF BindInv, PlacedInv
  <2> DEFINE held == [engine |-> e, method |-> method, target |-> target, todo |-> todo]
  <2>4. at' = [at EXCEPT ![c] = IF todo = <<>> THEN NoRequest ELSE held]
    BY <2>1
  <2>5. held.todo = todo
    OBVIOUS
  <2>6. held \in Request
    BY <2>2 DEF Request
  <2> HIDE DEF held, todo
  <2>7. CASE todo = <<>>
    BY <1>1, <2>4, <2>7, NothingHeld
  <2>8. CASE todo # <<>>
    <3>1. at' = [at EXCEPT ![c] = held]
      BY <2>4, <2>8
    <3>2. QED
      BY <1>1, <2>3, <2>5, <2>6, <3>1, HeldInv
  <2>9. QED
    BY <1>1, <2>7, <2>8
<1>3. CASE PassOn(c)
  <2>1. PICK a \in Request : a = at[c]
    BY DEF BindInv, TypeOK
  <2>2. a.todo \in Seq(sites) /\ a.todo # <<>>
    BY <1>3, <2>1 DEF PassOn, Request
  <2> DEFINE held == [a EXCEPT !.todo = Tail(a.todo)]
  <2>3. at' = [at EXCEPT ![c] = held]
    BY <1>3, <2>1 DEF PassOn
  <2>4. held \in Request /\ held.todo = Tail(a.todo)
    <3>1. Tail(a.todo) \in Seq(sites)
      BY <2>2, ElementsOfTail
    <3>2. QED
      BY <2>1, <3>1 DEF Request
  <2>5. \A r \in Elements(held.todo) : Placed(r)
    <3>1. Elements(Tail(a.todo)) \subseteq Elements(a.todo)
      BY <2>2, ElementsOfTail
    <3>2. \A r \in Elements(a.todo) : Placed(r)
      BY <2>1 DEF BindInv, PlacedInv
    <3>3. QED
      BY <2>4, <3>1, <3>2
  <2> HIDE DEF held
  <2>6. QED
    BY <1>1, <2>3, <2>4, <2>5, HeldInv
<1>4. CASE Run(c) \/ TurnAway(c)
  <2>1. at' = [at EXCEPT ![c] = NoRequest]
    BY <1>4 DEF Run, TurnAway
  <2>2. QED
    BY <1>1, <2>1, NothingHeld
<1>5. QED
  BY <1>1, <1>2, <1>3, <1>4

LEMMA Undisturbed ==
    ASSUME BindInv, Unregistered, at' = at
    PROVE  BindInv'
BY DEF BindInv, Unregistered, TypeOK, TablesAreSequences, Request, RecordsInv, PlacedInv,
       Placed, LiveAtOnce, Doc

OtherSteps ==
    \/ Build
    \/ \E app \in Apps : (\E s \in sites : s.engine \in Elements(EnginesOf[app])) /\ AdoptRead(app)
    \/ AdoptCollect \/ AdoptReturn

LEMMA OtherStepsAside == OtherSteps => Unregistered /\ at' = at /\ ran' = ran
BY DEF OtherSteps, Build, AdoptRead, AdoptCollect, AdoptReturn, Unregistered, registry, router, serving

LEMMA NextInv == BindInv /\ [Next]_vars => BindInv'
<1> SUFFICES ASSUME BindInv, [Next]_vars PROVE BindInv'
  OBVIOUS
<1>1. ASSUME NEW s \in sites, Register(s) PROVE BindInv'
  BY <1>1, RegisterInv
<1>2. ASSUME NEW c \in Clients, Arrive(c) \/ PassOn(c) \/ Run(c) \/ TurnAway(c) PROVE BindInv'
  BY <1>2, RequestInv
<1>3. CASE OtherSteps
  BY <1>3, OtherStepsAside, Undisturbed
<1>4. CASE UNCHANGED vars
  BY <1>4, Undisturbed DEF vars, router, registry, serving, Unregistered
<1>5. QED
  BY <1>1, <1>2, <1>3, <1>4 DEF Next, OtherSteps

(***************************************************************************)
(* Every step is one of Exposure or changes nothing there.                 *)
(***************************************************************************)

Promised == records \cup Assured

LEMMA GorillaCheck == \A s : s.kind = "gorilla" => (BinderAccepts(s) <=> Doc(s) # Bad)
BY DEF BinderAccepts, Gated

LEMMA SameServed == ran' = ran => Served' = Served
BY GorillaCheck DEF Served, BinderAccepts, Doc, Gated

LEMMA AssuredProgress ==
    ASSUME BindInv, NEW s \in sites, NEW next \in Phases, Progress(s, next)
    PROVE  /\ Assured' = (Assured \ {s}) \cup
                         (IF LiveAtOnce(s) /\ next = "mounted" /\ Doc(s) # Bad THEN {s} ELSE {})
           /\ Failed' = (Failed \ {s}) \cup (IF s.own /\ next = "failed" THEN {s} ELSE {})
<1>1. sites' = sites /\ \A r \in sites : phase'[r] = IF r = s THEN next ELSE phase[r]
  BY DEF Progress, BindInv, TypeOK
<1>2. Assured = {r \in sites : LiveAtOnce(r) /\ phase[r] = "mounted" /\ Doc(r) # Bad}
  BY LiveCheck DEF Assured
<1>3. Assured' = {r \in sites : LiveAtOnce(r) /\ phase'[r] = "mounted" /\ Doc(r) # Bad}
  BY <1>1 DEF Assured, LiveAtOnce, BinderAccepts, Doc, Gated
<1>4. QED
  BY <1>1, <1>2, <1>3 DEF Failed

\* A registration on the way to its end is neither assured nor failed.
LEMMA QuietAssured ==
    ASSUME BindInv, NEW s \in sites, NEW next \in Recorded, Progress(s, next), s \notin Failed
    PROVE  Assured' = Assured \ {s} /\ Failed' = Failed
<1>1. next \in Phases /\ next # "mounted" /\ next # "failed"
  BY DEF Phases, Recorded
<1>2. QED
  BY <1>1, AssuredProgress

LEMMA MountAssured ==
    ASSUME BindInv, NEW s \in sites, Progress(s, "mounted"), s \notin Failed, s \notin Assured
    PROVE  /\ Assured' = Assured \cup (IF LiveAtOnce(s) /\ Doc(s) # Bad THEN {s} ELSE {})
           /\ Failed' = Failed
<1>1. "mounted" \in Phases
  BY DEF Phases
<1>2. QED
  BY <1>1, AssuredProgress

Stutter == Promised' = Promised /\ Failed' = Failed /\ Served' = Served

LEMMA StutterStep == Stutter => UNCHANGED Promise!vars
BY DEF Stutter, Promised, Assured, Failed, Served, Promise!vars

LEMMA AcceptStep ==
    ASSUME NEW s \in Sites, s \notin Promised \cup Failed,
           Promised' = Promised \cup {s}, Failed' = Failed, Served' = Served
    PROVE  Promise!Next
<1>1. Promise!Accept(s)
  BY DEF Promise!Accept, Promised, Assured, Failed, Served
<1>2. QED
  BY <1>1 DEF Promise!Next

LEMMA RejectStep ==
    ASSUME NEW s \in Sites, s \notin Promised \cup Failed,
           Failed' = Failed \cup {s}, Promised' = Promised, Served' = Served
    PROVE  Promise!Next
<1>1. Promise!Reject(s)
  BY DEF Promise!Reject, Promised, Assured, Failed, Served
<1>2. QED
  BY <1>1 DEF Promise!Next

LEMMA AnswerStep ==
    ASSUME NEW s \in Sites, s \in Promised,
           Served' = Served \cup {s}, Promised' = Promised, Failed' = Failed
    PROVE  Promise!Next
<1>1. Promise!Answer(s)
  BY DEF Promise!Answer, Promised, Assured, Failed, Served
<1>2. QED
  BY <1>1 DEF Promise!Next

\* A registration that fails before it is assured is rejected.
LEMMA RejectProgress ==
    ASSUME BindInv, NEW s \in sites, Progress(s, "failed"), s.own, phase[s] \in {"idle", "mounted"},
           s \notin Assured, records' = records, ran' = ran
    PROVE  Promise!Next
<1>1. s \notin records /\ s \notin Failed /\ s \in Sites
  BY SitesHaveKinds DEF BindInv, RecordsInv, Recorded, Failed
<1>2. Assured' = Assured /\ Failed' = Failed \cup {s}
  BY <1>1, AssuredProgress DEF Phases
<1>3. QED
  BY <1>1, <1>2, SameServed, RejectStep DEF Promised

LEMMA RegisterStep ==
    ASSUME BindInv, NEW s \in sites, Register(s)
    PROVE  [Promise!Next]_(Promise!vars)
<1> USE DEF MoveTo, Progress
<1>1. ran' = ran
  BY DEF Register, RejectEarly, TooLate, Mount, Record, Document, Stray, LoadOrStore, StoreShared,
         StoreRegistered, Open, serving
<1>2. Served' = Served /\ s \in Sites /\ s.kind \in Kinds
  BY <1>1, SameServed, SitesHaveKinds DEF BindInv
<1>3. CASE RejectEarly(s) \/ TooLate(s)
  <2>1. Progress(s, "failed") /\ records' = records /\ s.own /\ phase[s] = "idle"
    BY <1>3 DEF RejectEarly, TooLate
  <2>2. s \notin Assured
    BY <2>1 DEF Assured
  <2>3. QED
    BY <1>1, <2>1, <2>2, RejectProgress
<1>4. CASE Mount(s)
  <2>1. records' = records /\ s.own /\ phase[s] = "idle" /\ s \notin Assured /\ sites' = sites
    BY <1>4 DEF Mount, Assured
  <2>2. s \notin records /\ s \notin Failed
    BY <2>1 DEF BindInv, RecordsInv, Recorded, Failed
  <2>3. CASE ~RouterAccepts(s)
    <3>1. Progress(s, "failed")
      BY <1>4, <2>3 DEF Mount
    <3>2. QED
      BY <1>1, <2>1, <3>1, RejectProgress
  <2>4. CASE RouterAccepts(s)
    <3>1. Progress(s, "mounted")
      BY <1>4, <2>4 DEF Mount
    <3>2. /\ Assured' = Assured \cup (IF LiveAtOnce(s) /\ Doc(s) # Bad THEN {s} ELSE {})
          /\ Failed' = Failed
      BY <2>1, <2>2, <3>1, MountAssured
    <3>3. CASE LiveAtOnce(s) /\ Doc(s) # Bad
      BY <1>2, <2>1, <2>2, <3>2, <3>3, AcceptStep DEF Promised
    <3>4. CASE ~(LiveAtOnce(s) /\ Doc(s) # Bad)
      BY <1>2, <2>1, <3>2, <3>4, StutterStep DEF Promised, Stutter
    <3>5. QED
      BY <3>3, <3>4
  <2>5. QED
    BY <2>3, <2>4
<1>5. CASE Record(s)
  <2>1. phase[s] = "mounted" /\ s.own /\ sites' = sites
    BY <1>5 DEF Record, BindInv, RecordsInv
  <2>2. s \notin records /\ s \notin Failed
    BY <2>1 DEF BindInv, RecordsInv, Recorded, Failed
  <2>3. CASE ~BinderAccepts(s)
    <3>1. Progress(s, "failed") /\ records' = records
      BY <1>5, <2>3 DEF Record
    <3>2. s \notin Assured
      BY <2>3 DEF Assured
    <3>3. QED
      BY <1>1, <2>1, <3>1, <3>2, RejectProgress
  <2>4. CASE BinderAccepts(s)
    <3>1. Progress(s, AfterBind(s)) /\ records' = records \cup {s}
      BY <1>5, <2>4 DEF Record
    <3>2. AfterBind(s) \in Recorded
      BY <1>2 DEF AfterBind, Recorded
    <3>3. Assured' = Assured \ {s} /\ Failed' = Failed
      BY <2>2, <3>1, <3>2, QuietAssured
    <3>4. CASE s \in Assured
      BY <1>2, <3>1, <3>3, <3>4, StutterStep DEF Promised, Stutter
    <3>5. CASE s \notin Assured
      BY <1>2, <2>2, <3>1, <3>3, <3>5, AcceptStep DEF Promised
    <3>6. QED
      BY <3>4, <3>5
  <2>5. QED
    BY <2>3, <2>4
<1>6. CASE Document(s)
  <2>1. Progress(s, "done") /\ phase[s] = "idle" /\ s.kind = "document" /\ records' = records \cup {s}
    BY <1>6 DEF Document
  <2>2. s \notin records /\ s \notin Failed /\ s \notin Assured
    BY <2>1 DEF BindInv, RecordsInv, Recorded, Failed, Assured
  <2>3. Assured' = Assured /\ Failed' = Failed
    <3>1. "done" \in Recorded
      BY DEF Recorded
    <3>2. QED
      BY <2>1, <2>2, <3>1, QuietAssured
  <2>4. QED
    BY <1>2, <2>1, <2>2, <2>3, AcceptStep DEF Promised
<1>7. CASE Stray(s)
  <2>1. Progress(s, "done") /\ phase[s] = "idle" /\ records' = records
    BY <1>7 DEF Stray
  <2>2. s \notin Failed /\ s \notin Assured
    BY <2>1 DEF Failed, Assured
  <2>3. Assured' = Assured /\ Failed' = Failed
    <3>1. "done" \in Recorded
      BY DEF Recorded
    <3>2. QED
      BY <2>1, <2>2, <3>1, QuietAssured
  <2>4. QED
    BY <1>2, <2>1, <2>3, StutterStep DEF Promised, Stutter
<1>8. CASE LoadOrStore(s) \/ StoreShared(s) \/ StoreRegistered(s) \/ Open(s)
  <2>1. /\ phase[s] \in {"remember", "clash", "store", "open"} /\ records' = records
        /\ \E next \in {phase[s], "remember", "clash", "open", "done"} : Progress(s, next)
    BY <1>8 DEF LoadOrStore, StoreShared, StoreRegistered, NextSpelling, Open
  <2>2. PICK next \in {phase[s], "remember", "clash", "open", "done"} : Progress(s, next)
    BY <2>1
  <2>3. next \in Recorded /\ phase[s] \in Recorded
    BY <2>1, <2>2 DEF Recorded
  <2>4. s \notin Failed /\ s \notin Assured
    BY <2>1 DEF Failed, Assured
  <2>5. Assured' = Assured /\ Failed' = Failed
    BY <2>2, <2>3, <2>4, QuietAssured
  <2>6. QED
    BY <1>2, <2>1, <2>5, StutterStep DEF Promised, Stutter
<1>9. QED
  BY <1>3, <1>4, <1>5, <1>6, <1>7, <1>8 DEF Register

\* Without a registration the document and the failures stay.
LEMMA PromisedStays == Unregistered => Promised' = Promised /\ Failed' = Failed
BY DEF Unregistered, Promised, Assured, Failed, LiveAtOnce, BinderAccepts, Duplicate, Doc

\* A handler that runs has its route in the document.
LEMMA RunStep ==
    ASSUME BindInv, NEW c \in Clients, Run(c)
    PROVE  [Promise!Next]_(Promise!vars)
<1>1. Unregistered
  BY RequestInv
<1>2. Promised' = Promised /\ Failed' = Failed
  BY <1>1, PromisedStays
<1>3. PICK a \in Request : a = at[c]
  BY DEF BindInv, TypeOK
<1> DEFINE r == Head(a.todo)
<1>4. a.todo \in Seq(sites) /\ a.todo # <<>> /\ ~Closed(r) /\ ran' = IF r.own THEN ran \cup {r} ELSE ran
  BY <1>3 DEF Run, Request
<1>5. r \in Elements(a.todo) /\ r \in sites
  BY <1>4, ElementsOfTail DEF Elements
<1>6. Placed(r)
  BY <1>3, <1>5 DEF BindInv, PlacedInv
<1> HIDE DEF r
<1>7. Served' = {s \in ran' : s.kind = "gorilla" => Doc(s) # Bad}
  BY DEF Served, BinderAccepts, Doc, Gated
<1>8. Served = {s \in ran : s.kind = "gorilla" => Doc(s) # Bad}
  BY GorillaCheck DEF Served
<1>9. CASE r.own /\ (r.kind = "gorilla" => Doc(r) # Bad)
  <2>1. Served' = Served \cup {r}
    BY <1>4, <1>7, <1>8, <1>9
  <2>2. r \in Promised
    <3>1. CASE r.kind \in Gated
      <4>1. r \in bound
        BY <1>4, <1>9, <3>1 DEF Closed
      <4>2. QED
        BY <4>1 DEF BindInv, RecordsInv, Promised
    <3>2. CASE r.kind \notin Gated
      <4>1. r.kind \in Kinds /\ r.kind # "document"
        BY <1>5, <1>6, <1>9, SitesHaveKinds DEF BindInv, Placed
      <4>2. LiveAtOnce(r) /\ Doc(r) # Bad
        BY <1>6, <1>9, <3>2, <4>1 DEF Kinds, Gated, LiveAtOnce, Placed
      <4>3. phase[r] \in {"mounted", "done"}
        BY <1>6, <1>9, <4>2 DEF Placed
      <4>4. CASE phase[r] = "mounted"
        BY <1>5, <4>2, <4>4, LiveCheck DEF Promised, Assured
      <4>5. CASE phase[r] = "done"
        BY <1>5, <1>9, <4>5 DEF BindInv, RecordsInv, Recorded, Promised
      <4>6. QED
        BY <4>3, <4>4, <4>5
    <3>3. QED
      BY <3>1, <3>2
  <2>3. r \in Sites
    BY <1>5, SitesHaveKinds DEF BindInv
  <2>4. QED
    BY <1>2, <2>1, <2>2, <2>3, AnswerStep
<1>10. CASE ~(r.own /\ (r.kind = "gorilla" => Doc(r) # Bad))
  <2>1. Served' = Served
    BY <1>4, <1>7, <1>8, <1>10
  <2>2. QED
    BY <1>2, <2>1, StutterStep DEF Stutter
<1>11. QED
  BY <1>9, <1>10

LEMMA ExposureInit == Init => Promise!Init
BY DEF Init, Promise!Init

LEMMA ExposureStep == BindInv /\ [Next]_vars => [Promise!Next]_(Promise!vars)
<1> SUFFICES ASSUME BindInv, [Next]_vars PROVE [Promise!Next]_(Promise!vars)
  OBVIOUS
<1>1. ASSUME NEW s \in sites, Register(s) PROVE [Promise!Next]_(Promise!vars)
  BY <1>1, RegisterStep
<1>2. ASSUME NEW c \in Clients, Run(c) PROVE [Promise!Next]_(Promise!vars)
  BY <1>2, RunStep
<1>3. ASSUME Unregistered, ran' = ran PROVE [Promise!Next]_(Promise!vars)
  BY <1>3, PromisedStays, SameServed, StutterStep DEF Stutter
<1>4. ASSUME NEW c \in Clients, Arrive(c) \/ PassOn(c) \/ TurnAway(c)
      PROVE  Unregistered /\ ran' = ran
  BY <1>4, RequestInv DEF Arrive, PassOn, TurnAway
<1>5. CASE OtherSteps
  BY <1>3, <1>5, OtherStepsAside
<1>6. CASE UNCHANGED vars
  BY <1>3, <1>6 DEF vars, router, registry, serving, Unregistered
<1>7. QED
  BY <1>1, <1>2, <1>3, <1>4, <1>5, <1>6 DEF Next, OtherSteps

\* The handler of a route runs only once the route is in the document or, on
\* net/http and gorilla, certain to be; a registration that failed serves
\* nothing; and neither verdict is taken back (Bind, addRoute, the gates of
\* the adapters and register of net/http and gorilla).
THEOREM OnlyDocumentedServes == Spec => ServedIsRecorded
<1>1. Spec => []BindInv
  BY InitInv, NextInv, PTL DEF Spec
<1>2. QED
  BY <1>1, ExposureInit, ExposureStep, PTL DEF Spec, ServedIsRecorded, Promise!Spec

(***************************************************************************)
(* What Record reports.                                                    *)
(***************************************************************************)

\* The keys under which remember stores the documented path of a Gin route.
KeysOf(s) == {Key(s.method, s.path), Key(s.method, Unescaped[s.path])}

\* The key that it stores next.
NextKey(s) == Key(s.method, Spellings(s)[spelling[s]])

GinRecords == {s \in records : s.kind = "gin"}

\* A key holds the path of a route of its own, or is shared by two.
Explained(key) ==
    \/ \E t \in GinRecords : key \in KeysOf(t) /\ known[key] = Doc(t)
    \/ known[key] = Shared /\ \E t, u \in GinRecords : t # u /\ key \in KeysOf(t) /\ key \in KeysOf(u)

\* How far remember has come with s.
Remembered(s) ==
    /\ phase[s] \in {"remember", "clash"} => spelling[s] \in {1, 2}
    /\ phase[s] \in {"remember", "clash"} /\ spelling[s] = 2 => Key(s.method, s.path) \in DOMAIN known
    /\ phase[s] \in {"open", "done"} => KeysOf(s) \subseteq DOMAIN known
    /\ phase[s] = "clash" => \E t \in GinRecords \ {s} : NextKey(s) \in KeysOf(t)
    /\ phase[s] = "idle" => spelling[s] = 1
    /\ phase[s] = "mounted" => spelling[s] = 1

KnownInv ==
    /\ spelling \in [sites -> Nat]
    /\ known = [key \in DOMAIN known |-> known[key]]
    /\ \A key \in DOMAIN known : Explained(key)
    /\ \A s \in sites : s.own /\ s.kind = "gin" => Remembered(s)
    /\ \A s \in sites : phase[s] \in {"remember", "clash"} => s.kind = "gin"
    /\ \A s \in sites : phase[s] = "store" => s.kind = "echov4"

\* What is recorded passed its checks.
CheckedInv ==
    /\ \A s \in sites : phase[s] = "mounted" => s.method \in OpenAPIMethods
    /\ \A s \in records : s.method \in OpenAPIMethods /\ (s.kind \in Gated => Doc(s) # Bad)

\* Only Gin drops escapes.
DroppedInv == \A r \in dropped : r.kind = "gin"

WellNamed(seen) ==
    LET s == seen.site
    IN  s.own /\ seen.sure =>
        \/ seen.key = Key(s.method, Doc(s))
        \/ s.kind = "gin" /\ \E t \in records \ {s} : t.kind = "gin" /\ t.method = s.method
                                                    /\ Elements(Spellings(t)) \cap Elements(Spellings(s)) # {}

ReportInv == BindInv /\ KnownInv /\ CheckedInv /\ DroppedInv /\ ObservedIsDocumented

LEMMA InitReport == Init => ReportInv
<1> SUFFICES ASSUME Init PROVE ReportInv
  OBVIOUS
<1>1. BindInv
  BY InitInv
<1>2. KnownInv
  <2>1. \A s \in sites : phase[s] = "idle" /\ spelling[s] = 1
    BY DEF Init
  <2>2. \A s \in sites : Remembered(s)
    BY <2>1 DEF Remembered
  <2>3. known = [key \in DOMAIN known |-> known[key]] /\ DOMAIN known = {} /\ spelling \in [sites -> Nat]
    BY DEF Init
  <2>4. QED
    BY <2>1, <2>2, <2>3 DEF KnownInv
<1>3. CheckedInv /\ DroppedInv /\ ObservedIsDocumented
  BY DEF Init, CheckedInv, DroppedInv, ObservedIsDocumented
<1>4. QED
  BY <1>1, <1>2, <1>3 DEF ReportInv

\* A registration that moves on without a spelling.
LEMMA KnownQuiet ==
    ASSUME ReportInv, NEW s \in sites, NEW next \in Phases \ {"idle", "clash"}, Progress(s, next),
           known' = known, spelling' = spelling, records \subseteq records',
           next = "remember" => s.kind = "gin" /\ phase[s] = "mounted",
           next = "mounted" => phase[s] = "idle",
           next = "store" => s.kind = "echov4",
           s.own /\ s.kind = "gin" /\ next \in {"open", "done"} => phase[s] = "open"
    PROVE  KnownInv'
<1>1. sites' = sites /\ \A r \in sites : phase'[r] = IF r = s THEN next ELSE phase[r]
  BY DEF Progress, ReportInv, BindInv, TypeOK
<1>2. GinRecords \subseteq GinRecords'
  BY DEF GinRecords
<1>3. \A key \in DOMAIN known : Explained(key)'
  <2>1. \A key \in DOMAIN known : Explained(key)
    BY DEF ReportInv, KnownInv
  <2>2. QED
    BY <1>2, <2>1 DEF Explained, KeysOf, Doc
<1>4. ASSUME NEW r \in sites, r.own, r.kind = "gin" PROVE Remembered(r)'
  <2>1. Remembered(r)
    BY <1>4 DEF ReportInv, KnownInv
  <2>2. CASE r # s
    <3>1. phase'[r] = phase[r] /\ spelling'[r] = spelling[r]
      BY <1>1, <2>2
    <3>2. NextKey(r)' = NextKey(r)
      BY <3>1 DEF NextKey, Spellings, Key
    <3>3. QED
      BY <1>2, <2>1, <3>1, <3>2 DEF Remembered, KeysOf, Key
  <2>3. CASE r = s
    <3>1. phase'[r] = next
      BY <1>1, <2>3
    <3>2. QED
      BY <1>4, <2>1, <2>3, <3>1 DEF Remembered, KeysOf, Key
  <2>4. QED
    BY <2>2, <2>3
<1>5. QED
  BY <1>1, <1>3, <1>4 DEF ReportInv, KnownInv

LEMMA NextKeyIsOne ==
    ASSUME NEW s \in sites, spelling[s] \in {1, 2}
    PROVE  /\ NextKey(s) = IF spelling[s] = 1 THEN Key(s.method, s.path) ELSE Key(s.method, Unescaped[s.path])
           /\ NextKey(s) \in KeysOf(s)
<1>1. Spellings(s)[1] = s.path /\ Spellings(s)[2] = Unescaped[s.path]
  BY DEF Spellings
<1>2. QED
  BY <1>1 DEF NextKey, KeysOf

\* A spelling is stored, or found, and remember goes on.
LEMMA KnownNext ==
    ASSUME ReportInv, NEW s \in sites, phase[s] \in {"remember", "clash"}, NextSpelling(s),
           sites' = sites, records' = records,
           DOMAIN known \cup {NextKey(s)} \subseteq DOMAIN known',
           known' = [key \in DOMAIN known' |-> known'[key]],
           \A key \in DOMAIN known' : Explained(key)'
    PROVE  KnownInv'
<1>1. /\ s.kind = "gin" /\ s.own /\ Remembered(s) /\ spelling[s] \in {1, 2} /\ spelling \in [sites -> Nat]
      /\ phase \in [sites -> Phases]
  BY DEF ReportInv, BindInv, TypeOK, KnownInv, RecordsInv, Remembered
<1>2. Len(Spellings(s)) = 2
  BY DEF Spellings
<1>3. IF spelling[s] = 1
      THEN spelling' = [spelling EXCEPT ![s] = 2] /\ phase' = [phase EXCEPT ![s] = "remember"]
      ELSE spelling' = spelling /\ phase' = [phase EXCEPT ![s] = "open"]
  BY <1>1, <1>2 DEF NextSpelling, MoveTo
<1>4. spelling' \in [sites -> Nat] /\ \A r \in sites \ {s} : phase'[r] = phase[r] /\ spelling'[r] = spelling[r]
  BY <1>1, <1>3
<1>5. Remembered(s)'
  <2>1. CASE spelling[s] = 1
    <3>1. NextKey(s) = Key(s.method, s.path)
      BY <2>1, NextKeyIsOne
    <3>2. phase'[s] = "remember" /\ spelling'[s] = 2
      BY <1>1, <1>3, <2>1
    <3>3. QED
      BY <3>1, <3>2 DEF Remembered
  <2>2. CASE spelling[s] = 2
    <3>1. NextKey(s) = Key(s.method, Unescaped[s.path]) /\ Key(s.method, s.path) \in DOMAIN known
      BY <1>1, <2>2, NextKeyIsOne DEF Remembered
    <3>2. phase'[s] = "open"
      BY <1>1, <1>3, <2>2
    <3>3. QED
      BY <3>1, <3>2 DEF Remembered, KeysOf
  <2>3. QED
    BY <1>1, <2>1, <2>2
<1>6. ASSUME NEW r \in sites, r # s, r.own, r.kind = "gin" PROVE Remembered(r)'
  <2>1. Remembered(r)
    BY <1>6 DEF ReportInv, KnownInv
  <2>2. NextKey(r)' = NextKey(r) /\ phase'[r] = phase[r] /\ spelling'[r] = spelling[r]
    BY <1>4, <1>6 DEF NextKey, Spellings, Key
  <2>3. QED
    BY <2>1, <2>2 DEF Remembered, KeysOf, Key, GinRecords
<1>7. phase'[s] \in {"remember", "open"}
  BY <1>1, <1>3
<1>8. QED
  BY <1>1, <1>4, <1>5, <1>6, <1>7 DEF ReportInv, KnownInv

\* What remember stores explains its key.
LEMMA StoreExplained ==
    ASSUME ReportInv, NEW s \in sites, phase[s] \in {"remember", "clash"}, records' = records,
           NEW value, Store(NextKey(s), value),
           \/ value = Doc(s)
           \/ value = Shared /\ \E t \in GinRecords \ {s} : NextKey(s) \in KeysOf(t)
    PROVE  /\ DOMAIN known' = DOMAIN known \cup {NextKey(s)}
           /\ known' = [key \in DOMAIN known' |-> known'[key]]
           /\ \A key \in DOMAIN known' : Explained(key)'
<1>1. s \in GinRecords /\ spelling[s] \in {1, 2}
  BY DEF ReportInv, BindInv, RecordsInv, Recorded, KnownInv, Remembered, GinRecords
<1>2. NextKey(s) \in KeysOf(s)
  BY <1>1, NextKeyIsOne
<1> DEFINE next == NextKey(s)
<1>3. known' = [k \in DOMAIN known \cup {next} |-> IF k = next THEN value ELSE known[k]]
  BY DEF Store
<1> HIDE DEF next
<1>4. DOMAIN known' = DOMAIN known \cup {next} /\ known'[next] = value
      /\ \A key \in DOMAIN known \ {next} : known'[key] = known[key]
  BY <1>3
<1>5. GinRecords' = GinRecords
  BY DEF GinRecords
<1>6. ASSUME NEW key \in DOMAIN known' PROVE Explained(key)'
  <2>1. CASE key = next
    <3>1. next \in KeysOf(s) /\ (value = Doc(s) \/ (value = Shared /\ \E t \in GinRecords \ {s} : next \in KeysOf(t)))
      BY <1>2 DEF next
    <3>2. QED
      BY <1>1, <1>4, <1>5, <2>1, <3>1 DEF Explained, KeysOf, Doc
  <2>2. CASE key # next
    <3>1. Explained(key) /\ known'[key] = known[key]
      BY <1>4, <2>2 DEF ReportInv, KnownInv
    <3>2. QED
      BY <1>5, <3>1 DEF Explained, KeysOf, Doc
  <2>3. QED
    BY <2>1, <2>2
<1>7. QED
  BY <1>3, <1>4, <1>6 DEF next

LEMMA RegisterKnown ==
    ASSUME ReportInv, NEW s \in sites, Register(s)
    PROVE  KnownInv'
<1> USE DEF MoveTo, Progress
<1>0. s.kind \in Kinds /\ (s.kind = "document" => s.own)
  BY SitesHaveKinds DEF ReportInv, BindInv
<1>1. CASE RejectEarly(s) \/ TooLate(s)
  <2>1. Progress(s, "failed") /\ UNCHANGED <<known, spelling, records>>
    BY <1>1 DEF RejectEarly, TooLate
  <2>2. QED
    BY <2>1, KnownQuiet DEF Phases
<1>2. CASE Mount(s)
  <2>1. UNCHANGED <<known, spelling, records, sites>> /\ phase[s] = "idle"
    BY <1>2 DEF Mount
  <2>2. PICK next \in {"mounted", "failed"} : Progress(s, next)
    BY <1>2, <2>1 DEF Mount
  <2>3. next \in Phases \ {"idle", "clash"}
    BY DEF Phases
  <2>4. QED
    BY <2>1, <2>2, <2>3, KnownQuiet
<1>3. CASE Record(s)
  <2>1. UNCHANGED <<known, spelling>> /\ phase[s] = "mounted" /\ records \subseteq records'
    BY <1>3 DEF Record
  <2>2. PICK next \in {"failed", AfterBind(s)} : Progress(s, next)
    BY <1>3 DEF Record
  <2>3. /\ next \in Phases \ {"idle", "clash", "mounted"}
        /\ (next = "remember" => s.kind = "gin")
        /\ (next = "store" => s.kind = "echov4")
        /\ (s.kind = "gin" => next \notin {"open", "done"})
    BY <1>0 DEF Phases, Recorded, AfterBind
  <2>4. QED
    BY <2>1, <2>2, <2>3, KnownQuiet
<1>4. CASE Document(s)
  <2>1. Progress(s, "done") /\ UNCHANGED <<known, spelling>> /\ records \subseteq records' /\ s.kind = "document"
    BY <1>4 DEF Document
  <2>2. QED
    BY <2>1, KnownQuiet DEF Phases, Recorded
<1>5. CASE Stray(s)
  <2>1. Progress(s, "done") /\ UNCHANGED <<known, spelling, records>> /\ ~s.own
    BY <1>5 DEF Stray
  <2>2. QED
    BY <2>1, KnownQuiet DEF Phases, Recorded
<1>6. CASE LoadOrStore(s)
  <2>1. phase[s] = "remember" /\ UNCHANGED <<sites, records>>
    BY <1>6 DEF LoadOrStore
  <2>2. CASE NextKey(s) \in DOMAIN known
    <3>1. known' = known
      BY <1>6, <2>2 DEF LoadOrStore, NextKey
    <3>2. known = [key \in DOMAIN known |-> known[key]] /\ \A key \in DOMAIN known : Explained(key)
      BY DEF ReportInv, KnownInv
    <3>3. \A key \in DOMAIN known' : Explained(key)'
      BY <2>1, <3>1, <3>2 DEF Explained, GinRecords, KeysOf, Doc
    <3>4. CASE known[NextKey(s)] = Doc(s)
      <4>1. NextSpelling(s)
        BY <1>6, <2>2, <3>4 DEF LoadOrStore, NextKey
      <4>2. QED
        BY <2>1, <2>2, <3>1, <3>2, <3>3, <4>1, KnownNext
    <3>5. CASE known[NextKey(s)] # Doc(s)
      <4>1. phase' = [phase EXCEPT ![s] = "clash"] /\ spelling' = spelling
        BY <1>6, <2>2, <3>5 DEF LoadOrStore, NextKey
      <4>2. \E t \in GinRecords \ {s} : NextKey(s) \in KeysOf(t)
        BY <2>2, <3>2, <3>5 DEF Explained
      <4>3. phase'[s] = "clash" /\ \A r \in sites \ {s} : phase'[r] = phase[r]
        BY <4>1 DEF ReportInv, BindInv, TypeOK
      <4>4. ASSUME NEW r \in sites, r.own, r.kind = "gin" PROVE Remembered(r)'
        <5>1. Remembered(r) /\ NextKey(r)' = NextKey(r) /\ KeysOf(r)' = KeysOf(r) /\ GinRecords' = GinRecords
          BY <2>1, <4>1, <4>4 DEF ReportInv, KnownInv, NextKey, Spellings, Key, KeysOf, GinRecords
        <5>2. CASE r # s
          BY <3>1, <4>1, <4>3, <5>1, <5>2 DEF Remembered, KeysOf, Key
        <5>3. CASE r = s
          <6>1. \E t \in GinRecords' \ {r} : NextKey(r)' \in KeysOf(t)'
            BY <4>2, <5>1, <5>3 DEF KeysOf, Key
          <6>2. QED
            BY <2>1, <3>1, <4>1, <4>3, <5>1, <5>3, <6>1 DEF Remembered, Key
        <5>4. QED
          BY <5>2, <5>3
      <4>5. s.kind = "gin"
        BY <2>1 DEF ReportInv, KnownInv
      <4>6. QED
        BY <2>1, <3>1, <3>2, <3>3, <4>1, <4>3, <4>4, <4>5 DEF ReportInv, KnownInv
    <3>6. QED
      BY <3>4, <3>5
  <2>3. CASE NextKey(s) \notin DOMAIN known
    <3>1. Store(NextKey(s), Doc(s)) /\ NextSpelling(s)
      BY <1>6, <2>3 DEF LoadOrStore, NextKey
    <3>2. QED
      BY <2>1, <3>1, StoreExplained, KnownNext
  <2>4. QED
    BY <2>2, <2>3
<1>7. CASE StoreShared(s)
  <2>1. phase[s] = "clash" /\ UNCHANGED <<sites, records>> /\ Store(NextKey(s), Shared) /\ NextSpelling(s)
    BY <1>7 DEF StoreShared, NextKey
  <2>2. \E t \in GinRecords \ {s} : NextKey(s) \in KeysOf(t)
    BY <2>1 DEF ReportInv, BindInv, RecordsInv, KnownInv, Remembered
  <2>3. QED
    BY <2>1, <2>2, StoreExplained, KnownNext
<1>8. CASE StoreRegistered(s)
  <2>1. Progress(s, "open") /\ UNCHANGED <<known, spelling, records>> /\ phase[s] = "store"
    BY <1>8 DEF StoreRegistered
  <2>2. s.kind # "gin"
    BY <2>1 DEF ReportInv, KnownInv
  <2>3. QED
    BY <2>1, <2>2, KnownQuiet DEF Phases, Recorded
<1>9. CASE Open(s)
  <2>1. Progress(s, "done") /\ UNCHANGED <<known, spelling, records>> /\ phase[s] = "open"
    BY <1>9 DEF Open
  <2>2. QED
    BY <2>1, KnownQuiet DEF Phases, Recorded
<1>10. QED
  BY <1>1, <1>2, <1>3, <1>4, <1>5, <1>6, <1>7, <1>8, <1>9 DEF Register

LEMMA NamedObserved == ObservedIsDocumented <=> \A seen \in observed : WellNamed(seen)
BY DEF ObservedIsDocumented, WellNamed

\* The reports so far stay true: the document only grows.
LEMMA ReportsStay ==
    ASSUME ObservedIsDocumented, records \subseteq records', observed' = observed
    PROVE  ObservedIsDocumented'
<1>1. ASSUME NEW seen, WellNamed(seen) PROVE WellNamed(seen)'
  BY <1>1 DEF WellNamed, Doc, Spellings, Key, Elements
<1>2. ObservedIsDocumented' <=> \A seen \in observed' : WellNamed(seen)'
  BY DEF ObservedIsDocumented, WellNamed
<1>3. QED
  BY <1>1, <1>2, NamedObserved

LEMMA RegisterReport ==
    ASSUME ReportInv, NEW s \in sites, Register(s)
    PROVE  ReportInv'
<1>1. BindInv' /\ KnownInv'
  BY RegisterInv, RegisterKnown DEF ReportInv
<1>2. /\ records \subseteq records' /\ observed' = observed /\ dropped' = dropped
  BY DEF Register, RejectEarly, TooLate, Mount, Record, Document, Stray, LoadOrStore, StoreShared,
         StoreRegistered, Open, router, serving
<1>3. ObservedIsDocumented' /\ DroppedInv'
  BY <1>2, ReportsStay DEF ReportInv, DroppedInv
<1>4. CheckedInv'
  <2>1. phase \in [sites -> Phases] /\ sites' = sites
    BY DEF ReportInv, BindInv, TypeOK, Register, RejectEarly, TooLate, Mount, Record, Document, Stray,
           LoadOrStore, StoreShared, StoreRegistered, Open
  <2>2. CASE Mount(s)
    BY <2>1, <2>2 DEF Mount, MoveTo, PassesEarlyChecks, ReportInv, CheckedInv, Doc
  <2>3. CASE Record(s)
    <3>1. s.method \in OpenAPIMethods /\ phase[s] = "mounted" /\ AfterBind(s) # "mounted"
      BY <2>3 DEF Record, ReportInv, CheckedInv, AfterBind
    <3>2. \A r \in sites : phase'[r] = "mounted" => phase[r] = "mounted"
      BY <2>1, <2>3, <3>1 DEF Record, MoveTo
    <3>3. \A r \in records' : r \in records \/ (r = s /\ BinderAccepts(s))
      BY <2>3 DEF Record
    <3>4. QED
      BY <2>1, <3>1, <3>2, <3>3 DEF ReportInv, CheckedInv, BinderAccepts, Doc
  <2>4. CASE Document(s)
    <3>1. s.method \in OpenAPIMethods /\ s.kind \notin Gated /\ records' = records \cup {s}
      BY <2>4 DEF Document, PassesEarlyChecks, Gated
    <3>2. \A r \in sites : phase'[r] = "mounted" => phase[r] = "mounted"
      BY <2>1, <2>4 DEF Document, MoveTo
    <3>3. QED
      BY <2>1, <3>1, <3>2 DEF ReportInv, CheckedInv, Doc
  <2>5. CASE RejectEarly(s) \/ TooLate(s) \/ Stray(s) \/ LoadOrStore(s) \/ StoreShared(s)
             \/ StoreRegistered(s) \/ Open(s)
    <3>1. records' = records /\ \A r \in sites : phase'[r] = "mounted" => phase[r] = "mounted"
      BY <2>1, <2>5 DEF RejectEarly, TooLate, Stray, LoadOrStore, StoreShared, StoreRegistered, Open,
                        NextSpelling, MoveTo
    <3>2. QED
      BY <2>1, <3>1 DEF ReportInv, CheckedInv, Doc
  <2>6. QED
    BY <2>2, <2>3, <2>4, <2>5 DEF Register
<1>5. QED
  BY <1>1, <1>3, <1>4 DEF ReportInv

(***************************************************************************)
(* A report names the entry of its route.                                  *)
(***************************************************************************)

\* The entry of a route whose gate is open.
LEMMA OpenRoute ==
    ASSUME ReportInv, NEW r \in bound, r.own, r.kind \in Gated
    PROVE  /\ r \in records /\ r \in sites /\ r.method # AnyMethod /\ Doc(r) # Bad
           /\ phase[r] = "done"
           /\ TablePath(r.kind, r.path) = Doc(r)
BY BindingAssumption DEF ReportInv, BindInv, RecordsInv, CheckedInv, TablePath, Doc

LEMMA DocumentedIsNamed ==
    ASSUME ReportInv, NEW r \in bound, r.own, r.kind \in Gated
    PROVE  \/ Documented(r) = Doc(r)
           \/ r.kind = "gin" /\ \E t \in records \ {r} : t.kind = "gin" /\ t.method = r.method
                                            /\ Elements(Spellings(t)) \cap Elements(Spellings(r)) # {}
<1>1. r \in records /\ r \in sites /\ phase[r] = "done" /\ TablePath(r.kind, r.path) = Doc(r)
  BY OpenRoute
<1>2. CASE r.kind # "gin"
  <2>1. r \notin dropped
    BY <1>2 DEF ReportInv, DroppedInv
  <2>2. QED
    BY <1>1, <1>2, <2>1 DEF Documented, Spelling
<1>3. CASE r.kind = "gin"
  <2> DEFINE key == Key(r.method, Spelling(r))
  <2>1. key \in KeysOf(r)
    BY DEF KeysOf, Spelling
  <2>2. Remembered(r)
    BY <1>1, <1>3 DEF ReportInv, KnownInv
  <2>3. key \in DOMAIN known
    BY <1>1, <1>3, <2>1, <2>2 DEF Remembered
  <2>4. Explained(key)
    BY <2>3 DEF ReportInv, KnownInv
  <2>5. ASSUME NEW t \in GinRecords \ {r}, key \in KeysOf(t)
        PROVE  t \in records \ {r} /\ t.kind = "gin" /\ t.method = r.method
               /\ Elements(Spellings(t)) \cap Elements(Spellings(r)) # {}
    <3>1. t.method = r.method /\ Spelling(r) \in {t.path, Unescaped[t.path]}
      BY <2>5 DEF KeysOf, Key
    <3>2. Spelling(r) \in {r.path, Unescaped[r.path]}
      BY DEF Spelling
    <3>3. \A s : {s.path, Unescaped[s.path]} = Elements(Spellings(s))
      <4>1. ASSUME NEW s PROVE {s.path, Unescaped[s.path]} = Elements(Spellings(s))
        <5>1. DOMAIN Spellings(s) = {1, 2} /\ Spellings(s)[1] = s.path /\ Spellings(s)[2] = Unescaped[s.path]
          BY DEF Spellings
        <5>2. QED
          BY <5>1 DEF Elements
      <4>2. QED
        BY <4>1
    <3>4. QED
      BY <2>5, <3>1, <3>2, <3>3 DEF GinRecords
  <2> HIDE DEF key
  <2>6. CASE \E t \in GinRecords \ {r} : key \in KeysOf(t)
    BY <1>3, <2>5, <2>6
  <2>7. CASE ~\E t \in GinRecords \ {r} : key \in KeysOf(t)
    <3>1. known[key] = Doc(r)
      BY <2>4, <2>7 DEF Explained
    <3>2. Doc(r) # Shared
      BY <1>1, OpenRoute, BindingAssumption DEF Doc, ReportInv, BindInv, TypeOK, SiteType
    <3>3. QED
      BY <1>3, <2>3, <3>1, <3>2 DEF Documented, key
  <2>8. QED
    BY <2>6, <2>7
<1>4. QED
  BY <1>2, <1>3

\* The report of c on route r, by the path that the middleware has for it.
LEMMA ReportIsNamed ==
    ASSUME ReportInv, Unregistered, NEW c \in Clients, NEW r, NEW path, Observe(c, r, path),
           path = Documented(r) \/ (r.own /\ path = Doc(r))
    PROVE  ObservedIsDocumented'
<1> DEFINE method == IF r.method = AnyMethod THEN at[c].method ELSE r.method
           seen == [site |-> r, key |-> Key(method, path), sure |-> r \in bound]
<1>1. observed' = IF r.kind \in Gated THEN observed \cup {seen} ELSE observed
  BY DEF Observe
<1>2. \A old \in observed : WellNamed(old)
  BY NamedObserved DEF ReportInv
<1>3. ASSUME r.kind \in Gated PROVE WellNamed(seen)
  <2>1. seen.site = r /\ seen.key = Key(method, path) /\ seen.sure = (r \in bound)
    OBVIOUS
  <2>2. CASE r.own /\ r \in bound
    <3>1. method = r.method
      BY <1>3, <2>2, OpenRoute
    <3>2. \/ path = Doc(r)
          \/ r.kind = "gin" /\ \E t \in records \ {r} : t.kind = "gin" /\ t.method = r.method
                                            /\ Elements(Spellings(t)) \cap Elements(Spellings(r)) # {}
      BY <1>3, <2>2, DocumentedIsNamed
    <3> HIDE DEF method, seen
    <3>3. QED
      BY <2>1, <3>1, <3>2 DEF WellNamed
  <2>3. CASE ~(r.own /\ r \in bound)
    <3> HIDE DEF seen
    <3>1. QED
      BY <2>1, <2>3 DEF WellNamed
  <2>4. QED
    BY <2>2, <2>3
<1> HIDE DEF seen
<1>4. \A s \in observed' : WellNamed(s)
  BY <1>1, <1>2, <1>3
<1>5. \A s : WellNamed(s) => WellNamed(s)'
  BY DEF Unregistered, WellNamed, Doc, Spellings, Key, Elements
<1>6. ObservedIsDocumented' <=> \A s \in observed' : WellNamed(s)'
  BY DEF ObservedIsDocumented, WellNamed
<1>7. QED
  BY <1>4, <1>5, <1>6

\* Steps aside from the registrations.
LEMMA AsideKnown ==
    ASSUME ReportInv, Unregistered, known' = known, spelling' = spelling
    PROVE  KnownInv' /\ CheckedInv'
<1>1. \A key : Explained(key) => Explained(key)'
  BY DEF Unregistered, Explained, GinRecords, KeysOf, Key, Doc
<1>2. \A s \in sites : Remembered(s) => Remembered(s)'
  BY DEF Unregistered, Remembered, GinRecords, KeysOf, NextKey, Spellings, Key
<1>3. KnownInv'
  BY <1>1, <1>2 DEF Unregistered, ReportInv, KnownInv
<1>4. CheckedInv'
  BY DEF Unregistered, ReportInv, CheckedInv, Doc
<1>5. QED
  BY <1>3, <1>4

LEMMA RequestReport ==
    ASSUME ReportInv, NEW c \in Clients, Arrive(c) \/ PassOn(c) \/ Run(c) \/ TurnAway(c)
    PROVE  ReportInv'
<1>1. BindInv' /\ Unregistered /\ known' = known /\ spelling' = spelling
  BY RequestInv DEF ReportInv, Arrive, PassOn, Run, TurnAway, registry
<1>2. KnownInv' /\ CheckedInv'
  BY <1>1, AsideKnown
<1>3. DroppedInv'
  <2>1. CASE Arrive(c)
    BY <2>1 DEF Arrive, ReportInv, DroppedInv
  <2>2. CASE PassOn(c) \/ Run(c) \/ TurnAway(c)
    BY <2>2 DEF PassOn, Run, TurnAway, router, ReportInv, DroppedInv
  <2>3. QED
    BY <2>1, <2>2
<1>4. ObservedIsDocumented'
  <2>1. CASE Arrive(c) \/ PassOn(c)
    <3>1. observed' = observed /\ records' = records
      BY <1>1, <2>1 DEF Arrive, PassOn, Unregistered
    <3>2. QED
      BY <3>1, ReportsStay DEF ReportInv
  <2>2. CASE Run(c)
    <3>1. PICK r, path : Observe(c, r, path) /\ (path = Documented(r) \/ (r.own /\ path = Doc(r)))
      BY <2>2 DEF Run
    <3>2. QED
      BY <1>1, <3>1, ReportIsNamed
  <2>3. CASE TurnAway(c)
    <3>1. CASE observed' = observed
      BY <1>1, <3>1, ReportsStay DEF ReportInv, Unregistered
    <3>2. CASE observed' # observed
      <4>1. PICK r : Observe(c, r, Documented(r))
        BY <2>3, <3>2 DEF TurnAway
      <4>2. QED
        BY <1>1, <4>1, ReportIsNamed
    <3>3. QED
      BY <3>1, <3>2
  <2>4. QED
    BY <2>1, <2>2, <2>3
<1>5. QED
  BY <1>1, <1>2, <1>3, <1>4 DEF ReportInv

LEMMA NextReport == ReportInv /\ [Next]_vars => ReportInv'
<1> SUFFICES ASSUME ReportInv, [Next]_vars PROVE ReportInv'
  OBVIOUS
<1>1. ASSUME NEW s \in sites, Register(s) PROVE ReportInv'
  BY <1>1, RegisterReport
<1>2. ASSUME NEW c \in Clients, Arrive(c) \/ PassOn(c) \/ Run(c) \/ TurnAway(c) PROVE ReportInv'
  BY <1>2, RequestReport
<1>3. CASE OtherSteps \/ UNCHANGED vars
  <2>1. UNCHANGED <<known, spelling, records, observed, dropped>> /\ Unregistered
    BY <1>3, OtherStepsAside DEF OtherSteps, Build, AdoptRead, AdoptCollect, AdoptReturn, registry,
                                 serving, router, vars, Unregistered
  <2>2. BindInv'
    BY <1>3, NextInv DEF ReportInv
  <2>3. KnownInv' /\ CheckedInv'
    BY <2>1, AsideKnown
  <2>4. ObservedIsDocumented' /\ DroppedInv'
    BY <2>1, ReportsStay DEF ReportInv, DroppedInv
  <2>5. QED
    BY <2>2, <2>3, <2>4 DEF ReportInv
<1>4. QED
  BY <1>1, <1>2, <1>3 DEF Next, OtherSteps

\* Record reports a route by the method and path of its document entry once
\* its registration has returned, whatever other engines, spellings and
\* requests interleave; only a Gin spelling that two records share names
\* another route, or none (ranRoute, remember, documentedPath, Table).
THEOREM ReportsNameTheEntry == Spec => []ObservedIsDocumented
<1>1. ReportInv => ObservedIsDocumented
  BY DEF ReportInv
<1>2. QED
  BY <1>1, InitReport, NextReport, PTL DEF Spec

(***************************************************************************)
(* What the routers have: every route is on the router of its site, and a  *)
(* registration that goes on has its route, or one on the same spot, on    *)
(* its router.  No two registrations behind a gate share an entry.         *)
(***************************************************************************)

OnRouter(s) ==
    \E t \in Elements(table[s.engine]) : SameSpot(t, s) /\ (s.kind \in {"gin", "fiber"} => t = s)

Underway(s) == s.own /\ s.kind \in Gated /\ phase[s] \notin {"idle", "failed"}

EnginesInv == \A e \in Engines : \A r \in Elements(table[e]) : r.engine = e

OnRouterInv == \A s \in sites : Underway(s) => OnRouter(s)

UniqueInv ==
    \A r, t \in records :
        r.kind \in Gated /\ t.kind \in Gated /\ r.method = t.method /\ Doc(r) = Doc(t) => r = t

RouterInv == EnginesInv /\ OnRouterInv /\ UniqueInv

\* Sites in terms of their types.
LEMMA SitesHaveTypes == TypeOK => \A s \in sites : s \in Sites /\ s \in SiteType
BY BindingAssumption DEF TypeOK, Sites

LEMMA AddToElements ==
    ASSUME BindInv, NEW s \in sites, AddTo(s), sites' = sites
    PROVE  /\ \A e \in Engines \ {s.engine} : table'[e] = table[e]
           /\ Elements(table'[s.engine]) = {r \in Elements(table[s.engine]) : ~Replaces(s, r)} \cup {s}
<1> DEFINE kept == Filter(table[s.engine], {r \in sites : ~Replaces(s, r)})
<1>1. s.engine \in Engines /\ table \in [Engines -> Seq(sites)]
  BY SitesHaveTypes DEF BindInv, TypeOK, TablesAreSequences, SiteType
<1>2. kept \in Seq(sites) /\ Elements(kept) = Elements(table[s.engine]) \cap {r \in sites : ~Replaces(s, r)}
  BY <1>1, FilterElements
<1>3. Elements(table[s.engine]) \subseteq sites
  BY <1>1, RequestsInSites
<1>4. table' = [table EXCEPT ![s.engine] = Append(kept, s)]
  BY DEF AddTo
<1> HIDE DEF kept
<1>5. Elements(Append(kept, s)) = Elements(kept) \cup {s}
  <2>1. Append(kept, s) \in Seq(sites) /\ DOMAIN Append(kept, s) = 1..(Len(kept) + 1) /\ Len(kept) \in Nat
        /\ DOMAIN kept = 1..Len(kept)
    BY <1>2
  <2>2. \A i \in 1..(Len(kept) + 1) : Append(kept, s)[i] = IF i <= Len(kept) THEN kept[i] ELSE s
    BY <1>2
  <2>3. 1..(Len(kept) + 1) = 1..Len(kept) \cup {Len(kept) + 1} /\ \A i \in 1..Len(kept) : i <= Len(kept)
    BY <2>1
  <2>4. Append(kept, s)[Len(kept) + 1] = s /\ \A i \in 1..Len(kept) : Append(kept, s)[i] = kept[i]
    BY <2>1, <2>2, <2>3
  <2>5. QED
    BY <2>1, <2>3, <2>4 DEF Elements
<1>6. table'[s.engine] = Append(kept, s) /\ \A e \in Engines \ {s.engine} : table'[e] = table[e]
  BY <1>1, <1>4
<1>7. QED
  BY <1>2, <1>3, <1>5, <1>6

\* A route goes on the router of s.
LEMMA AddedRouter ==
    ASSUME BindInv, RouterInv, NEW s \in sites, AddTo(s), sites' = sites, records' = records,
           \A r \in sites : Underway(r)' => Underway(r) \/ r = s
    PROVE  RouterInv'
<1>1. /\ \A e \in Engines \ {s.engine} : table'[e] = table[e]
      /\ Elements(table'[s.engine]) = {r \in Elements(table[s.engine]) : ~Replaces(s, r)} \cup {s}
  BY AddToElements
<1>2. s.engine \in Engines
  BY SitesHaveTypes DEF BindInv, TypeOK, SiteType
<1>3. EnginesInv'
  <2>1. ASSUME NEW e \in Engines, NEW r \in Elements(table'[e]) PROVE r.engine = e
    <3>1. (r = s /\ e = s.engine) \/ r \in Elements(table[e])
      BY <1>1, <1>2, <2>1
    <3>2. QED
      BY <3>1 DEF RouterInv, EnginesInv
  <2>2. QED
    BY <2>1 DEF EnginesInv, Elements
<1>4. ASSUME NEW r \in sites, Underway(r)' PROVE OnRouter(r)'
  <2> SUFFICES \E t \in Elements(table'[r.engine]) : SameSpot(t, r) /\ (r.kind \in {"gin", "fiber"} => t = r)
    BY DEF OnRouter, Elements, SameSpot
  <2>1. CASE r = s
    BY <1>1, <2>1 DEF SameSpot
  <2>2. CASE r # s
    <3>1. Underway(r)
      BY <1>4, <2>2
    <3>2. PICK t \in Elements(table[r.engine]) : SameSpot(t, r) /\ (r.kind \in {"gin", "fiber"} => t = r)
      BY <3>1 DEF RouterInv, OnRouterInv, OnRouter
    <3>3. r.engine \in Engines
      BY SitesHaveTypes DEF BindInv, TypeOK, SiteType
    <3>4. CASE t \in Elements(table'[r.engine])
      BY <3>2, <3>4
    <3>5. CASE t \notin Elements(table'[r.engine])
      <4>1. r.engine = s.engine /\ Replaces(s, t)
        BY <1>1, <3>2, <3>3, <3>5
      <4>2. r.kind = s.kind
        BY <4>1, SitesHaveTypes, BindingAssumption DEF BindInv
      <4>3. s \in Elements(table'[r.engine]) /\ SameSpot(s, r) /\ r.kind \notin {"gin", "fiber"}
        BY <1>1, <3>2, <4>1, <4>2 DEF Replaces, SameSpot
      <4>4. QED
        BY <4>3
    <3>6. QED
      BY <3>4, <3>5
  <2>3. QED
    BY <2>1, <2>2
<1>5. UniqueInv'
  BY DEF RouterInv, UniqueInv, Doc
<1>6. QED
  BY <1>3, <1>4, <1>5 DEF RouterInv, OnRouterInv

\* A step that adds no route to a router.
LEMMA SameRouter ==
    ASSUME RouterInv, sites' = sites, table' = table, UniqueInv',
           \A r \in sites : Underway(r)' => Underway(r)
    PROVE  RouterInv'
<1>1. \A r : OnRouter(r) => OnRouter(r)'
  BY DEF OnRouter, Elements, SameSpot
<1>2. QED
  BY <1>1 DEF RouterInv, EnginesInv, OnRouterInv, Elements

LEMMA RegisterRouter ==
    ASSUME BindInv, RouterInv, NEW s \in sites, Register(s)
    PROVE  RouterInv'
<1>1. phase \in [sites -> Phases] /\ sites' = sites
  BY DEF BindInv, TypeOK, Register, RejectEarly, TooLate, Mount, Record, Document, Stray,
         LoadOrStore, StoreShared, StoreRegistered, Open
<1>2. CASE Mount(s) /\ RouterAccepts(s)
  <2>1. AddTo(s) /\ records' = records /\ \A r \in sites \ {s} : phase'[r] = phase[r]
    BY <1>1, <1>2 DEF Mount, MoveTo
  <2>2. QED
    BY <1>1, <2>1, AddedRouter DEF Underway
<1>3. CASE Stray(s)
  <2>1. AddTo(s) /\ records' = records /\ \A r \in sites \ {s} : phase'[r] = phase[r]
    BY <1>1, <1>3 DEF Stray, MoveTo
  <2>2. QED
    BY <1>1, <2>1, AddedRouter DEF Underway
<1>4. CASE Record(s) /\ BinderAccepts(s)
  <2>1. table' = table /\ records' = records \cup {s} /\ phase[s] = "mounted" /\ \A r \in sites \ {s} : phase'[r] = phase[r]
    BY <1>1, <1>4 DEF Record, MoveTo, router
  <2>2. UniqueInv'
    <3>1. s.kind \in Gated => \A r \in records : ~(r.method = s.method /\ Doc(r) = Doc(s))
      BY <1>4 DEF BinderAccepts, Duplicate
    <3>2. QED
      BY <2>1, <3>1 DEF RouterInv, UniqueInv, Doc
  <2>3. \A r \in sites : Underway(r)' => Underway(r)
    BY <2>1 DEF Underway
  <2>4. QED
    BY <1>1, <2>1, <2>2, <2>3, SameRouter
<1>5. CASE Document(s)
  <2>1. /\ table' = table /\ records' = records \cup {s} /\ s.kind = "document" /\ s.kind \notin Gated
        /\ \A r \in sites \ {s} : phase'[r] = phase[r]
    BY <1>1, <1>5 DEF Document, MoveTo, router, Gated
  <2>2. UniqueInv'
    BY <2>1 DEF RouterInv, UniqueInv, Doc
  <2>3. \A r \in sites : Underway(r)' => Underway(r)
    BY <2>1 DEF Underway
  <2>4. QED
    BY <1>1, <2>1, <2>2, <2>3, SameRouter
<1>6. CASE \/ RejectEarly(s) \/ TooLate(s) \/ (Mount(s) /\ ~RouterAccepts(s)) \/ (Record(s) /\ ~BinderAccepts(s))
           \/ LoadOrStore(s) \/ StoreShared(s) \/ StoreRegistered(s) \/ Open(s)
  <2>1. table' = table /\ records' = records
    BY <1>6 DEF RejectEarly, TooLate, Mount, Record, LoadOrStore, StoreShared, StoreRegistered, Open, router
  <2>2. phase'[s] = "failed" \/ phase[s] \notin {"idle", "failed"}
    BY <1>1, <1>6 DEF RejectEarly, TooLate, Mount, Record, LoadOrStore, StoreShared, StoreRegistered, Open, MoveTo
  <2>3. \A r \in sites \ {s} : phase'[r] = phase[r]
    BY <1>1, <1>6 DEF RejectEarly, TooLate, Mount, Record, LoadOrStore, StoreShared, StoreRegistered, Open,
                      NextSpelling, MoveTo
  <2>4. \A r \in sites : Underway(r)' => Underway(r)
    BY <2>2, <2>3 DEF Underway
  <2>5. UniqueInv'
    BY <2>1 DEF RouterInv, UniqueInv, Doc
  <2>6. QED
    BY <1>1, <2>1, <2>4, <2>5, SameRouter
<1>7. QED
  BY <1>2, <1>3, <1>4, <1>5, <1>6 DEF Register

LEMMA InitRouter == Init => RouterInv
<1> SUFFICES ASSUME Init PROVE RouterInv
  OBVIOUS
<1>1. EnginesInv
  BY DEF Init, EnginesInv, Elements
<1>2. OnRouterInv
  BY DEF Init, OnRouterInv, Underway
<1>3. UniqueInv
  BY DEF Init, UniqueInv
<1>4. QED
  BY <1>1, <1>2, <1>3 DEF RouterInv

LEMMA NextRouter == BindInv /\ RouterInv /\ [Next]_vars => RouterInv'
<1> SUFFICES ASSUME BindInv, RouterInv, [Next]_vars PROVE RouterInv'
  OBVIOUS
<1>1. ASSUME NEW s \in sites, Register(s) PROVE RouterInv'
  BY <1>1, RegisterRouter
<1>2. ASSUME Unregistered PROVE RouterInv'
  <2>1. UniqueInv' /\ \A r \in sites : Underway(r)' => Underway(r)
    BY <1>2 DEF Unregistered, RouterInv, UniqueInv, Doc, Underway
  <2>2. QED
    BY <1>2, <2>1, SameRouter DEF Unregistered
<1>3. ASSUME NEW c \in Clients, Arrive(c) \/ PassOn(c) \/ Run(c) \/ TurnAway(c) PROVE RouterInv'
  BY <1>2, <1>3, RequestInv
<1>4. CASE OtherSteps \/ UNCHANGED vars
  <2>1. Unregistered
    BY <1>4, OtherStepsAside DEF vars, router, registry, Unregistered
  <2>2. QED
    BY <1>2, <2>1
<1>5. QED
  BY <1>1, <1>3, <1>4 DEF Next, OtherSteps

(***************************************************************************)
(* A documented route answers its requests.                                *)
(***************************************************************************)

\* A sequence starts with what comes first: Filter keeps the order.
LEMMA FilterStarts ==
    ASSUME NEW T, NEW seq \in Seq(T), NEW S, NEW k \in DOMAIN seq, seq[k] \in S,
           \A j \in DOMAIN seq : j < k => seq[j] \notin S
    PROVE  Filter(seq, S) # <<>> /\ Head(Filter(seq, S)) = seq[k]
<1> DEFINE upTo == CHOOSE f : f = [n \in 0..Len(seq) |-> FilterStep(seq, S, f, n)]
<1>1. Filter(seq, S) = upTo[Len(seq)]
  BY DEF Filter, FilterStep
<1>2. upTo = [n \in 0..Len(seq) |-> FilterStep(seq, S, upTo, n)]
  BY FilterExists
<1> HIDE DEF upTo
<1>3. \A n \in 0..Len(seq) : upTo[n] = FilterStep(seq, S, upTo, n)
  BY <1>2
<1> DEFINE Good(n) == IF n < k THEN upTo[n] = <<>>
                      ELSE upTo[n] \in Seq(T) /\ upTo[n] # <<>> /\ Head(upTo[n]) = seq[k]
           bad == {n \in 0..Len(seq) : ~Good(n)}
<1>4. bad = {}
  <2> SUFFICES ASSUME bad # {} PROVE FALSE
    OBVIOUS
  <2>1. PICK b \in bad : \A j \in bad : b <= j
    <3>1. bad \in SUBSET Nat
      OBVIOUS
    <3> HIDE DEF bad
    <3>2. QED
      BY <3>1, LeastNumber
  <2>2. b # 0
    <3>1. 0 \in 0..Len(seq) /\ 0 < k
      OBVIOUS
    <3>2. upTo[0] = <<>>
      BY <1>3, <3>1 DEF FilterStep
    <3>3. QED
      BY <3>1, <3>2
  <2>3. b - 1 \in 0..Len(seq) /\ b \in 1..Len(seq) /\ Good(b - 1)
    <3>1. b - 1 \in 0..Len(seq) /\ b \in 1..Len(seq) /\ ~(b <= b - 1)
      BY <2>2
    <3>2. b - 1 \notin bad
      BY <2>1, <3>1
    <3>3. QED
      BY <3>1, <3>2
  <2> DEFINE s == upTo[b - 1]
  <2>4. upTo[b] = IF seq[b] \in S THEN Append(s, seq[b]) ELSE s
    BY <1>3, <2>2, <2>3 DEF FilterStep
  <2>5. seq[b] \in T /\ seq[k] \in T
    BY <2>3
  <2>6. CASE b < k
    <3>1. seq[b] \notin S /\ s = <<>>
      BY <2>3, <2>6
    <3>2. QED
      BY <2>4, <2>6, <3>1
  <2>7. CASE b = k
    <3>1. s = <<>> /\ upTo[b] = Append(s, seq[k])
      BY <2>3, <2>4, <2>7
    <3>2. upTo[b] = <<seq[k]>>
      BY <3>1
    <3>3. upTo[b] \in Seq(T) /\ upTo[b] # <<>> /\ Head(upTo[b]) = seq[k]
      BY <2>5, <3>2
    <3>4. QED
      BY <2>7, <3>3
  <2>8. CASE b > k
    <3>1. s \in Seq(T) /\ s # <<>> /\ Head(s) = seq[k]
      BY <2>3, <2>8
    <3> HIDE DEF s
    <3>2. Append(s, seq[b]) \in Seq(T) /\ Append(s, seq[b]) # <<>> /\ Head(Append(s, seq[b])) = Head(s)
      BY <2>5, <3>1
    <3>3. upTo[b] \in Seq(T) /\ upTo[b] # <<>> /\ Head(upTo[b]) = seq[k]
      <4>1. CASE seq[b] \in S
        BY <2>4, <3>1, <3>2, <4>1
      <4>2. CASE seq[b] \notin S
        BY <2>4, <3>1, <4>2
      <4>3. QED
        BY <4>1, <4>2
    <3>4. ~(b < k)
      BY <2>8
    <3>5. QED
      BY <3>3, <3>4
  <2>9. QED
    BY <2>3, <2>6, <2>7, <2>8
<1>5. Good(Len(seq)) /\ k <= Len(seq)
  BY <1>4
<1>6. QED
  BY <1>1, <1>5

\* The first of two sequences goes first.
LEMMA FilterFirstOfBoth ==
    ASSUME NEW T, NEW s \in Seq(T), NEW t \in Seq(T), NEW S, NEW x \in Elements(s), x \in S
    PROVE  Filter(s \o t, S) # <<>> /\ Head(Filter(s \o t, S)) \in Elements(s) \cap S
<1> DEFINE both == s \o t
           kept == {j \in DOMAIN both : both[j] \in S}
<1>1. both \in Seq(T) /\ DOMAIN both = 1..(Len(s) + Len(t)) /\ \A i \in DOMAIN s : i \in DOMAIN both /\ both[i] = s[i]
  OBVIOUS
<1>2. PICK i \in DOMAIN s : s[i] = x
  BY DEF Elements
<1>3. kept \in SUBSET Nat /\ i \in kept
  BY <1>1, <1>2
<1>4. PICK k \in kept : \A j \in kept : k <= j
  <2> HIDE DEF kept
  <2>1. QED
    BY <1>3, LeastNumber
<1>5. k \in DOMAIN s /\ both[k] = s[k]
  <2>1. k <= i /\ k \in 1..(Len(s) + Len(t)) /\ i \in 1..Len(s)
    BY <1>1, <1>2, <1>3, <1>4
  <2>2. k \in DOMAIN s
    BY <2>1
  <2>3. QED
    BY <1>1, <2>2
<1>6. k \in DOMAIN both /\ both[k] \in S /\ \A j \in DOMAIN both : j < k => both[j] \notin S
  <2>1. \A j \in DOMAIN both : j < k => ~(k <= j)
    BY <1>1, <1>4
  <2>2. QED
    BY <1>4, <2>1
<1> HIDE DEF both, kept
<1>7. Filter(both, S) # <<>> /\ Head(Filter(both, S)) = both[k]
  BY <1>1, <1>6, FilterStarts
<1>8. QED
  BY <1>5, <1>6, <1>7 DEF both, Elements

\* The narrowest route is one that no other is narrower than.
LEMMA NarrowestIsNarrow ==
    ASSUME NEW T, NEW rs \in Seq(T), rs # <<>>
    PROVE  /\ Narrowest(rs) # <<>>
           /\ Head(Narrowest(rs)) \in Elements(rs)
           /\ \A t \in Elements(rs) : ~Narrower(t, Head(Narrowest(rs)))
<1> DEFINE Beats(i, j) == /\ Takes[rs[i].path] \subseteq Takes[rs[j].path]
                          /\ (Takes[rs[j].path] \subseteq Takes[rs[i].path] => i > j)
           less == {p \in (1..Len(rs)) \X (1..Len(rs)) : Beats(p[1], p[2])}
           best == CHOOSE i \in DOMAIN rs : \A j \in DOMAIN rs : ~Beats(j, i)
<1>1. DOMAIN rs = 1..Len(rs) /\ Len(rs) \in Nat \ {0}
  OBVIOUS
<1>2. \A i, j \in 1..Len(rs) : <<i, j>> \in less <=> Beats(i, j)
  OBVIOUS
<1>3. \A i \in 1..Len(rs) : <<i, i>> \notin less
  BY <1>1
<1>4. \A i, j, k \in 1..Len(rs) : Beats(i, j) /\ Beats(j, k) => Beats(i, k)
  BY <1>1
<1>5. \A i, j \in 1..Len(rs) : Narrower(rs[i], rs[j]) => Beats(i, j)
  BY DEF Narrower
<1> HIDE DEF Beats
<1>6. \A i, j, k \in 1..Len(rs) : <<i, j>> \in less /\ <<j, k>> \in less => <<i, k>> \in less
  BY <1>2, <1>4
<1>7. \E i \in 1..Len(rs) : \A j \in 1..Len(rs) : <<j, i>> \notin less
  <2> HIDE DEF less
  <2>1. QED
    BY <1>1, <1>3, <1>6, Unbeaten
<1>8. \E i \in DOMAIN rs : \A j \in DOMAIN rs : ~Beats(j, i)
  BY <1>1, <1>2, <1>7
<1>9. best \in DOMAIN rs /\ \A j \in DOMAIN rs : ~Beats(j, best)
  BY <1>8
<1>10. Narrowest(rs) = <<rs[best]>>
  BY DEF Narrowest, Beats
<1> HIDE DEF best
<1>11. Narrowest(rs) # <<>> /\ Head(Narrowest(rs)) = rs[best] /\ rs[best] \in Elements(rs)
  BY <1>9, <1>10 DEF Elements
<1>12. \A t \in Elements(rs) : ~Narrower(t, rs[best])
  BY <1>1, <1>5, <1>9 DEF Elements
<1>13. QED
  BY <1>11, <1>12

\* A route whose registration returned: its router takes its requests.
LEMMA BoundRoute ==
    ASSUME ReportInv, RouterInv, NEW s \in bound, NEW target \in Takes[s.path]
    PROVE  /\ s \in sites /\ s \in records /\ s.own /\ s.kind \in Gated /\ s.engine \in Engines
           /\ \A r \in Elements(table[s.engine]) : r \in sites /\ r.kind = s.kind
           /\ Matching(s.engine, s.method, target) \in Seq(sites)
           /\ \E t \in Elements(Matching(s.engine, s.method, target)) :
                SameSpot(t, s) /\ (s.kind \in {"gin", "fiber"} => t = s)
<1>1. s \in sites /\ s \in records /\ s.own /\ phase[s] = "done"
  BY DEF ReportInv, BindInv, RecordsInv
<1>2. s.kind \in Gated
  BY <1>1 DEF ReportInv, BindInv, RecordsInv
<1>3. s.engine \in Engines /\ table \in [Engines -> Seq(sites)]
  BY <1>1, SitesHaveTypes DEF ReportInv, BindInv, TypeOK, TablesAreSequences, SiteType
<1>4. ASSUME NEW r \in Elements(table[s.engine]) PROVE r \in sites /\ r.kind = s.kind
  <2>1. r \in sites /\ r.engine = s.engine
    BY <1>3, RequestsInSites DEF ReportInv, RouterInv, EnginesInv
  <2>2. QED
    BY <1>1, <2>1, SitesHaveTypes, BindingAssumption DEF ReportInv, BindInv
<1> DEFINE taking == {r \in sites : r.method \in {s.method, AnyMethod} /\ target \in Takes[r.path]}
<1>5. Matching(s.engine, s.method, target) \in Seq(sites)
      /\ Elements(Matching(s.engine, s.method, target)) = Elements(table[s.engine]) \cap taking
  BY <1>3, FilterElements DEF Matching
<1>6. PICK t \in Elements(table[s.engine]) : SameSpot(t, s) /\ (s.kind \in {"gin", "fiber"} => t = s)
  <2>1. OnRouter(s)
    BY <1>1, <1>2 DEF RouterInv, OnRouterInv, Underway
  <2>2. QED
    BY <2>1 DEF OnRouter
<1>7. t \in taking
  BY <1>4, <1>6 DEF SameSpot
<1>8. QED
  BY <1>1, <1>2, <1>3, <1>4, <1>5, <1>6, <1>7

\* A route that answers where s could have: a registration behind an open gate
\* has the method of s, and another entry unless it is s.
LEMMA OtherEntry ==
    ASSUME ReportInv, RouterInv, NEW s \in bound, s.kind \in Gated, NEW r \in bound, r.kind = s.kind,
           r.method \in {s.method, AnyMethod}
    PROVE  r = s \/ (r \in records /\ Doc(r) # Doc(s))
<1>1. r \in records /\ s \in records /\ r.own
  BY DEF ReportInv, BindInv, RecordsInv
<1>2. r.method # AnyMethod
  BY <1>1, OpenRoute
<1>3. QED
  BY <1>1, <1>2 DEF RouterInv, UniqueInv

LEMMA RouteAnswers ==
    ASSUME ReportInv, RouterInv, NEW s \in bound, NEW target \in Takes[s.path]
    PROVE  LET rs == Answers(s.engine, s.method, target)
               r == Head(rs)
           IN  /\ rs # <<>>
               /\ \/ r = s
                  \/ ~r.own
                  \/ r \in records /\ Doc(r) # Doc(s)
                  \/ Closed(r) /\ r.kind \in {"gin", "echo", "echov4"} /\ ~Narrower(s, r)
<1> DEFINE e == s.engine
           rs == Matching(e, s.method, target)
           todo == Candidates(e, s.method, target)
           opened == {r \in sites : ~Closed(r)}
           kinds == {r.kind : r \in Elements(table[e])}
<1>1. /\ s \in sites /\ s \in records /\ s.own /\ s.kind \in Gated /\ e \in Engines
      /\ \A r \in Elements(table[e]) : r \in sites /\ r.kind = s.kind
      /\ rs \in Seq(sites)
  BY BoundRoute
<1>2. PICK t \in Elements(rs) : SameSpot(t, s) /\ (s.kind \in {"gin", "fiber"} => t = s)
  BY BoundRoute
<1>3. Elements(rs) = Elements(table[e]) \cap {r \in sites : r.method \in {s.method, AnyMethod} /\ target \in Takes[r.path]}
  <2>1. table[e] \in Seq(sites)
    BY <1>1 DEF ReportInv, BindInv, TypeOK, TablesAreSequences
  <2>2. QED
    BY <2>1, FilterElements DEF Matching
<1>4. kinds = {s.kind}
  BY <1>1, <1>2, <1>3
<1>5. s \in opened
  BY <1>1 DEF Closed
<1>6. Answers(e, s.method, target) =
        IF todo # <<>> /\ Head(todo).kind = "fiber" THEN Filter(todo, opened) ELSE todo
  BY DEF Answers
<1>7. \A r \in opened : r.own /\ r.kind \in Gated => r \in bound
  BY DEF Closed
<1>8. \A r \in Elements(todo) : r \in Elements(table[e])
  BY <1>1, CandidatesFromTable DEF ReportInv, BindInv, TypeOK
<1>9. todo = CASE kinds = {"fiber"} -> rs \o (IF s.method = "HEAD" THEN Matching(e, "GET", target) ELSE <<>>)
               [] kinds = {"gorilla"} -> SubSeq(rs, 1, IF rs = <<>> THEN 0 ELSE 1)
               [] OTHER -> Narrowest(rs)
  BY DEF Candidates
<1>10. CASE s.kind = "fiber"
  <2> DEFINE more == IF s.method = "HEAD" THEN Matching(e, "GET", target) ELSE <<>>
  <2>1. more \in Seq(sites)
    <3>1. table[e] \in Seq(sites)
      BY <1>1 DEF ReportInv, BindInv, TypeOK, TablesAreSequences
    <3>2. Matching(e, "GET", target) \in Seq(sites)
      BY <3>1, FilterElements DEF Matching
    <3>3. QED
      BY <3>2
  <2>2. todo = rs \o more
    BY <1>4, <1>9, <1>10
  <2> HIDE DEF rs, more, opened, todo
  <2>3. s \in Elements(rs)
    BY <1>2, <1>10
  <2>4. Filter(todo, opened) # <<>> /\ Head(Filter(todo, opened)) \in Elements(rs) \cap opened
    BY <1>1, <1>5, <2>1, <2>2, <2>3, FilterFirstOfBoth
  <2>5. todo # <<>> /\ Head(todo) \in Elements(todo)
    <3>1. todo \in Seq(sites) /\ (rs # <<>> => todo # <<>>) /\ rs # <<>>
      BY <1>1, <2>1, <2>2, <2>3 DEF Elements
    <3>2. QED
      BY <3>1 DEF Elements
  <2>6. Head(todo).kind = "fiber"
    BY <1>1, <1>8, <1>10, <2>5
  <2> DEFINE r == Head(Filter(todo, opened))
  <2>7. Answers(e, s.method, target) = Filter(todo, opened)
    BY <1>6, <2>5, <2>6
  <2>8. r.method \in {s.method, AnyMethod} /\ r.kind = s.kind /\ r \in opened
    BY <1>1, <1>3, <2>4
  <2>9. r.own => r = s \/ (r \in records /\ Doc(r) # Doc(s))
    <3> HIDE DEF r
    <3>1. r.own => r \in bound
      BY <1>1, <1>7, <2>8
    <3>2. QED
      BY <1>1, <2>8, <3>1, OtherEntry
  <2>10. QED
    BY <2>4, <2>7, <2>9
<1>11. CASE s.kind # "fiber"
  <2>1. s.kind \in {"gin", "echo", "echov4"} /\ todo = Narrowest(rs)
    BY <1>1, <1>4, <1>9, <1>11 DEF Gated
  <2>2. rs # <<>>
    BY <1>2 DEF Elements
  <2> HIDE DEF rs, todo, opened
  <2>3. todo # <<>> /\ Head(todo) \in Elements(rs) /\ \A u \in Elements(rs) : ~Narrower(u, Head(todo))
    BY <1>1, <2>1, <2>2, NarrowestIsNarrow
  <2>4. PICK r \in Elements(rs) : r = Head(todo)
    BY <2>3
  <2>5. r \in sites /\ r.kind = s.kind /\ r.method \in {s.method, AnyMethod}
    BY <1>1, <1>3
  <2>6. Answers(e, s.method, target) = todo
    BY <1>6, <1>11, <2>4, <2>5
  <2>7. ~Narrower(s, r)
    <3>1. t.path = s.path
      BY <1>2 DEF SameSpot
    <3>2. ~Narrower(t, r)
      BY <2>3, <2>4
    <3>3. QED
      BY <3>1, <3>2 DEF Narrower
  <2>8. CASE Closed(r)
    BY <2>1, <2>3, <2>4, <2>5, <2>6, <2>7, <2>8
  <2>9. CASE ~Closed(r) /\ r.own
    <3>1. r \in bound
      BY <1>1, <1>7, <2>5, <2>9 DEF opened
    <3>2. r = s \/ (r \in records /\ Doc(r) # Doc(s))
      BY <1>1, <2>5, <3>1, OtherEntry
    <3>3. QED
      BY <2>3, <2>4, <2>6, <3>2
  <2>10. QED
    BY <2>3, <2>4, <2>6, <2>8, <2>9
<1>12. QED
  BY <1>10, <1>11

\* A documented route whose registration returned answers its requests, on
\* every router, in every program and interleaving: what hides it is a stray,
\* a documented route of another path, or the closed gate of a registration on
\* a path that is no broader (Bind's check for duplicates, the gates).
THEOREM DocumentedAnswers == Spec => []RecordedAnswers
<1>1. Init => ReportInv /\ RouterInv
  BY InitReport, InitRouter
<1>2. ReportInv /\ RouterInv /\ [Next]_vars => (ReportInv /\ RouterInv)'
  BY NextReport, NextRouter DEF ReportInv
<1>3. ReportInv /\ RouterInv => RecordedAnswers
  BY RouteAnswers DEF RecordedAnswers
<1>4. QED
  BY <1>1, <1>2, <1>3, PTL DEF Spec

(***************************************************************************)
(* Echo v4: registered has the routes of its binder once they are through. *)
(***************************************************************************)

RegisteredInv ==
    /\ registered \subseteq records
    /\ \A s \in registered : s.kind = "echov4"
    /\ \A s \in sites : s.own /\ s.kind = "echov4" /\ phase[s] \in {"open", "done"} => s \in registered

LEMMA RegisterRegistered ==
    ASSUME ReportInv, RegisteredInv, NEW s \in sites, Register(s)
    PROVE  RegisteredInv'
<1>1. phase \in [sites -> Phases] /\ sites' = sites /\ records \subseteq records'
      /\ \A r \in sites \ {s} : phase'[r] = phase[r]
  BY DEF ReportInv, BindInv, TypeOK, Register, RejectEarly, TooLate, Mount, Record, Document, Stray,
         LoadOrStore, StoreShared, StoreRegistered, Open, NextSpelling, MoveTo
<1>2. CASE StoreRegistered(s)
  <2>1. phase[s] = "store" /\ registered' = registered \cup {s}
    BY <1>2 DEF StoreRegistered
  <2>2. s \in records /\ s.kind = "echov4"
    BY <2>1 DEF ReportInv, BindInv, RecordsInv, Recorded, KnownInv
  <2>3. QED
    BY <1>1, <2>1, <2>2 DEF RegisteredInv
<1>3. CASE ~StoreRegistered(s)
  <2>1. registered' = registered
    BY <1>3 DEF Register, RejectEarly, TooLate, Mount, Record, Document, Stray, LoadOrStore, StoreShared, Open
  <2>2. s.own /\ s.kind = "echov4" /\ phase'[s] \in {"open", "done"} => phase[s] \in {"open", "done"}
    <3>1. CASE RejectEarly(s) \/ TooLate(s) \/ Mount(s)
      BY <1>1, <3>1 DEF RejectEarly, TooLate, Mount, MoveTo
    <3>2. CASE Record(s)
      BY <1>1, <3>2 DEF Record, MoveTo, AfterBind
    <3>3. CASE Document(s) \/ Stray(s)
      BY <3>3 DEF Document, Stray
    <3>4. CASE LoadOrStore(s) \/ StoreShared(s)
      BY <3>4 DEF LoadOrStore, StoreShared, ReportInv, KnownInv
    <3>5. CASE Open(s)
      BY <3>5 DEF Open
    <3>6. QED
      BY <1>3, <3>1, <3>2, <3>3, <3>4, <3>5 DEF Register
  <2>3. QED
    BY <1>1, <2>1, <2>2 DEF RegisteredInv
<1>4. QED
  BY <1>2, <1>3

LEMMA NextRegistered == ReportInv /\ RegisteredInv /\ [Next]_vars => RegisteredInv'
<1> SUFFICES ASSUME ReportInv, RegisteredInv, [Next]_vars PROVE RegisteredInv'
  OBVIOUS
<1>1. ASSUME NEW s \in sites, Register(s) PROVE RegisteredInv'
  BY <1>1, RegisterRegistered
<1>2. ASSUME Unregistered, registered' = registered PROVE RegisteredInv'
  BY <1>2 DEF Unregistered, RegisteredInv
<1>3. ASSUME NEW c \in Clients, Arrive(c) \/ PassOn(c) \/ Run(c) \/ TurnAway(c) PROVE RegisteredInv'
  <2>1. Unregistered /\ registered' = registered
    BY <1>3, RequestInv DEF ReportInv, Arrive, PassOn, Run, TurnAway, registry
  <2>2. QED
    BY <1>2, <2>1
<1>4. CASE OtherSteps \/ UNCHANGED vars
  <2>1. Unregistered /\ registered' = registered
    BY <1>4, OtherStepsAside DEF OtherSteps, Build, AdoptRead, AdoptCollect, AdoptReturn, vars, router,
                                 registry, Unregistered
  <2>2. QED
    BY <1>2, <2>1
<1>5. QED
  BY <1>1, <1>3, <1>4 DEF Next, OtherSteps

(***************************************************************************)
(* An Adopt that no registration overlaps.  While it is quiet only the     *)
(* requests go on, and Gin renames its routes.                             *)
(***************************************************************************)

Looking == adopt.state \in {"looking", "done"}

AdoptShape ==
    \/ adopt = NoAdopt
    \/ /\ Looking
       /\ adopt = [state |-> adopt.state, app |-> adopt.app, quiet |-> adopt.quiet, seen |-> adopt.seen,
                   skipped |-> adopt.skipped, todo |-> adopt.todo, strays |-> adopt.strays]
       /\ adopt.state = "done" => adopt.todo = {}

\* The key of r in the document, as its site has it.
OwnKey(r) == Key(r.method, TablePath(r.kind, r.path))

\* A key that Adopt can have read for r.
KeyAs(r, path) ==
    LET key == Key(r.method, path)
    IN  Key(r.method, IF r.kind = "gin" /\ key \in DOMAIN known /\ known[key] # Shared
                      THEN known[key] ELSE TablePath(r.kind, path))

ReadKey(r, key) == key = KeyAs(r, r.path) \/ (r \in dropped /\ key = KeyAs(r, Unescaped[r.path]))

\* What the report may say of r: that it is a stray, or that it is none.
MayReport(r) ==
    InDocument(r) /\ r.method # AnyMethod => (r.kind = "gin" /\ Shared \in Elements(known)) \/ Contested(r)

MayPass(r) ==
    \/ InDocument(r) /\ r.method # AnyMethod
    \/ \E rec \in sites : MistakenFor(r, rec) /\ ~ToldApart(adopt.app, r, rec)

\* The routes of a host router that have the key of a registered route.
HasTwin(r) ==
    /\ r.kind = "echov4" /\ r.engine # EnginesOf[adopt.app][1]
    /\ \E q \in adopt.seen \cap registered : OwnKey(q) = OwnKey(r)

Reported(r) ==
    /\ r \in adopt.strays => MayReport(r)
    /\ \/ r \in adopt.strays
       \/ r \in adopt.skipped
       \/ \E entry \in adopt.todo : entry.site = r
       \/ MayPass(r)

QuietInv ==
    /\ adopt.app \in Apps
    /\ \A s \in sites : Settled(s)
    /\ adopt.seen = Tables(adopt.app)
    /\ \A entry \in adopt.todo : entry.site \in adopt.seen /\ ReadKey(entry.site, entry.key)
    /\ \A r \in adopt.seen \ registered : HasTwin(r) => r \in adopt.strays \cup adopt.skipped
    /\ \A r \in adopt.seen : r \in records \/ ~Renamed(r) => Reported(r)

AdoptInv == AdoptShape /\ (Looking /\ adopt.quiet => QuietInv)

ExactInv == ReportInv /\ RouterInv /\ RegisteredInv /\ AdoptInv

\* Every step of a registration disturbs an Adopt.
LEMMA DisturbAdopt ==
    ASSUME AdoptInv, Disturb
    PROVE  AdoptInv'
<1>1. CASE adopt = NoAdopt
  <2>1. adopt' = NoAdopt /\ adopt'.state = "none"
    BY <1>1 DEF Disturb, NoAdopt
  <2>2. QED
    BY <2>1 DEF AdoptInv, AdoptShape, Looking
<1>2. CASE adopt # NoAdopt
  <2>1. adopt' = [adopt EXCEPT !.quiet = FALSE]
    BY <1>2 DEF Disturb
  <2>2. /\ adopt'.quiet = FALSE /\ adopt'.state = adopt.state /\ adopt'.todo = adopt.todo
        /\ adopt' = [state |-> adopt.state, app |-> adopt.app, quiet |-> FALSE, seen |-> adopt.seen,
                     skipped |-> adopt.skipped, todo |-> adopt.todo, strays |-> adopt.strays]
    BY <1>2, <2>1 DEF AdoptInv, AdoptShape
  <2>3. AdoptShape'
    BY <1>2, <2>2 DEF AdoptInv, AdoptShape, Looking
  <2>4. QED
    BY <2>2, <2>3 DEF AdoptInv
<1>3. QED
  BY <1>1, <1>2

LEMMA RegisterDisturbs == \A s : Register(s) => Disturb
BY DEF Register, RejectEarly, TooLate, Mount, Record, Document, Stray, LoadOrStore, StoreShared,
       StoreRegistered, Open, NextSpelling, MoveTo

\* Steps of requests: dropped may grow, the rest stays.
LEMMA QuietStays ==
    ASSUME ReportInv, AdoptInv, Unregistered, adopt' = adopt, known' = known, registered' = registered,
           dropped \subseteq dropped'
    PROVE  AdoptInv'
<1>1. AdoptShape'
  BY DEF AdoptInv, AdoptShape, Looking
<1>2. ASSUME Looking, adopt.quiet, QuietInv PROVE QuietInv'
  <2>1. Tables(adopt.app)' = Tables(adopt.app) /\ \A s : Settled(s)' = Settled(s)
    BY DEF Unregistered, Tables, Settled, Elements
  <2>2. \A r, key : ReadKey(r, key) => ReadKey(r, key)'
    BY DEF ReadKey, KeyAs, Key
  <2>3. \A r : /\ HasTwin(r)' = HasTwin(r)
               /\ InDocument(r)' = InDocument(r)
               /\ Contested(r)' = Contested(r)
    BY DEF HasTwin, OwnKey, InDocument, Contested, Unregistered, Key, Doc, TablePath
  <2>4. \A r : \A rec : MistakenFor(r, rec)' = MistakenFor(r, rec)
    BY DEF MistakenFor, Unregistered, Doc, TablePath, Spellings, Elements
  <2>5. \A r, rec : ToldApart(adopt.app, r, rec)' = ToldApart(adopt.app, r, rec)
    BY <2>1 DEF ToldApart
  <2>6. \A r : (MayReport(r) => MayReport(r)') /\ (MayPass(r) => MayPass(r)')
    BY <2>3, <2>4, <2>5 DEF MayReport, MayPass, Unregistered, Elements
  <2>7. \A r : Reported(r) => Reported(r)'
    BY <2>6 DEF Reported
  <2>8. \A r : ~Renamed(r)' => ~Renamed(r)
    BY DEF Renamed, TablePath
  <2>9. QED
    BY <1>2, <2>1, <2>2, <2>3, <2>7, <2>8 DEF QuietInv, Unregistered
<1>3. QED
  BY <1>1, <1>2 DEF AdoptInv, Looking

(***************************************************************************)
(* The routes that an Adopt sees.                                          *)
(***************************************************************************)

LEMMA SeenRoute ==
    ASSUME ReportInv, RouterInv, NEW app \in Apps, NEW r \in Tables(app)
    PROVE  /\ r \in sites /\ r \in Sites /\ r.kind \in Gated \cup {"gorilla"} /\ Placed(r)
           /\ \A q \in Tables(app) : q.kind = r.kind
<1>1. EnginesOf[app] \in Seq(Engines)
  BY BindingAssumption
<1>2. \A e \in Elements(EnginesOf[app]) : e \in Engines
  BY <1>1 DEF Elements
<1>3. ASSUME NEW q \in Tables(app)
      PROVE  q \in sites /\ q \in Sites /\ q.engine \in Elements(EnginesOf[app]) /\ Placed(q)
  <2>1. PICK e \in Elements(EnginesOf[app]) : q \in Elements(table[e])
    BY DEF Tables
  <2>2. e \in Engines
    BY <1>2
  <2>3. q.engine = e
    BY <2>1, <2>2 DEF RouterInv, EnginesInv
  <2>4. q \in sites /\ Placed(q)
    BY <2>1, <2>2, RequestsInSites DEF ReportInv, BindInv, PlacedInv
  <2>5. QED
    BY <2>1, <2>3, <2>4, SitesHaveTypes DEF ReportInv, BindInv
<1>4. \A s, t \in Sites : s.engine \in Elements(EnginesOf[app]) /\ t.engine \in Elements(EnginesOf[app]) =>
          s.kind = t.kind /\ s.kind \in Gated \cup {"gorilla"}
  <2>1. Elements(EnginesOf[app]) = {EnginesOf[app][i] : i \in DOMAIN EnginesOf[app]}
    BY DEF Elements
  <2>2. \A s, t \in Sites : {s.engine, t.engine} \subseteq Elements(EnginesOf[app]) =>
          s.kind = t.kind /\ s.kind \in Gated \cup {"gorilla"}
    BY <2>1, BindingAssumption
  <2>3. QED
    BY <2>2
<1>5. QED
  BY <1>3, <1>4

\* A record of an app, when no registration is under way.
LEMMA SettledRecord ==
    ASSUME ReportInv, RegisteredInv, NEW r \in records, Settled(r)
    PROVE  /\ r \in sites /\ r.own /\ phase[r] = "done" /\ r.method # AnyMethod
           /\ r.kind \in Gated => OwnKey(r) = Key(r.method, Doc(r))
           /\ r.kind = "echov4" => r \in registered
           /\ r.kind = "gin" => KeysOf(r) \subseteq DOMAIN known
<1>1. r \in sites /\ r.own /\ phase[r] \in Recorded
  BY DEF ReportInv, BindInv, RecordsInv
<1>2. phase[r] = "done"
  BY <1>1 DEF Settled, Recorded
<1>3. r.method # AnyMethod /\ (r.kind \in Gated => Doc(r) # Bad)
  BY BindingAssumption DEF ReportInv, CheckedInv
<1>4. r.kind \in Gated => OwnKey(r) = Key(r.method, Doc(r))
  BY <1>3 DEF OwnKey, TablePath, Doc
<1>5. r.kind = "echov4" => r \in registered
  BY <1>1, <1>2 DEF RegisteredInv
<1>6. r.kind = "gin" => KeysOf(r) \subseteq DOMAIN known
  BY <1>1, <1>2 DEF ReportInv, KnownInv, Remembered
<1>7. QED
  BY <1>1, <1>2, <1>3, <1>4, <1>5, <1>6

\* A Gin record whose spelling the path of r is.
SharesSpelling(r, t) == t.method = r.method /\ Elements(Spellings(t)) \cap Elements(Spellings(r)) # {}

LEMMA ElementsOfSpellings == \A s : Elements(Spellings(s)) = {s.path, Unescaped[s.path]}
<1>1. ASSUME NEW s PROVE Elements(Spellings(s)) = {s.path, Unescaped[s.path]}
  <2>1. DOMAIN Spellings(s) = {1, 2} /\ Spellings(s)[1] = s.path /\ Spellings(s)[2] = Unescaped[s.path]
    BY DEF Spellings
  <2>2. QED
    BY <2>1 DEF Elements
<1>2. QED
  BY <1>1

\* The key that documentedPath gives a Gin route under one of its spellings.
LEMMA KnownKey ==
    ASSUME ReportInv, NEW r, NEW path \in {r.path, Unescaped[r.path]}, Key(r.method, path) \in DOMAIN known,
           known[Key(r.method, path)] # Shared
    PROVE  \E t \in GinRecords : SharesSpelling(r, t) /\ known[Key(r.method, path)] = Doc(t)
<1> DEFINE key == Key(r.method, path)
<1>1. Explained(key)
  BY DEF ReportInv, KnownInv
<1>2. PICK t \in GinRecords : key \in KeysOf(t) /\ known[key] = Doc(t)
  BY <1>1 DEF Explained
<1>3. t.method = r.method /\ path \in {t.path, Unescaped[t.path]}
  BY <1>2 DEF KeysOf, Key
<1>4. QED
  BY <1>2, <1>3, ElementsOfSpellings DEF SharesSpelling

\* What a key read for r is.
LEMMA KeyRead ==
    ASSUME ReportInv, RegisteredInv, NEW r \in sites, Settled(r), NEW key, ReadKey(r, key)
    PROVE  \/ r.kind = "gin" /\ \E t \in GinRecords : SharesSpelling(r, t) /\ key = Key(t.method, Doc(t))
           \/ key = OwnKey(r)
           \/ r.kind = "gin" /\ r \in records /\ Shared \in Elements(known)
           \/ r \notin records /\ Renamed(r)
<1>1. CASE r.kind # "gin"
  <2>1. r \notin dropped
    BY <1>1 DEF ReportInv, DroppedInv
  <2>2. key = OwnKey(r)
    BY <1>1, <2>1 DEF ReadKey, KeyAs, OwnKey
  <2>3. QED
    BY <2>2
<1>2. CASE r.kind = "gin"
  <2>1. PICK path \in {r.path, Unescaped[r.path]} : key = KeyAs(r, path) /\ (path = r.path \/ r \in dropped)
    BY DEF ReadKey
  <2> DEFINE look == Key(r.method, path)
  <2>2. CASE look \in DOMAIN known /\ known[look] # Shared
    <3>1. PICK t \in GinRecords : SharesSpelling(r, t) /\ known[look] = Doc(t)
      BY <2>2, KnownKey
    <3>2. key = Key(t.method, Doc(t))
      BY <1>2, <2>1, <2>2, <3>1 DEF KeyAs, SharesSpelling
    <3>3. QED
      BY <1>2, <3>1, <3>2
  <2>3. CASE ~(look \in DOMAIN known /\ known[look] # Shared)
    <3>1. key = Key(r.method, TablePath(r.kind, path))
      BY <2>1, <2>3 DEF KeyAs
    <3>2. CASE path = r.path
      BY <3>1, <3>2 DEF OwnKey
    <3>3. CASE path # r.path /\ r \notin records
      <4>1. path = Unescaped[r.path] /\ r \in dropped
        BY <2>1, <3>3
      <4>2. QED
        BY <3>1, <3>3, <4>1 DEF OwnKey, Renamed
    <3>4. CASE path # r.path /\ r \in records
      <4>1. look \in KeysOf(r)
        BY DEF KeysOf
      <4>2. look \in DOMAIN known
        BY <1>2, <3>4, <4>1, SettledRecord
      <4>3. known[look] = Shared
        BY <2>3, <4>2
      <4>4. Shared \in Elements(known)
        BY <4>2, <4>3 DEF Elements
      <4>5. QED
        BY <1>2, <3>4, <4>4
    <3>5. QED
      BY <3>2, <3>3, <3>4
  <2>4. QED
    BY <2>2, <2>3
<1>3. QED
  BY <1>1, <1>2

(***************************************************************************)
(* One entry of the report.                                                *)
(***************************************************************************)

\* Document names the path of no gorilla template that failed its check.
LEMMA TemplateUnnamed ==
    ASSUME ReportInv, NEW r \in sites, r.kind = "gorilla", Doc(r) = Bad,
           NEW rec \in records, rec.kind = "document"
    PROVE  Key(rec.method, Doc(rec)) # OwnKey(r)
<1>1. rec \in sites
  BY DEF ReportInv, BindInv, RecordsInv
<1>2. Doc(rec) # Untranslated[r.path]
  BY <1>1, SitesHaveTypes, BindingAssumption DEF ReportInv, BindInv, Doc
<1>3. TablePath(r.kind, r.path) = Untranslated[r.path]
  BY DEF TablePath, Doc
<1>4. QED
  BY <1>2, <1>3 DEF Key, OwnKey

\* The record that lookup finds for a method and a path.
ByKey(key) == \E rec \in records : rec.kind \in Gated \cup {"document"} /\ Key(rec.method, Doc(rec)) = key

LEMMA LookupIs ==
    \A entry : Lookup(entry) <=> IF entry.site.kind = "gorilla" /\ entry.site.own
                                 THEN entry.site \in records ELSE ByKey(entry.key)
BY DEF Lookup, ByKey

\* A route that lookup does not find may be reported.
LEMMA UnfoundMayReport ==
    ASSUME ReportInv, RouterInv, RegisteredInv, QuietInv, NEW entry \in adopt.todo,
           entry.site \in records \/ ~Renamed(entry.site),
           entry.site.method = AnyMethod \/ ~Lookup(entry)
    PROVE  MayReport(entry.site)
<1> DEFINE r == entry.site
           key == entry.key
<1> SUFFICES ASSUME InDocument(r), r.method # AnyMethod, ~(r.kind = "gin" /\ Shared \in Elements(known))
             PROVE  FALSE
  BY DEF MayReport
<1>1. r \in Tables(adopt.app) /\ adopt.app \in Apps /\ ReadKey(r, key) /\ \A s \in sites : Settled(s)
  BY DEF QuietInv
<1>2. r \in sites /\ r.kind \in Gated \cup {"gorilla"} /\ Placed(r)
  BY <1>1, SeenRoute
<1>3. ~(IF r.kind = "gorilla" /\ r.own THEN r \in records ELSE ByKey(key))
  BY LookupIs
<1> HIDE DEF r, key
<1>4. ~(r \notin records /\ Renamed(r))
  BY DEF r
<1>5. CASE r.kind = "gin" /\ \E t \in GinRecords : SharesSpelling(r, t) /\ key = Key(t.method, Doc(t))
  <2>1. ByKey(key)
    BY <1>5 DEF ByKey, GinRecords, Gated
  <2>2. QED
    BY <1>3, <1>5, <2>1
<1>6. CASE key = OwnKey(r) /\ r \in records
  <2>1. r.own /\ (r.kind \in Gated => OwnKey(r) = Key(r.method, Doc(r)))
    BY <1>1, <1>2, <1>6, SettledRecord
  <2>2. CASE r.kind = "gorilla"
    BY <1>3, <1>6, <2>1, <2>2
  <2>3. CASE r.kind \in Gated
    <3>1. ByKey(key) /\ r.kind # "gorilla"
      BY <1>6, <2>1, <2>3 DEF ByKey, Gated
    <3>2. QED
      BY <1>3, <3>1
  <2>4. QED
    BY <1>2, <2>2, <2>3
<1>7. CASE key = OwnKey(r) /\ r \notin records
  <2>1. PICK rec \in records : rec.kind = "document" /\ Key(rec.method, Doc(rec)) = OwnKey(r)
    BY <1>7 DEF InDocument, OwnKey
  <2>2. ByKey(key)
    BY <1>7, <2>1 DEF ByKey
  <2>3. r.kind = "gorilla" /\ r.own
    BY <1>3, <2>2
  <2>4. phase[r] = "failed" /\ Doc(r) = Bad
    <3>1. phase[r] \in {"mounted", "done"} \/ (phase[r] = "failed" /\ Doc(r) = Bad)
      BY <1>2, <2>3 DEF Placed, LiveAtOnce
    <3>2. phase[r] \notin {"mounted", "done"}
      BY <1>1, <1>2, <1>7, <2>3 DEF Settled, ReportInv, BindInv, RecordsInv, Recorded
    <3>3. QED
      BY <3>1, <3>2
  <2>5. QED
    BY <1>2, <2>1, <2>3, <2>4, TemplateUnnamed
<1>8. QED
  BY <1>1, <1>2, <1>4, <1>5, <1>6, <1>7, KeyRead

\* A route that lookup finds may be passed over, unless it has a twin.
LEMMA FoundMayPass ==
    ASSUME ReportInv, RouterInv, RegisteredInv, QuietInv, NEW entry \in adopt.todo,
           entry.site \in records \/ ~Renamed(entry.site),
           entry.site.method # AnyMethod, Lookup(entry),
           entry.site \notin adopt.strays, entry.site \notin adopt.skipped
    PROVE  MayPass(entry.site)
<1> DEFINE r == entry.site
           key == entry.key
<1> SUFFICES ASSUME ~InDocument(r)
             PROVE  \E rec \in sites : MistakenFor(r, rec) /\ ~ToldApart(adopt.app, r, rec)
  BY DEF MayPass
<1>1. r \in Tables(adopt.app) /\ adopt.app \in Apps /\ ReadKey(r, key) /\ \A s \in sites : Settled(s)
  BY DEF QuietInv
<1>2. r \in sites /\ r.kind \in Gated \cup {"gorilla"} /\ \A q \in Tables(adopt.app) : q.kind = r.kind
  BY <1>1, SeenRoute
<1>3. r \notin records
  BY DEF InDocument
<1>4. IF r.kind = "gorilla" /\ r.own THEN r \in records ELSE ByKey(key)
  BY LookupIs
<1>5. r \notin registered /\ ~HasTwin(r)
  <2>1. r \notin registered /\ r \in adopt.seen
    BY <1>1, <1>3 DEF RegisteredInv, QuietInv
  <2>2. QED
    BY <2>1 DEF QuietInv
<1>6. ~Renamed(r)
  BY <1>3
<1> HIDE DEF r, key
<1>7. ByKey(key)
  BY <1>3, <1>4
<1>8. records \subseteq sites
  BY DEF ReportInv, BindInv, RecordsInv
<1>9. CASE r.kind = "gin" /\ \E t \in GinRecords : SharesSpelling(r, t) /\ key = Key(t.method, Doc(t))
  <2>1. PICK t \in GinRecords : SharesSpelling(r, t)
    BY <1>9
  <2>2. MistakenFor(r, t) /\ ~ToldApart(adopt.app, r, t)
    BY <1>9, <2>1 DEF MistakenFor, ToldApart, SharesSpelling, GinRecords, Gated
  <2>3. QED
    BY <1>8, <2>2 DEF GinRecords
<1>10. CASE key = OwnKey(r)
  <2>1. PICK rec \in records : rec.kind \in Gated \cup {"document"} /\ Key(rec.method, Doc(rec)) = OwnKey(r)
    BY <1>7, <1>10 DEF ByKey
  <2>2. rec.kind \in Gated
    BY <2>1 DEF InDocument, OwnKey, r
  <2>3. rec.method = r.method /\ Doc(rec) = TablePath(r.kind, r.path)
    BY <2>1 DEF Key, OwnKey
  <2>4. MistakenFor(r, rec)
    BY <2>2, <2>3 DEF MistakenFor
  <2>5. ASSUME ToldApart(adopt.app, r, rec) PROVE FALSE
    <3>1. rec \in Tables(adopt.app) /\ r.kind = "echov4" /\ r.engine # EnginesOf[adopt.app][1]
      BY <2>5 DEF ToldApart
    <3>2. rec.kind = "echov4"
      BY <1>2, <3>1
    <3>3. rec \in registered /\ OwnKey(rec) = Key(rec.method, Doc(rec))
      BY <1>1, <1>8, <2>2, <3>2, SettledRecord
    <3>4. HasTwin(r)
      BY <2>1, <3>1, <3>3 DEF HasTwin, QuietInv
    <3>5. QED
      BY <1>5, <3>4
  <2>6. QED
    BY <1>8, <2>4, <2>5
<1>11. QED
  BY <1>1, <1>2, <1>3, <1>6, <1>9, <1>10, KeyRead

(***************************************************************************)
(* The steps of Adopt.                                                     *)
(***************************************************************************)

LEMMA TableKeyIsRead == \A r : ReadKey(r, TableKey(r))
BY DEF ReadKey, KeyAs, TableKey, Documented, Spelling

\* The key of a route of another kind than Gin's does not depend on its requests.
LEMMA TableKeyIsOwn ==
    ASSUME ReportInv, NEW r, r.kind # "gin"
    PROVE  TableKey(r) = OwnKey(r)
BY DEF ReportInv, DroppedInv, TableKey, OwnKey, Documented, Spelling

\* Registered with its key in the tables: Echo v4 counts r among the twins.
LEMMA TwinIsFound ==
    ASSUME ReportInv, RegisteredInv, NEW app, NEW r \in Tables(app) \ registered,
           r.kind = "echov4", r.engine # EnginesOf[app][1],
           NEW q \in Tables(app) \cap registered, OwnKey(q) = OwnKey(r)
    PROVE  r \in Twins(app) \/ Skipped(Documented(r))
<1>1. q.kind = "echov4"
  BY DEF RegisteredInv
<1>2. TableKey(r) = OwnKey(r) /\ TableKey(q) = OwnKey(q)
  BY <1>1, TableKeyIsOwn
<1>3. QED
  BY <1>2 DEF Twins, OwnKeys

\* A twin may be reported: another record has its key.
LEMMA TwinMayReport ==
    ASSUME ReportInv, RegisteredInv, NEW app, NEW r \in Twins(app), r \in sites, \A s \in sites : Settled(s)
    PROVE  MayReport(r)
<1>1. r \notin registered /\ r.kind = "echov4" /\ TableKey(r) \in OwnKeys(app)
  BY DEF Twins
<1>2. PICK q \in registered : TableKey(q) = TableKey(r)
  BY <1>1 DEF OwnKeys
<1>3. q \in records /\ q \in sites /\ q.kind = "echov4"
  BY DEF RegisteredInv, ReportInv, BindInv, RecordsInv
<1>4. OwnKey(q) = OwnKey(r) /\ OwnKey(q) = Key(q.method, Doc(q))
  BY <1>1, <1>2, <1>3, TableKeyIsOwn, SettledRecord DEF Gated
<1>5. r \notin records
  BY <1>1, SettledRecord
<1>6. ASSUME InDocument(r) PROVE Contested(r)
  <2>1. PICK rec \in records : rec.kind = "document" /\ Key(rec.method, Doc(rec)) = OwnKey(r)
    BY <1>5, <1>6 DEF InDocument, OwnKey
  <2>2. q # rec
    BY <1>3, <2>1
  <2>3. QED
    BY <1>3, <1>4, <2>1, <2>2 DEF Contested, OwnKey
<1>7. QED
  BY <1>6 DEF MayReport

LEMMA ReadStep ==
    ASSUME ReportInv, RouterInv, RegisteredInv, NEW app \in Apps, AdoptRead(app)
    PROVE  AdoptInv'
<1> DEFINE skipped == {r \in Tables(app) : Skipped(Documented(r))}
           todo == {[site |-> r, key |-> TableKey(r)] : r \in {t \in Tables(app) : ~Skipped(Documented(t))}}
           quiet == \A s \in sites : Settled(s)
<1>1. adopt' = [state |-> "looking", app |-> app, quiet |-> quiet, seen |-> Tables(app), skipped |-> skipped,
                todo |-> todo, strays |-> Twins(app)]
  BY DEF AdoptRead
<1>2. UNCHANGED <<sites, table, dropped, records, registered, known, phase>>
  BY DEF AdoptRead, router, registry
<1> HIDE DEF skipped, todo, quiet
<1>3. /\ adopt'.state = "looking" /\ adopt'.app = app /\ adopt'.quiet = quiet /\ adopt'.seen = Tables(app)
      /\ adopt'.skipped = skipped /\ adopt'.todo = todo /\ adopt'.strays = Twins(app)
  BY <1>1
<1>4. AdoptShape'
  BY <1>1, <1>3 DEF AdoptShape, Looking
<1>5. ASSUME quiet PROVE QuietInv'
  <2>1. \A s \in sites : Settled(s)
    BY <1>5 DEF quiet
  <2>2. \A r \in Tables(app) : r \in sites
    BY SeenRoute
  <2>3. Tables(app)' = Tables(app)
    BY <1>2 DEF Tables, Elements
  <2>4. \A s \in sites' : Settled(s)'
    BY <1>2, <2>1 DEF Settled
  <2>5. ASSUME NEW entry \in adopt'.todo PROVE entry.site \in adopt'.seen /\ ReadKey(entry.site, entry.key)'
    <3>1. PICK r \in Tables(app) : entry = [site |-> r, key |-> TableKey(r)]
      BY <1>3 DEF todo
    <3>2. entry.site = r /\ entry.key = TableKey(r)
      BY <3>1
    <3>3. ReadKey(r, TableKey(r))
      BY TableKeyIsRead
    <3>4. ReadKey(entry.site, entry.key)
      BY <3>2, <3>3
    <3>5. QED
      BY <1>2, <1>3, <3>2, <3>4 DEF ReadKey, KeyAs, Key
  <2>6. ASSUME NEW r \in Tables(app) \ registered, HasTwin(r)' PROVE r \in Twins(app) \cup skipped
    <3>1. PICK q \in Tables(app) \cap registered : OwnKey(q) = OwnKey(r)
      BY <1>2, <1>3, <2>6 DEF HasTwin, OwnKey
    <3>2. r.kind = "echov4" /\ r.engine # EnginesOf[app][1]
      BY <1>3, <2>6 DEF HasTwin
    <3>3. r \in Twins(app) \/ Skipped(Documented(r))
      BY <3>1, <3>2, TwinIsFound
    <3>4. QED
      BY <3>3 DEF skipped
  <2>7. ASSUME NEW r \in Tables(app) PROVE Reported(r)'
    <3>1. r \in Twins(app) => MayReport(r)
      BY <2>1, <2>2, TwinMayReport
    <3>2. MayReport(r) => MayReport(r)'
      BY <1>2 DEF MayReport, InDocument, Contested, Key, Doc, TablePath, Elements
    <3>3. r \in skipped \/ \E entry \in todo : entry.site = r
      <4>1. CASE Skipped(Documented(r))
        BY <4>1 DEF skipped
      <4>2. CASE ~Skipped(Documented(r))
        <5>1. [site |-> r, key |-> TableKey(r)] \in todo
          BY <4>2 DEF todo
        <5>2. QED
          BY <5>1
      <4>3. QED
        BY <4>1, <4>2
    <3>4. QED
      BY <1>3, <3>1, <3>2, <3>3 DEF Reported
  <2>8. QED
    BY <1>2, <1>3, <2>3, <2>4, <2>5, <2>6, <2>7 DEF QuietInv
<1>6. QED
  BY <1>3, <1>4, <1>5 DEF AdoptInv

\* Adopt takes one entry: what it says of its route holds.
LEMMA CollectStep ==
    ASSUME ReportInv, RouterInv, RegisteredInv, AdoptInv, AdoptCollect
    PROVE  AdoptInv'
<1>1. PICK entry \in adopt.todo :
        adopt' = [adopt EXCEPT !.todo = @ \ {entry},
                               !.strays = IF entry.site.method = AnyMethod \/ ~Lookup(entry) THEN @ \cup {entry.site} ELSE @]
  BY DEF AdoptCollect
<1> DEFINE stray == entry.site.method = AnyMethod \/ ~Lookup(entry)
           strays == IF stray THEN adopt.strays \cup {entry.site} ELSE adopt.strays
<1>2. /\ adopt.state = "looking"
      /\ UNCHANGED <<sites, table, dropped, records, registered, known, phase>>
  BY DEF AdoptCollect, router, registry
<1>3. adopt = [state |-> adopt.state, app |-> adopt.app, quiet |-> adopt.quiet, seen |-> adopt.seen,
               skipped |-> adopt.skipped, todo |-> adopt.todo, strays |-> adopt.strays]
  BY <1>2 DEF AdoptInv, AdoptShape, NoAdopt
<1>4. adopt' = [state |-> adopt.state, app |-> adopt.app, quiet |-> adopt.quiet, seen |-> adopt.seen,
                skipped |-> adopt.skipped, todo |-> adopt.todo \ {entry}, strays |-> strays]
  BY <1>1, <1>3
<1> HIDE DEF stray, strays
<1>5. /\ adopt'.state = adopt.state /\ adopt'.app = adopt.app /\ adopt'.quiet = adopt.quiet /\ adopt'.seen = adopt.seen
      /\ adopt'.skipped = adopt.skipped /\ adopt'.todo = adopt.todo \ {entry} /\ adopt'.strays = strays
  BY <1>4
<1>6. AdoptShape'
  BY <1>2, <1>4, <1>5 DEF AdoptShape, Looking
<1>7. ASSUME adopt.quiet PROVE QuietInv'
  <2>1. QuietInv
    BY <1>2, <1>7 DEF AdoptInv, Looking
  <2>2. adopt.strays \subseteq strays
    BY DEF strays
  <2>3. Tables(adopt.app)' = Tables(adopt.app) /\ \A s : Settled(s)' = Settled(s)
    BY <1>2, <1>5 DEF Tables, Settled, Elements
  <2>4. \A r, key : ReadKey(r, key)' = ReadKey(r, key)
    BY <1>2 DEF ReadKey, KeyAs, Key
  <2>5. \A r : HasTwin(r)' = HasTwin(r)
    BY <1>2, <1>5 DEF HasTwin, OwnKey
  <2>6. \A r : InDocument(r)' = InDocument(r) /\ Contested(r)' = Contested(r) /\ Renamed(r)' = Renamed(r)
    BY <1>2 DEF InDocument, Contested, Renamed, Key, Doc, TablePath
  <2>7. \A r, rec : MistakenFor(r, rec)' = MistakenFor(r, rec) /\ ToldApart(adopt.app, r, rec)' = ToldApart(adopt.app, r, rec)
    BY <1>2, <1>5, <2>3 DEF MistakenFor, ToldApart, Doc, TablePath, Spellings, Elements
  <2>8. \A r : MayReport(r)' = MayReport(r)
    BY <1>2, <2>6 DEF MayReport, Elements
  <2>9. \A r : MayPass(r)' = MayPass(r)
    BY <1>2, <2>6, <2>7 DEF MayPass
  <2>10. ASSUME NEW r \in adopt.seen, r \in records \/ ~Renamed(r) PROVE Reported(r)'
    <3>1. Reported(r)
      BY <2>1, <2>10 DEF QuietInv
    <3>2. CASE r # entry.site
      <4>1. r \in strays <=> r \in adopt.strays
        BY <3>2 DEF strays
      <4>2. (\E e \in adopt.todo : e.site = r) => (\E e \in adopt.todo \ {entry} : e.site = r)
        BY <3>2
      <4>3. QED
        BY <1>5, <2>8, <2>9, <3>1, <4>1, <4>2 DEF Reported
    <3>3. CASE r = entry.site /\ stray
      <4>1. r \in strays
        BY <3>3 DEF strays
      <4>2. MayReport(r)
        BY <2>1, <2>10, <3>3, UnfoundMayReport DEF stray
      <4>3. QED
        BY <1>5, <2>8, <4>1, <4>2 DEF Reported
    <3>4. CASE r = entry.site /\ ~stray
      <4>1. strays = adopt.strays
        BY <3>4 DEF strays
      <4>2. r \in adopt.strays \/ r \in adopt.skipped \/ MayPass(r)
        BY <2>1, <2>10, <3>4, FoundMayPass DEF stray
      <4>3. QED
        BY <1>5, <2>8, <2>9, <3>1, <4>1, <4>2 DEF Reported
    <3>5. QED
      BY <3>2, <3>3, <3>4
  <2>11. QED
    BY <1>2, <1>5, <2>1, <2>2, <2>3, <2>4, <2>5, <2>6, <2>10 DEF QuietInv
<1>8. QED
  BY <1>5, <1>6, <1>7 DEF AdoptInv

LEMMA ReturnStep ==
    ASSUME AdoptInv, AdoptReturn
    PROVE  AdoptInv'
<1>1. /\ adopt.state = "looking" /\ adopt.todo = {} /\ adopt' = [adopt EXCEPT !.state = "done"]
      /\ UNCHANGED <<sites, table, dropped, records, registered, known, phase>>
  BY DEF AdoptReturn, router, registry
<1>2. adopt = [state |-> adopt.state, app |-> adopt.app, quiet |-> adopt.quiet, seen |-> adopt.seen,
               skipped |-> adopt.skipped, todo |-> adopt.todo, strays |-> adopt.strays]
  BY <1>1 DEF AdoptInv, AdoptShape, NoAdopt
<1>3. adopt' = [state |-> "done", app |-> adopt.app, quiet |-> adopt.quiet, seen |-> adopt.seen,
                skipped |-> adopt.skipped, todo |-> adopt.todo, strays |-> adopt.strays]
  BY <1>1, <1>2
<1>4. /\ adopt'.state = "done" /\ adopt'.app = adopt.app /\ adopt'.quiet = adopt.quiet /\ adopt'.seen = adopt.seen
      /\ adopt'.skipped = adopt.skipped /\ adopt'.todo = adopt.todo /\ adopt'.strays = adopt.strays
  BY <1>3
<1>5. AdoptShape'
  BY <1>1, <1>3, <1>4 DEF AdoptShape, Looking
<1>6. ASSUME QuietInv PROVE QuietInv'
  <2>1. Tables(adopt.app)' = Tables(adopt.app) /\ \A s : Settled(s)' = Settled(s)
    BY <1>1, <1>4 DEF Tables, Settled, Elements
  <2>2. \A r, key : ReadKey(r, key)' = ReadKey(r, key)
    BY <1>1 DEF ReadKey, KeyAs, Key
  <2>3. \A r : /\ HasTwin(r)' = HasTwin(r) /\ InDocument(r)' = InDocument(r) /\ Contested(r)' = Contested(r)
               /\ Renamed(r)' = Renamed(r)
    BY <1>1, <1>4 DEF HasTwin, OwnKey, InDocument, Contested, Renamed, Key, Doc, TablePath
  <2>4. \A r, rec : MistakenFor(r, rec)' = MistakenFor(r, rec) /\ ToldApart(adopt.app, r, rec)' = ToldApart(adopt.app, r, rec)
    BY <1>1, <1>4, <2>1 DEF MistakenFor, ToldApart, Doc, TablePath, Spellings, Elements
  <2>5. \A r : MayReport(r)' = MayReport(r) /\ MayPass(r)' = MayPass(r)
    BY <1>1, <2>3, <2>4 DEF MayReport, MayPass, Elements
  <2>6. \A r : Reported(r) => Reported(r)'
    BY <1>4, <2>5 DEF Reported
  <2>7. QED
    BY <1>1, <1>4, <1>6, <2>1, <2>2, <2>3, <2>6 DEF QuietInv
<1>7. QED
  BY <1>1, <1>4, <1>5, <1>6 DEF AdoptInv, Looking

LEMMA NextAdopt == ReportInv /\ RouterInv /\ RegisteredInv /\ AdoptInv /\ [Next]_vars => AdoptInv'
<1> SUFFICES ASSUME ReportInv, RouterInv, RegisteredInv, AdoptInv, [Next]_vars PROVE AdoptInv'
  OBVIOUS
<1>1. ASSUME NEW s \in sites, Register(s) PROVE AdoptInv'
  BY <1>1, RegisterDisturbs, DisturbAdopt
<1>2. ASSUME NEW c \in Clients, Arrive(c) \/ PassOn(c) \/ Run(c) \/ TurnAway(c) PROVE AdoptInv'
  <2>1. /\ Unregistered /\ UNCHANGED <<adopt, known, registered>> /\ dropped \subseteq dropped'
    BY <1>2, RequestInv DEF ReportInv, Arrive, PassOn, Run, TurnAway, registry, router
  <2>2. QED
    BY <2>1, QuietStays
<1>3. CASE Build \/ UNCHANGED vars
  <2>1. Unregistered /\ UNCHANGED <<adopt, known, registered, dropped>>
    BY <1>3 DEF Build, vars, router, registry, serving, Unregistered
  <2>2. QED
    BY <2>1, QuietStays
<1>4. ASSUME NEW app \in Apps, AdoptRead(app) PROVE AdoptInv'
  BY <1>4, ReadStep
<1>5. CASE AdoptCollect
  BY <1>5, CollectStep
<1>6. CASE AdoptReturn
  BY <1>6, ReturnStep
<1>7. QED
  BY <1>1, <1>2, <1>3, <1>4, <1>5, <1>6 DEF Next

LEMMA ReportIsExact == AdoptInv => AdoptIsExact
<1> SUFFICES ASSUME AdoptInv, adopt.state = "done", adopt.quiet,
                    NEW r \in adopt.seen, r \in records \/ ~Renamed(r)
             PROVE  IF InDocument(r) /\ r.method # AnyMethod
                    THEN \/ r \notin adopt.strays
                         \/ r.kind = "gin" /\ Shared \in Elements(known)
                         \/ Contested(r)
                    ELSE \/ r \in adopt.strays
                         \/ r \in adopt.skipped
                         \/ \E rec \in sites : MistakenFor(r, rec) /\ ~ToldApart(adopt.app, r, rec)
  BY DEF AdoptIsExact
<1>1. QuietInv /\ adopt.todo = {}
  BY DEF AdoptInv, AdoptShape, Looking, NoAdopt
<1>2. Reported(r)
  BY <1>1 DEF QuietInv
<1>3. QED
  BY <1>1, <1>2 DEF Reported, MayReport, MayPass

\* An Adopt that no registration overlaps is exact, for every program, with
\* every number of routers, hosts and requests, and whatever Gin renames while
\* it looks: what it reports is not documented, what it leaves out is, and the
\* exceptions are those of AdoptIsExact (Adopt of the adapters, twins, lookup).
THEOREM ReportsAreExact == Spec => []AdoptIsExact
<1>1. Init => ExactInv
  <2>1. Init => RegisteredInv /\ AdoptInv
    BY DEF Init, RegisteredInv, AdoptInv, AdoptShape, Looking, NoAdopt
  <2>2. QED
    BY <2>1, InitReport, InitRouter DEF ExactInv
<1>2. ExactInv /\ [Next]_vars => ExactInv'
  BY NextReport, NextRouter, NextRegistered, NextAdopt DEF ExactInv, ReportInv
<1>3. ExactInv => AdoptIsExact
  BY ReportIsExact DEF ExactInv
<1>4. QED
  BY <1>1, <1>2, <1>3, PTL DEF Spec
=============================================================================
