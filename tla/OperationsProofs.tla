-------------------------- MODULE OperationsProofs --------------------------
(***************************************************************************)
(* Theorems about the operations of a document for every set of programs,  *)
(* declarations and nested callbacks, in every order of registrations,     *)
(* adoptions and builds.                                                   *)
(***************************************************************************)
EXTENDS Operations, WellFoundedInduction, TLAPS

LEMMA LeastNumber ==
    ASSUME NEW S \in SUBSET Nat, S # {}
    PROVE  \E x \in S : \A y \in S : x <= y
<1>1. IsWellFoundedOn(OpToRel(<, Nat), Nat)
  BY NatLessThanWellFounded
<1>2. PICK x \in S : \A y \in S : ~(<<y, x>> \in OpToRel(<, Nat))
  BY <1>1, WFMin
<1>3. ASSUME NEW y \in S PROVE x <= y
  <2>1. ~(y < x)
    BY <1>2 DEF OpToRel
  <2>2. QED
    BY <2>1
<1>4. QED
  BY <1>3

(***************************************************************************)
(* Flatten.                                                                *)
(***************************************************************************)

FlattenStep(seqs, f, n) == IF n = 0 THEN <<>> ELSE f[n - 1] \o seqs[n]

LEMMA FlattenExists ==
    ASSUME NEW seqs, NEW k \in Nat
    PROVE  \E f : f = [n \in 0..k |-> FlattenStep(seqs, f, n)]
<1> DEFINE bad == {j \in Nat : ~\E f : f = [n \in 0..j |-> FlattenStep(seqs, f, n)]}
<1> SUFFICES ASSUME bad # {} PROVE FALSE
  OBVIOUS
<1>1. PICK b \in bad : \A j \in bad : b <= j
  BY LeastNumber
<1>2. b # 0
  <2> DEFINE f == [n \in 0..0 |-> <<>>]
  <2>1. f = [n \in 0..0 |-> FlattenStep(seqs, f, n)]
    BY DEF FlattenStep
  <2>2. QED
    BY <2>1
<1>3. b - 1 \in Nat /\ b - 1 \notin bad
  BY <1>1, <1>2
<1>4. PICK f : f = [n \in 0..(b - 1) |-> FlattenStep(seqs, f, n)]
  BY <1>3
<1> DEFINE g == [n \in 0..b |-> IF n < b THEN f[n] ELSE FlattenStep(seqs, f, b)]
<1>5. ASSUME NEW n \in 0..b PROVE g[n] = FlattenStep(seqs, g, n)
  <2>1. CASE n = 0
    BY <1>2, <1>3, <1>4, <2>1 DEF FlattenStep
  <2>2. CASE n > 0 /\ n < b
    <3>1. g[n - 1] = f[n - 1] /\ g[n] = f[n]
      BY <2>2
    <3>2. f[n] = FlattenStep(seqs, f, n)
      BY <1>3, <1>4, <2>2
    <3>3. QED
      BY <2>2, <3>1, <3>2 DEF FlattenStep
  <2>3. CASE n = b
    <3>1. g[n - 1] = f[n - 1] /\ g[n] = FlattenStep(seqs, f, b)
      BY <1>2, <1>3, <2>3
    <3>2. QED
      BY <1>2, <2>3, <3>1 DEF FlattenStep
  <2>4. QED
    BY <2>1, <2>2, <2>3
<1>6. g = [n \in 0..b |-> FlattenStep(seqs, g, n)]
  BY <1>5
<1>7. QED
  BY <1>6

LEMMA ElementsOfBoth ==
    ASSUME NEW T, NEW s \in Seq(T), NEW t \in Seq(T)
    PROVE  s \o t \in Seq(T) /\ Elements(s \o t) = Elements(s) \cup Elements(t)
<1>1. s \o t \in Seq(T) /\ DOMAIN (s \o t) = 1..(Len(s) + Len(t)) /\ Len(s) \in Nat /\ Len(t) \in Nat
      /\ DOMAIN s = 1..Len(s) /\ DOMAIN t = 1..Len(t)
  OBVIOUS
<1>2. ASSUME NEW i \in 1..(Len(s) + Len(t)) PROVE (s \o t)[i] \in Elements(s) \cup Elements(t)
  <2>1. CASE i <= Len(s)
    BY <2>1 DEF Elements
  <2>2. CASE i > Len(s)
    <3>1. i - Len(s) \in DOMAIN t /\ (s \o t)[i] = t[i - Len(s)]
      BY <2>2
    <3>2. QED
      BY <3>1 DEF Elements
  <2>3. QED
    BY <1>1, <2>1, <2>2
<1>3. ASSUME NEW i \in 1..Len(s) PROVE s[i] \in Elements(s \o t)
  <2>1. i \in DOMAIN (s \o t) /\ (s \o t)[i] = s[i]
    BY <1>1
  <2>2. QED
    BY <2>1 DEF Elements
<1>4. ASSUME NEW i \in 1..Len(t) PROVE t[i] \in Elements(s \o t)
  <2>1. Len(s) + i \in DOMAIN (s \o t) /\ (s \o t)[Len(s) + i] = t[i]
    BY <1>1
  <2>2. QED
    BY <2>1 DEF Elements
<1>5. QED
  BY <1>1, <1>2, <1>3, <1>4 DEF Elements

\* Flatten has the elements of its sequences.
LEMMA FlattenElements ==
    ASSUME NEW T, NEW seqs \in Seq(Seq(T))
    PROVE  /\ Flatten(seqs) \in Seq(T)
           /\ Elements(Flatten(seqs)) = UNION {Elements(seqs[i]) : i \in DOMAIN seqs}
<1> DEFINE upTo == CHOOSE f : f = [n \in 0..Len(seqs) |-> FlattenStep(seqs, f, n)]
           elements(n) == UNION {Elements(seqs[i]) : i \in 1..n}
<1>0. Len(seqs) \in Nat /\ DOMAIN seqs = 1..Len(seqs) /\ \A i \in 1..Len(seqs) : seqs[i] \in Seq(T)
  OBVIOUS
<1>1. Flatten(seqs) = upTo[Len(seqs)]
  BY DEF Flatten, FlattenStep
<1>2. upTo = [n \in 0..Len(seqs) |-> FlattenStep(seqs, upTo, n)]
  BY <1>0, FlattenExists
<1> HIDE DEF upTo
<1>3. \A n \in 0..Len(seqs) : upTo[n] = FlattenStep(seqs, upTo, n)
  BY <1>2
<1> DEFINE Good(n) == upTo[n] \in Seq(T) /\ Elements(upTo[n]) = elements(n)
           bad == {n \in 0..Len(seqs) : ~Good(n)}
<1>4. bad = {}
  <2> SUFFICES ASSUME bad # {} PROVE FALSE
    OBVIOUS
  <2>1. PICK b \in bad : \A j \in bad : b <= j
    <3>1. bad \in SUBSET Nat
      OBVIOUS
    <3> HIDE DEF bad
    <3>2. QED
      BY <3>1, LeastNumber
  <2>2. b # 0
    <3>1. upTo[0] = <<>>
      <4>1. 0 \in 0..Len(seqs)
        OBVIOUS
      <4>2. QED
        BY <1>3, <4>1 DEF FlattenStep
    <3>2. Good(0)
      BY <3>1 DEF Elements
    <3>3. QED
      BY <3>2
  <2>3. b - 1 \in 0..Len(seqs) /\ b \in 1..Len(seqs) /\ Good(b - 1)
    <3>1. b - 1 \in 0..Len(seqs) /\ b \in 1..Len(seqs) /\ ~(b <= b - 1)
      BY <2>2
    <3>2. b - 1 \notin bad
      BY <2>1, <3>1
    <3>3. QED
      BY <3>1, <3>2
  <2>4. upTo[b] = upTo[b - 1] \o seqs[b] /\ seqs[b] \in Seq(T)
    BY <1>0, <1>3, <2>2, <2>3 DEF FlattenStep
  <2>5. upTo[b] \in Seq(T) /\ Elements(upTo[b]) = Elements(upTo[b - 1]) \cup Elements(seqs[b])
    BY <2>3, <2>4, ElementsOfBoth
  <2>6. elements(b) = elements(b - 1) \cup Elements(seqs[b])
    <3>1. 1..b = 1..(b - 1) \cup {b}
      BY <2>3
    <3>2. QED
      BY <3>1
  <2>7. Good(b)
    BY <2>3, <2>5, <2>6
  <2>8. QED
    BY <2>7
<1>5. Good(Len(seqs))
  <2>1. Len(seqs) \in 0..Len(seqs)
    BY <1>0
  <2>2. \A n \in 0..Len(seqs) : Good(n)
    <3> HIDE DEF Good
    <3>1. QED
      BY <1>4
  <2>3. QED
    BY <2>1, <2>2
<1>6. QED
  BY <1>0, <1>1, <1>5

(***************************************************************************)
(* The nodes, level by level.                                              *)
(***************************************************************************)

LevelStep(f, n) ==
    IF n = 1 THEN {Root(s) : s \in Sites} ELSE UNION {Elements(Children(node)) : node \in f[n - 1]}

LEMMA LevelExists ==
    ASSUME NEW k \in Nat
    PROVE  \E f : f = [n \in 1..k |-> LevelStep(f, n)]
<1> DEFINE bad == {j \in Nat : ~\E f : f = [n \in 1..j |-> LevelStep(f, n)]}
<1> SUFFICES ASSUME bad # {} PROVE FALSE
  OBVIOUS
<1>1. PICK b \in bad : \A j \in bad : b <= j
  BY LeastNumber
<1>2. b # 0
  <2> DEFINE f == [n \in 1..0 |-> {}]
  <2>1. f = [n \in 1..0 |-> LevelStep(f, n)]
    OBVIOUS
  <2>2. QED
    BY <2>1
<1>3. b - 1 \in Nat /\ b - 1 \notin bad
  BY <1>1, <1>2
<1>4. PICK f : f = [n \in 1..(b - 1) |-> LevelStep(f, n)]
  BY <1>3
<1> DEFINE g == [n \in 1..b |-> IF n < b THEN f[n] ELSE LevelStep(f, b)]
<1>5. ASSUME NEW n \in 1..b PROVE g[n] = LevelStep(g, n)
  <2>1. CASE n = 1 /\ n < b
    <3>1. g[n] = f[n] /\ f[n] = LevelStep(f, n)
      BY <1>3, <1>4, <2>1
    <3>2. QED
      BY <2>1, <3>1 DEF LevelStep
  <2>2. CASE n > 1 /\ n < b
    <3>1. g[n - 1] = f[n - 1] /\ g[n] = f[n]
      BY <2>2
    <3>2. f[n] = LevelStep(f, n)
      <4>1. n \in 1..(b - 1)
        BY <1>3, <2>2
      <4>2. QED
        BY <1>4, <4>1
    <3>3. QED
      BY <2>2, <3>1, <3>2 DEF LevelStep
  <2>3. CASE n = b
    <3>1. g[n] = LevelStep(f, b)
      BY <2>3
    <3>2. CASE n = 1
      BY <2>3, <3>1, <3>2 DEF LevelStep
    <3>3. CASE n > 1
      <4>1. g[n - 1] = f[n - 1]
        BY <1>3, <2>3, <3>3
      <4>2. QED
        BY <2>3, <3>1, <3>3, <4>1 DEF LevelStep
    <3>4. QED
      BY <3>2, <3>3
  <2>4. QED
    BY <2>1, <2>2, <2>3
<1>6. g = [n \in 1..b |-> LevelStep(g, n)]
  BY <1>5
<1>7. QED
  BY <1>6

Level == CHOOSE f : f = [n \in 1..Depth |-> LevelStep(f, n)]

LEMMA Levels ==
    /\ Nodes = UNION {Level[n] : n \in 1..Depth}
    /\ \A n \in 1..Depth : Level[n] = LevelStep(Level, n)
<1>1. Nodes = UNION {Level[n] : n \in 1..Depth}
  BY DEF Nodes, Level, LevelStep
<1>2. Level = [n \in 1..Depth |-> LevelStep(Level, n)]
  BY LevelExists, OperationsAssumption DEF Level
<1>3. QED
  BY <1>1, <1>2

EntryType == [name : Names, at : Nat]

\* A node of level n: its length, its name, and what kind of operation it is.
NodeAt(node, n) ==
    /\ node \in Seq(EntryType) /\ Len(node) = n
    /\ NameOf(node) \in Names
    /\ n = 1 => \E s \in Sites : node = Root(s)
    /\ n > 1 => Declared[NameOf(node)].kind = "callback"

LEMMA RootAt == ASSUME NEW s \in Sites PROVE NodeAt(Root(s), 1) /\ NameOf(Root(s)) = s
<1>1. s \in Names /\ Entry(s, 0) \in EntryType
  BY OperationsAssumption DEF Sites, Entry, EntryType
<1>2. Root(s) \in Seq(EntryType) /\ Len(Root(s)) = 1 /\ Root(s)[1] = Entry(s, 0)
  BY <1>1 DEF Root
<1>3. NameOf(Root(s)) = s
  BY <1>2 DEF NameOf, Entry
<1>4. QED
  BY <1>1, <1>2, <1>3 DEF NodeAt

LEMMA ChildAt ==
    ASSUME NEW n \in Nat \ {0}, NEW node, NodeAt(node, n), NEW child \in Elements(Children(node))
    PROVE  NodeAt(child, n + 1)
<1> DEFINE callbacks == Declared[NameOf(node)].callbacks
<1>1. callbacks \in Seq(Names) /\ \A i \in DOMAIN callbacks : Declared[callbacks[i]].kind = "callback"
  BY OperationsAssumption DEF NodeAt, DeclarationType
<1>2. PICK i \in 1..Len(callbacks) : child = Append(node, Entry(callbacks[i], i))
  BY DEF Elements, Children
<1>3. i \in DOMAIN callbacks /\ callbacks[i] \in Names /\ i \in Nat
  BY <1>1
<1> HIDE DEF callbacks
<1>4. Entry(callbacks[i], i) \in EntryType
  BY <1>3 DEF Entry, EntryType
<1>5. child \in Seq(EntryType) /\ Len(child) = n + 1 /\ child[n + 1] = Entry(callbacks[i], i)
  BY <1>2, <1>4 DEF NodeAt
<1>6. NameOf(child) = callbacks[i]
  BY <1>5 DEF NameOf, Entry
<1>7. QED
  BY <1>1, <1>3, <1>5, <1>6 DEF NodeAt

LEMMA LevelNodes == \A n \in 1..Depth : \A node \in Level[n] : NodeAt(node, n)
<1> DEFINE bad == {n \in 1..Depth : \E node \in Level[n] : ~NodeAt(node, n)}
<1> SUFFICES ASSUME bad # {} PROVE FALSE
  OBVIOUS
<1>1. PICK b \in bad : \A j \in bad : b <= j
  <2>1. bad \in SUBSET Nat
    OBVIOUS
  <2> HIDE DEF bad
  <2>2. QED
    BY <2>1, LeastNumber
<1>2. PICK node \in Level[b] : ~NodeAt(node, b)
  OBVIOUS
<1>3. Level[b] = LevelStep(Level, b)
  BY Levels
<1>4. b # 1
  BY <1>2, <1>3, RootAt DEF LevelStep
<1>5. b - 1 \in 1..Depth /\ b - 1 \notin bad
  <2>1. b \in 1..Depth /\ Depth \in Nat
    BY OperationsAssumption
  <2>2. b - 1 \in 1..Depth /\ ~(b <= b - 1)
    BY <1>4, <2>1
  <2>3. QED
    BY <1>1, <2>2
<1>6. PICK above \in Level[b - 1] : node \in Elements(Children(above))
  BY <1>2, <1>3, <1>4 DEF LevelStep
<1>7. NodeAt(above, b - 1)
  BY <1>5, <1>6
<1>8. NodeAt(node, (b - 1) + 1)
  BY <1>5, <1>6, <1>7, ChildAt
<1>9. QED
  BY <1>2, <1>8

LEMMA NodeFacts ==
    ASSUME NEW node \in Nodes
    PROVE  /\ Len(node) \in 1..Depth /\ node \in Level[Len(node)] /\ NodeAt(node, Len(node))
           /\ Decl[node] = Declared[NameOf(node)] /\ Decl[node] \in DeclarationType
<1>1. PICK n \in 1..Depth : node \in Level[n]
  BY Levels
<1>2. NodeAt(node, n) /\ Len(node) = n
  BY <1>1, LevelNodes DEF NodeAt
<1>3. QED
  BY <1>1, <1>2, OperationsAssumption DEF Decl, NodeAt

LEMMA RootIsNode == ASSUME NEW s \in Sites PROVE Root(s) \in Nodes /\ Decl[Root(s)] = Declared[s]
<1>1. 1 \in 1..Depth /\ Level[1] = LevelStep(Level, 1)
  BY Levels, OperationsAssumption
<1>2. Root(s) \in Nodes
  BY <1>1, Levels DEF LevelStep
<1>3. QED
  BY <1>2, RootAt DEF Decl

\* The callbacks on a node are nodes, one level further down.
LEMMA ChildIsNode ==
    ASSUME NEW node \in Nodes, NEW child \in Elements(Children(node))
    PROVE  /\ child \in Nodes /\ Len(child) = Len(node) + 1 /\ Decl[child].kind = "callback"
           /\ child[1] = node[1]
<1>1. Len(node) \in 1..Depth /\ node \in Level[Len(node)] /\ NodeAt(node, Len(node))
  BY NodeFacts
<1>2. Len(node) # Depth
  <2>1. Len(node) = Depth => Declared[NameOf(node)].callbacks = <<>>
    BY NodeFacts, OperationsAssumption
  <2>2. Declared[NameOf(node)].callbacks # <<>>
    <3>1. PICK i \in 1..Len(Declared[NameOf(node)].callbacks) : TRUE
      BY DEF Elements, Children
    <3>2. Len(<<>>) = 0
      OBVIOUS
    <3>3. QED
      BY <3>1, <3>2
  <2>3. QED
    BY <2>1, <2>2
<1>3. Len(node) + 1 \in 1..Depth /\ Len(node) + 1 # 1 /\ (Len(node) + 1) - 1 = Len(node)
  BY <1>1, <1>2, OperationsAssumption
<1>4. child \in Level[Len(node) + 1]
  <2>1. Level[Len(node) + 1] = LevelStep(Level, Len(node) + 1)
    BY <1>3, Levels
  <2>2. LevelStep(Level, Len(node) + 1) = UNION {Elements(Children(above)) : above \in Level[Len(node)]}
    BY <1>3 DEF LevelStep
  <2>3. QED
    BY <1>1, <2>1, <2>2
<1>5. child \in Nodes /\ NodeAt(child, Len(node) + 1)
  BY <1>3, <1>4, Levels, LevelNodes
<1>6. child[1] = node[1]
  <2>1. PICK e : child = Append(node, e)
    BY DEF Elements, Children
  <2>2. node \in Seq(EntryType) /\ 1 \in 1..Len(node)
    BY <1>1 DEF NodeAt
  <2>3. QED
    BY <2>1, <2>2
<1>7. QED
  BY <1>1, <1>3, <1>5, <1>6, NodeFacts DEF NodeAt

(***************************************************************************)
(* The operations under a node and those of a document.                    *)
(***************************************************************************)

YieldStep(f, node) ==
    LET children == Children(node)
    IN  <<node>> \o Flatten([i \in DOMAIN children |-> f[children[i]]])

LEMMA YieldAgrees ==
    ASSUME NEW node, NEW f, NEW g, \A child \in Elements(Children(node)) : f[child] = g[child]
    PROVE  YieldStep(f, node) = YieldStep(g, node)
<1> DEFINE children == Children(node)
<1>1. ASSUME NEW i \in DOMAIN children PROVE f[children[i]] = g[children[i]]
  BY DEF Elements
<1>2. [i \in DOMAIN children |-> f[children[i]]] = [i \in DOMAIN children |-> g[children[i]]]
  <2> HIDE DEF children
  <2>1. QED
    BY <1>1
<1>3. QED
  BY <1>2 DEF YieldStep

\* The recursion of yieldOperation ends: a function on the k lowest levels.
YieldUpTo(f, k) == f = [node \in Nodes |-> IF Len(node) > Depth - k THEN YieldStep(f, node) ELSE <<>>]

LEMMA YieldExists == ASSUME NEW k \in 0..Depth PROVE \E f : YieldUpTo(f, k)
<1> DEFINE bad == {j \in 0..Depth : ~\E f : YieldUpTo(f, j)}
<1> SUFFICES ASSUME bad # {} PROVE FALSE
  OBVIOUS
<1>0. Depth \in Nat
  BY OperationsAssumption
<1>1. PICK b \in bad : \A j \in bad : b <= j
  <2>1. bad \in SUBSET Nat
    OBVIOUS
  <2> HIDE DEF bad
  <2>2. QED
    BY <2>1, LeastNumber
<1>2. b # 0
  <2> DEFINE f == [node \in Nodes |-> <<>>]
  <2>1. ASSUME NEW node \in Nodes PROVE ~(Len(node) > Depth - 0)
    BY <1>0, NodeFacts
  <2>2. YieldUpTo(f, 0)
    BY <2>1 DEF YieldUpTo
  <2>3. QED
    BY <2>2
<1>3. b - 1 \in 0..Depth /\ b - 1 \notin bad
  <2>1. b - 1 \in 0..Depth /\ ~(b <= b - 1)
    BY <1>0, <1>2
  <2>2. QED
    BY <1>1, <2>1
<1>4. PICK f : YieldUpTo(f, b - 1)
  BY <1>3
<1> DEFINE g == [node \in Nodes |-> IF Len(node) > Depth - b THEN YieldStep(f, node) ELSE <<>>]
<1>5. ASSUME NEW node \in Nodes, Len(node) > Depth - b PROVE YieldStep(f, node) = YieldStep(g, node)
  <2>1. ASSUME NEW child \in Elements(Children(node)) PROVE f[child] = g[child]
    <3>1. child \in Nodes /\ Len(child) = Len(node) + 1 /\ Len(node) \in Nat
      BY ChildIsNode, NodeFacts
    <3>2. Len(child) > Depth - b /\ Len(child) > Depth - (b - 1)
      BY <1>0, <1>5, <3>1
    <3>3. f[child] = YieldStep(f, child)
      BY <1>4, <3>1, <3>2 DEF YieldUpTo
    <3>4. g[child] = YieldStep(f, child)
      BY <3>1, <3>2
    <3>5. QED
      BY <3>3, <3>4
  <2> HIDE DEF g
  <2>2. QED
    BY <2>1, YieldAgrees
<1>6. YieldUpTo(g, b)
  <2> DEFINE h == [node \in Nodes |-> IF Len(node) > Depth - b THEN YieldStep(g, node) ELSE <<>>]
  <2>1. ASSUME NEW node \in Nodes PROVE g[node] = h[node]
    <3> DEFINE below == YieldStep(g, node)
    <3>1. Len(node) > Depth - b => YieldStep(f, node) = below
      BY <1>5
    <3> HIDE DEF below
    <3>2. h[node] = IF Len(node) > Depth - b THEN below ELSE <<>>
      BY DEF below
    <3>3. QED
      BY <3>1, <3>2
  <2>2. g = h
    BY <2>1
  <2> HIDE DEF g
  <2>3. QED
    BY <2>2 DEF YieldUpTo
<1>7. QED
  BY <1>6

LEMMA YieldUnfolds == \A node \in Nodes : Yield[node] = YieldStep(Yield, node)
<1>1. PICK f : YieldUpTo(f, Depth)
  BY YieldExists, OperationsAssumption
<1>2. ASSUME NEW node \in Nodes PROVE Len(node) > Depth - Depth
  BY NodeFacts, OperationsAssumption
<1>3. f = [node \in Nodes |-> YieldStep(f, node)]
  <2>1. f = [node \in Nodes |-> IF Len(node) > Depth - Depth THEN YieldStep(f, node) ELSE <<>>]
    BY <1>1 DEF YieldUpTo
  <2> DEFINE h == [node \in Nodes |-> YieldStep(f, node)]
  <2>2. ASSUME NEW node \in Nodes PROVE f[node] = h[node]
    BY <1>2, <2>1
  <2>3. DOMAIN f = Nodes /\ f = [node \in DOMAIN f |-> f[node]]
    BY <2>1
  <2>4. QED
    BY <2>2, <2>3
<1>4. Yield = CHOOSE y : y = [node \in Nodes |-> YieldStep(y, node)]
  BY DEF Yield, YieldStep
<1>5. Yield = [node \in Nodes |-> YieldStep(Yield, node)]
  BY <1>3, <1>4
<1>6. QED
  BY <1>5

\* yieldOperation: the node, and callbacks under its site.
Yielded(node) ==
    /\ Yield[node] \in Seq(Nodes)
    /\ \A m \in Elements(Yield[node]) : m = node \/ Decl[m].kind = "callback"
    /\ \A m \in Elements(Yield[node]) : m[1] = node[1]

LEMMA YieldStepNodes ==
    ASSUME NEW node \in Nodes, \A child \in Elements(Children(node)) : Yielded(child)
    PROVE  Yielded(node)
<1> DEFINE children == Children(node)
           below == [i \in DOMAIN children |-> Yield[children[i]]]
<1>1. Yield[node] = <<node>> \o Flatten(below)
  BY YieldUnfolds DEF YieldStep
<1>2. ASSUME NEW i \in DOMAIN children
      PROVE  below[i] \in Seq(Nodes) /\ \A m \in Elements(below[i]) : Decl[m].kind = "callback" /\ m[1] = node[1]
  <2>1. children[i] \in Elements(Children(node))
    BY DEF Elements
  <2>2. Yielded(children[i]) /\ Decl[children[i]].kind = "callback" /\ children[i][1] = node[1]
    BY <2>1, ChildIsNode
  <2>3. below[i] = Yield[children[i]]
    OBVIOUS
  <2> HIDE DEF children, below
  <2>4. QED
    BY <2>2, <2>3 DEF Yielded
<1>3. below \in Seq(Seq(Nodes)) /\ DOMAIN below = DOMAIN children
  <2>1. DOMAIN children = 1..Len(Declared[NameOf(node)].callbacks)
    BY DEF Children
  <2>2. Len(Declared[NameOf(node)].callbacks) \in Nat
    BY NodeFacts, OperationsAssumption DEF NodeAt, DeclarationType
  <2>3. below = [i \in DOMAIN children |-> below[i]]
    OBVIOUS
  <2> HIDE DEF children, below
  <2>4. QED
    BY <1>2, <2>1, <2>2, <2>3
<1> HIDE DEF below, children
<1>4. /\ Flatten(below) \in Seq(Nodes)
      /\ Elements(Flatten(below)) = UNION {Elements(below[i]) : i \in DOMAIN below}
  BY <1>3, FlattenElements
<1> DEFINE first == <<node>>
           rest == Flatten(below)
<1>5. first \in Seq(Nodes) /\ Elements(first) = {node} /\ rest \in Seq(Nodes)
  BY <1>4 DEF Elements
<1>6. Yield[node] \in Seq(Nodes) /\ Elements(Yield[node]) = {node} \cup Elements(rest)
  <2>1. Yield[node] = first \o rest
    BY <1>1
  <2> HIDE DEF first, rest
  <2>2. first \o rest \in Seq(Nodes) /\ Elements(first \o rest) = Elements(first) \cup Elements(rest)
    BY <1>5, ElementsOfBoth
  <2>3. QED
    BY <1>5, <2>1, <2>2
<1>7. QED
  BY <1>2, <1>3, <1>4, <1>6 DEF Yielded

LEMMA YieldNodes == \A node \in Nodes : Yielded(node)
<1> DEFINE bad == {d \in 0..Depth : \E node \in Nodes : Depth - Len(node) = d /\ ~Yielded(node)}
<1>0. Depth \in Nat
  BY OperationsAssumption
<1>1. bad = {}
  <2> SUFFICES ASSUME bad # {} PROVE FALSE
    OBVIOUS
  <2>1. PICK b \in bad : \A d \in bad : b <= d
    <3>1. bad \in SUBSET Nat
      OBVIOUS
    <3> HIDE DEF bad
    <3>2. QED
      BY <3>1, LeastNumber
  <2>2. PICK node \in Nodes : Depth - Len(node) = b /\ ~Yielded(node)
    OBVIOUS
  <2>3. ASSUME NEW child \in Elements(Children(node)) PROVE Yielded(child)
    <3>1. child \in Nodes /\ Len(child) = Len(node) + 1 /\ Len(child) \in 1..Depth /\ Len(node) \in Nat
      BY ChildIsNode, NodeFacts
    <3>2. Depth - Len(child) \in 0..Depth /\ ~(b <= Depth - Len(child))
      BY <1>0, <2>2, <3>1
    <3>3. Depth - Len(child) \notin bad
      BY <2>1, <3>2
    <3>4. QED
      BY <3>1, <3>2, <3>3
  <2>4. QED
    BY <2>2, <2>3, YieldStepNodes
<1>2. ASSUME NEW node \in Nodes, ~Yielded(node) PROVE FALSE
  <2>1. Depth - Len(node) \in 0..Depth
    BY <1>0, NodeFacts
  <2>2. Depth - Len(node) \in bad
    BY <1>2, <2>1
  <2>3. QED
    BY <1>1, <2>2
<1>3. QED
  BY <1>2

\* A node stands under a route or a webhook that a document lists.
Listed(node, recs, hooks, R) ==
    \/ \E s \in Elements(recs) : /\ ~(Decl[Root(s)].catchAll /\ HasPath(Root(s), R))
                                 /\ node \in Elements(Yield[Root(s)])
    \/ \E s \in Elements(hooks) : node \in Elements(Yield[Root(s)])

LEMMA OperationsListed ==
    ASSUME NEW recs \in Seq(Sites), NEW hooks \in Seq(Sites), NEW R
    PROVE  /\ OperationsOf(recs, hooks, R) \in Seq(Nodes)
           /\ \A node : node \in Elements(OperationsOf(recs, hooks, R)) <=> Listed(node, recs, hooks, R)
<1> DEFINE skipped(s) == Decl[Root(s)].catchAll /\ HasPath(Root(s), R)
           routes == [i \in DOMAIN recs |-> IF skipped(recs[i]) THEN <<>> ELSE Yield[Root(recs[i])]]
           others == [i \in DOMAIN hooks |-> Yield[Root(hooks[i])]]
<1>1. ASSUME NEW s \in Sites PROVE Yield[Root(s)] \in Seq(Nodes)
  BY RootIsNode, YieldNodes DEF Yielded
<1>2. /\ DOMAIN recs = 1..Len(recs) /\ Len(recs) \in Nat /\ \A i \in DOMAIN recs : recs[i] \in Sites
      /\ DOMAIN hooks = 1..Len(hooks) /\ Len(hooks) \in Nat /\ \A i \in DOMAIN hooks : hooks[i] \in Sites
  OBVIOUS
<1> HIDE DEF skipped
<1>3. routes \in Seq(Seq(Nodes)) /\ DOMAIN routes = DOMAIN recs
  <2>1. ASSUME NEW i \in DOMAIN recs PROVE routes[i] \in Seq(Nodes)
    BY <1>1, <1>2
  <2>2. QED
    BY <1>2, <2>1
<1>4. others \in Seq(Seq(Nodes)) /\ DOMAIN others = DOMAIN hooks
  <2>1. ASSUME NEW i \in DOMAIN hooks PROVE others[i] \in Seq(Nodes)
    BY <1>1, <1>2
  <2>2. QED
    BY <1>2, <2>1
<1>5. OperationsOf(recs, hooks, R) = Flatten(routes) \o Flatten(others)
  BY DEF OperationsOf, skipped
<1>6. ASSUME NEW node
      PROVE  (\E i \in DOMAIN routes : node \in Elements(routes[i]))
                <=> \E s \in Elements(recs) : ~skipped(s) /\ node \in Elements(Yield[Root(s)])
  <2>1. Elements(<<>>) = {}
    BY DEF Elements
  <2>2. ASSUME NEW i \in DOMAIN recs
        PROVE  node \in Elements(routes[i]) <=> ~skipped(recs[i]) /\ node \in Elements(Yield[Root(recs[i])])
    <3>1. routes[i] = IF skipped(recs[i]) THEN <<>> ELSE Yield[Root(recs[i])]
      OBVIOUS
    <3> HIDE DEF routes
    <3>2. QED
      BY <2>1, <3>1
  <2>3. (\E s \in Elements(recs) : ~skipped(s) /\ node \in Elements(Yield[Root(s)]))
           <=> \E i \in DOMAIN recs : ~skipped(recs[i]) /\ node \in Elements(Yield[Root(recs[i])])
    BY DEF Elements
  <2> HIDE DEF routes
  <2>4. QED
    BY <1>3, <2>2, <2>3
<1>7. ASSUME NEW node
      PROVE  (\E i \in DOMAIN others : node \in Elements(others[i]))
                <=> \E s \in Elements(hooks) : node \in Elements(Yield[Root(s)])
  BY <1>4 DEF Elements
<1> HIDE DEF routes, others
<1>8. /\ Flatten(routes) \in Seq(Nodes)
      /\ Elements(Flatten(routes)) = UNION {Elements(routes[i]) : i \in DOMAIN routes}
  BY <1>3, FlattenElements
<1>9. /\ Flatten(others) \in Seq(Nodes)
      /\ Elements(Flatten(others)) = UNION {Elements(others[i]) : i \in DOMAIN others}
  BY <1>4, FlattenElements
<1>10. /\ OperationsOf(recs, hooks, R) \in Seq(Nodes)
       /\ Elements(OperationsOf(recs, hooks, R)) = Elements(Flatten(routes)) \cup Elements(Flatten(others))
  BY <1>5, <1>8, <1>9, ElementsOfBoth
<1>11. ASSUME NEW node
       PROVE  node \in Elements(OperationsOf(recs, hooks, R)) <=> Listed(node, recs, hooks, R)
  <2>1. node \in Elements(OperationsOf(recs, hooks, R))
           <=> \/ \E i \in DOMAIN routes : node \in Elements(routes[i])
               \/ \E i \in DOMAIN others : node \in Elements(others[i])
    BY <1>8, <1>9, <1>10
  <2>2. QED
    BY <1>6, <1>7, <2>1 DEF Listed, skipped
<1>12. QED
  BY <1>10, <1>11

\* What OperationsOf lists besides the records are webhooks and callbacks.
LEMMA RoutesAreRecords ==
    ASSUME NEW recs \in Seq(Sites), NEW hooks \in Seq(Sites), NEW R,
           \A s \in Elements(hooks) : Declared[s].kind = "webhook",
           NEW node, Listed(node, recs, hooks, R), Decl[node].kind = "route"
    PROVE  \E s \in Elements(recs) : node = Root(s)
<1>1. ASSUME NEW s \in Elements(recs) \cup Elements(hooks), node \in Elements(Yield[Root(s)])
      PROVE  node = Root(s) /\ Decl[Root(s)] = Declared[s]
  <2>1. s \in Sites
    BY DEF Elements
  <2>2. Root(s) \in Nodes /\ Decl[Root(s)] = Declared[s] /\ Yielded(Root(s))
    BY <2>1, RootIsNode, YieldNodes
  <2>3. node = Root(s) \/ Decl[node].kind = "callback"
    BY <1>1, <2>2 DEF Yielded
  <2>4. QED
    BY <2>2, <2>3
<1>2. CASE \E s \in Elements(recs) : node \in Elements(Yield[Root(s)])
  BY <1>1, <1>2
<1>3. CASE \E s \in Elements(hooks) : node \in Elements(Yield[Root(s)])
  BY <1>1, <1>3
<1>4. QED
  BY <1>2, <1>3 DEF Listed

(***************************************************************************)
(* The lists of a generator, and what a successful build froze.            *)
(***************************************************************************)

OfKind(kind) == {s \in Sites : Declared[s].kind = kind}

ListsInv ==
    /\ program \in Programs
    /\ records \in Seq(OfKind("route"))
    /\ webhooks \in Seq(OfKind("webhook"))

\* A document froze only on an empty report, and nothing joins it afterwards.
FrozenInv ==
    frozen => /\ ResolveProblems(records, resolved) = {}
              /\ IdProblems(OperationsOf(records, webhooks, resolved), resolved) = {}
              /\ LinkProblems(records, webhooks, resolved) = {}

LEMMA ListsInductive == ListsInv /\ [Next]_vars => ListsInv'
<1> SUFFICES ASSUME ListsInv, [Next]_vars PROVE ListsInv'
  OBVIOUS
<1>0. program \subseteq Sites
  BY DEF ListsInv, Sites
<1>1. ASSUME NEW s \in program, Check(s) PROVE ListsInv'
  BY <1>1 DEF Check, ListsInv
<1>2. ASSUME NEW s \in program, AddRoute(s) PROVE ListsInv'
  <2>1. s \in OfKind("route")
    BY <1>0, <1>2 DEF AddRoute, OfKind
  <2>2. QED
    BY <1>2, <2>1 DEF AddRoute, ListsInv
<1>3. ASSUME NEW s \in program, AddWebhook(s) PROVE ListsInv'
  <2>1. s \in OfKind("webhook")
    BY <1>0, <1>3 DEF AddWebhook, OfKind
  <2>2. webhooks' = webhooks \/ webhooks' = Append(webhooks, s)
    BY <1>3 DEF AddWebhook
  <2>3. QED
    BY <1>3, <2>1, <2>2 DEF AddWebhook, ListsInv
<1>4. ASSUME NEW s \in program, TooLate(s) PROVE ListsInv'
  BY <1>4 DEF TooLate, ListsInv
<1>5. ASSUME NEW s \in program, Adopt(s) PROVE ListsInv'
  BY <1>5 DEF Adopt, ListsInv
<1>6. CASE Build
  BY <1>6 DEF Build, ListsInv
<1>7. CASE UNCHANGED vars
  BY <1>7 DEF vars, ListsInv
<1>8. QED
  BY <1>1, <1>2, <1>3, <1>4, <1>5, <1>6, <1>7 DEF Next

LEMMA FrozenInductive == FrozenInv /\ [Next]_vars => FrozenInv'
<1> SUFFICES ASSUME FrozenInv, [Next]_vars PROVE FrozenInv'
  OBVIOUS
<1>1. CASE UNCHANGED <<records, webhooks, resolved, frozen>>
  BY <1>1 DEF FrozenInv
<1>2. ASSUME NEW s \in program, AddRoute(s) \/ AddWebhook(s) \/ Adopt(s) PROVE FrozenInv'
  BY <1>2 DEF AddRoute, AddWebhook, Adopt, FrozenInv
<1>3. CASE Build
  <2>1. frozen' => /\ ResolveProblems(records, resolved) = {}
                   /\ IdProblems(OperationsOf(records, webhooks, resolved), resolved) = {}
                   /\ LinkProblems(records, webhooks, resolved) = {}
    BY <1>3 DEF Build
  <2>2. UNCHANGED <<records, webhooks, resolved>>
    BY <1>3 DEF Build
  <2>3. QED
    BY <2>1, <2>2 DEF FrozenInv
<1>4. ASSUME NEW s \in program, Check(s) \/ TooLate(s) PROVE UNCHANGED <<records, webhooks, resolved, frozen>>
  BY <1>4 DEF Check, TooLate
<1>5. CASE UNCHANGED vars
  BY <1>1, <1>5 DEF vars
<1>6. QED
  BY <1>1, <1>2, <1>3, <1>4, <1>5 DEF Next

LEMMA ListsHold == Spec => [](ListsInv /\ FrozenInv)
<1>1. Init => ListsInv /\ FrozenInv
  BY DEF Init, ListsInv, FrozenInv
<1>2. (ListsInv /\ FrozenInv) /\ [Next]_vars => (ListsInv /\ FrozenInv)'
  BY ListsInductive, FrozenInductive
<1>3. QED
  BY <1>1, <1>2, PTL DEF Spec

LEMMA ListedKinds ==
    ASSUME NEW recs \in Seq(OfKind("route")), NEW hooks \in Seq(OfKind("webhook"))
    PROVE  /\ recs \in Seq(Sites) /\ hooks \in Seq(Sites)
           /\ \A s \in Elements(recs) : s \in Sites /\ Declared[s].kind = "route"
           /\ \A s \in Elements(hooks) : Declared[s].kind = "webhook"
  BY DEF OfKind, Elements

(***************************************************************************)
(* Links.                                                                  *)
(***************************************************************************)

\* Every link of a document leads to one of its operations: a route without a
\* path, which puts the check off, is an error of its own (checkLinks).
THEOREM LinksLead == Spec => []LinksResolve
<1>1. FrozenInv => LinksResolve
  <2> SUFFICES ASSUME FrozenInv, frozen, NEW n \in Document
               PROVE  Decl[n].links \subseteq {EmittedId(m, resolved) : m \in Document}
    BY DEF LinksResolve
  <2> DEFINE ids == {EmittedId(m, resolved) : m \in Document}
  <2>1. ResolveProblems(records, resolved) = {} /\ LinkProblems(records, webhooks, resolved) = {}
    BY DEF FrozenInv
  <2>2. ~IdsOpen(records, resolved)
    BY <2>1 DEF ResolveProblems, IdsOpen
  <2>3. ASSUME NEW id \in Decl[n].links, id \notin ids PROVE FALSE
    <3> DEFINE missing(m) == {[what |-> "missingId", op |-> m, other |-> i] : i \in Decl[m].links \ ids}
    <3>1. LinkProblems(records, webhooks, resolved) = UNION {missing(m) : m \in Document}
      BY <2>2 DEF LinkProblems, Linking, Document
    <3>2. [what |-> "missingId", op |-> n, other |-> id] \in missing(n)
      BY <2>3
    <3> HIDE DEF missing
    <3>3. QED
      BY <2>1, <3>1, <3>2
  <2>4. QED
    BY <2>3
<1>2. QED
  BY <1>1, ListsHold, PTL

\* emittedOperationID, with and without a path.
LEMMA PathAndId ==
    ASSUME NEW node, NEW R
    PROVE  LET d == Decl[node]
           IN  /\ HasPath(node, R) => EmittedId(node, R) = IF d.raw # NoId THEN d.raw ELSE IF d.id # NoId THEN d.id
                                                          ELSE DerivedId[d.method][d.path]
               /\ ~HasPath(node, R) => EmittedId(node, R) = IF d.raw # NoId THEN d.raw ELSE d.id
<1>1. CASE HasPath(node, R)
  BY <1>1 DEF EmittedId
<1>2. CASE ~HasPath(node, R)
  BY <1>2 DEF EmittedId
<1>3. QED
  BY <1>1, <1>2

\* What is adopted later changes neither which operations were missed nor the
\* id of one that was listed, when no route without an id had no path.
LEMMA LaterIds ==
    ASSUME NEW recs \in Seq(OfKind("route")), NEW hooks \in Seq(OfKind("webhook")),
           NEW R, NEW later, R \subseteq later, ~IdsOpen(recs, R),
           NEW node \in Elements(OperationsOf(recs, <<>>, later))
    PROVE  /\ node \in Elements(OperationsOf(recs, hooks, R))
           /\ EmittedId(node, later) = EmittedId(node, R)
<1>0. <<>> \in Seq(OfKind("webhook")) /\ Elements(<<>>) = {}
  BY DEF Elements
<1>1. Listed(node, recs, <<>>, later)
  BY <1>0, ListedKinds, OperationsListed
<1>2. ASSUME NEW n, HasPath(n, R) PROVE HasPath(n, later)
  BY <1>2 DEF HasPath
<1>3. Listed(node, recs, hooks, R)
  BY <1>0, <1>1, <1>2 DEF Listed
<1>4. node \in Elements(OperationsOf(recs, hooks, R))
  BY <1>3, ListedKinds, OperationsListed
<1>5. CASE (HasPath(node, R) /\ HasPath(node, later)) \/ (~HasPath(node, R) /\ ~HasPath(node, later))
  BY <1>4, <1>5, PathAndId
<1>6. CASE ~HasPath(node, R) /\ HasPath(node, later)
  <2>1. PICK s \in Elements(recs) : node = Root(s)
    BY <1>3, <1>6, ListedKinds, RoutesAreRecords DEF HasPath
  <2>2. EmittedId(node, R) # NoId
    BY <1>6, <2>1 DEF IdsOpen
  <2>3. QED
    BY <1>4, <1>6, <2>2, PathAndId
<1>7. QED
  BY <1>2, <1>4, <1>5, <1>6

LEMMA IdProblemsKind ==
    ASSUME NEW ops, NEW R, NEW p \in IdProblems(ops, R)
    PROVE  p.what = "duplicateId"
<1> DEFINE first(i) == CHOOSE j \in 1..i : /\ EmittedId(ops[j], R) = EmittedId(ops[i], R)
                                          /\ \A k \in 1..(j - 1) : EmittedId(ops[k], R) # EmittedId(ops[i], R)
<1>1. \E i : p = [what |-> "duplicateId", op |-> ops[i], other |-> ops[first(i)]]
  BY Zenon DEF IdProblems
<1> HIDE DEF first
<1>2. QED
  BY <1>1

LEMMA BuildLinksStand == ListsInv /\ Build => LinkErrorsStand'
<1> SUFFICES ASSUME ListsInv, Build,
                    NEW p \in report', p.what = "missingId", NEW R \in SUBSET program', resolved' \subseteq R
             PROVE  p.other \notin {EmittedId(n, R) : n \in Elements(OperationsOf(built', <<>>, R))}
  BY DEF LinkErrorsStand
<1>1. built' = records /\ resolved' = resolved
  BY DEF Build
<1>2. PICK recs \in Seq(OfKind("route")), hooks \in Seq(OfKind("webhook")), R0 \in {resolved} :
            recs = records /\ hooks = webhooks /\ R0 = resolved
  BY DEF ListsInv
<1>3. p \in LinkProblems(recs, hooks, R0)
  <2>1. p \in ResolveProblems(records, resolved) \cup IdProblems(OperationsOf(records, webhooks, resolved), resolved)
              \cup LinkProblems(records, webhooks, resolved)
    BY DEF Build
  <2>2. ASSUME p \in ResolveProblems(records, resolved) PROVE p.what \in {"unresolved", "duplicateRoute"}
    BY <2>2 DEF ResolveProblems
  <2>3. ASSUME p \in IdProblems(OperationsOf(records, webhooks, resolved), resolved) PROVE p.what = "duplicateId"
    BY <2>3, IdProblemsKind
  <2>4. QED
    BY <1>2, <2>1, <2>2, <2>3
<1>4. ~IdsOpen(recs, R0) /\ p.other \notin {EmittedId(n, R0) : n \in Elements(OperationsOf(recs, hooks, R0))}
  <2> DEFINE ids == {EmittedId(n, R0) : n \in Elements(OperationsOf(recs, hooks, R0))}
             missing(n) == {[what |-> "missingId", op |-> n, other |-> id] : id \in Decl[n].links \ ids}
  <2>1. LinkProblems(recs, hooks, R0) =
            IF IdsOpen(recs, R0) THEN {} ELSE UNION {missing(n) : n \in Elements(Linking(recs, hooks, R0))}
    BY DEF LinkProblems
  <2>2. ASSUME NEW n, p \in missing(n) PROVE p.other \notin ids
    <3> HIDE DEF ids
    <3>1. QED
      BY <2>2
  <2> HIDE DEF missing, ids
  <2>3. ~IdsOpen(recs, R0) /\ p.other \notin ids
    BY <1>3, <2>1, <2>2
  <2>4. QED
    BY <2>3 DEF ids
<1>5. ASSUME NEW n \in Elements(OperationsOf(recs, <<>>, R)) PROVE p.other # EmittedId(n, R)
  <2>1. R0 \subseteq R
    BY <1>1, <1>2
  <2>2. n \in Elements(OperationsOf(recs, hooks, R0)) /\ EmittedId(n, R) = EmittedId(n, R0)
    BY <1>2, <1>4, <2>1, LaterIds
  <2>3. QED
    BY <1>4, <2>2
<1>6. QED
  BY <1>1, <1>2, <1>5

\* An error about a link stays right whatever is adopted after it: the missing
\* id is not one that a route is yet to get (checkLinks).
THEOREM LinkErrorsHold == Spec => []LinkErrorsStand
<1>1. Init => LinkErrorsStand
  BY DEF Init, LinkErrorsStand
<1>2. ListsInv /\ LinkErrorsStand /\ [Next]_vars => LinkErrorsStand'
  <2> SUFFICES ASSUME ListsInv, LinkErrorsStand, [Next]_vars PROVE LinkErrorsStand'
    OBVIOUS
  <2>1. CASE UNCHANGED <<program, report, built>> /\ resolved \subseteq resolved'
    BY <2>1 DEF LinkErrorsStand
  <2>2. ASSUME NEW s \in program, Check(s) \/ AddRoute(s) \/ AddWebhook(s) \/ TooLate(s) \/ Adopt(s)
        PROVE  UNCHANGED <<program, report, built>> /\ resolved \subseteq resolved'
    BY <2>2 DEF Check, AddRoute, AddWebhook, TooLate, Adopt
  <2>3. CASE Build
    BY <2>3, BuildLinksStand
  <2>4. CASE UNCHANGED vars
    BY <2>1, <2>4 DEF vars
  <2>5. QED
    BY <2>1, <2>2, <2>3, <2>4 DEF Next
<1>3. QED
  BY <1>1, <1>2, ListsHold, PTL DEF Spec

(***************************************************************************)
(* Parents.                                                                *)
(***************************************************************************)

ParentsInv ==
    /\ state \in [program -> {"idle", "checked", "added", "failed"}]
    /\ \A n \in DOMAIN parents : parents[n] = Front(n)
    /\ \A s \in program : state[s] \in {"checked", "added"} =>
            \A n \in Below(s) : Len(n) > 1 => n \in DOMAIN parents

LEMMA ParentsInductive == ParentsInv /\ [Next]_vars => ParentsInv'
<1> SUFFICES ASSUME ParentsInv, [Next]_vars PROVE ParentsInv'
  OBVIOUS
<1>1. ASSUME NEW s \in program, Check(s) PROVE ParentsInv'
  <2> DEFINE below == {n \in Below(s) : Len(n) > 1}
  <2>1. CASE \A n \in Below(s) : GoodNode(n)
    <3>1. /\ state' = [state EXCEPT ![s] = "checked"] /\ program' = program
          /\ parents' = [c \in DOMAIN parents \cup below |->
                            IF c \in below THEN Front(CHOOSE n \in below : n = c) ELSE parents[c]]
      <4>1. {Cell(n) : n \in below} = below
        BY DEF Cell
      <4>2. QED
        BY <1>1, <2>1, <4>1 DEF Check, Cell
    <3>2. \A c \in below : (CHOOSE n \in below : n = c) = c
      OBVIOUS
    <3> HIDE DEF below
    <3>3. DOMAIN parents' = DOMAIN parents \cup below /\ \A n \in DOMAIN parents' : parents'[n] = Front(n)
      BY <3>1, <3>2 DEF ParentsInv
    <3>4. ASSUME NEW r \in program, state'[r] \in {"checked", "added"}, NEW n \in Below(r), Len(n) > 1
          PROVE  n \in DOMAIN parents'
      <4>1. CASE r = s
        BY <3>3, <3>4, <4>1 DEF below
      <4>2. CASE r # s
        <5>1. state'[r] = state[r]
          BY <3>1, <4>2 DEF ParentsInv
        <5>2. QED
          BY <3>3, <3>4, <5>1 DEF ParentsInv
      <4>3. QED
        BY <4>1, <4>2
    <3>5. state' \in [program -> {"idle", "checked", "added", "failed"}]
      BY <3>1 DEF ParentsInv
    <3>6. QED
      BY <3>1, <3>3, <3>4, <3>5 DEF ParentsInv
  <2>2. CASE ~\A n \in Below(s) : GoodNode(n)
    <3>1. state' = [state EXCEPT ![s] = "failed"] /\ UNCHANGED <<program, parents>>
      BY <1>1, <2>2 DEF Check
    <3>2. QED
      BY <3>1 DEF ParentsInv
  <2>3. QED
    BY <2>1, <2>2
<1>2. ASSUME NEW s \in program, AddRoute(s) \/ AddWebhook(s) \/ TooLate(s) PROVE ParentsInv'
  <2>1. /\ state[s] = "checked" /\ UNCHANGED <<program, parents>>
        /\ \E new \in {"added", "failed"} : state' = [state EXCEPT ![s] = new]
    BY <1>2 DEF AddRoute, AddWebhook, TooLate
  <2>2. QED
    BY <2>1 DEF ParentsInv
<1>3. ASSUME NEW s \in program, Adopt(s) PROVE ParentsInv'
  BY <1>3 DEF Adopt, ParentsInv
<1>4. CASE Build
  BY <1>4 DEF Build, ParentsInv
<1>5. CASE UNCHANGED vars
  BY <1>5 DEF vars, ParentsInv
<1>6. QED
  BY <1>1, <1>2, <1>3, <1>4, <1>5 DEF Next

\* The parent of a callback is the operation above it, on every route that
\* lists the same callbacks (checkCallbacks clones the list).
THEOREM ParentsName == Spec => []ParentsAreTrue
<1>1. Init => ParentsInv
  BY DEF Init, ParentsInv
<1>2. ParentsInv => ParentsAreTrue
  BY DEF ParentsInv, ParentsAreTrue, Cell
<1>3. QED
  BY <1>1, <1>2, ParentsInductive, PTL DEF Spec

(***************************************************************************)
(* Ids.                                                                    *)
(***************************************************************************)

IsFirst(ops, R, i, j) ==
    /\ j \in 1..i
    /\ EmittedId(ops[j], R) = EmittedId(ops[i], R)
    /\ \A k \in 1..(j - 1) : EmittedId(ops[k], R) # EmittedId(ops[i], R)

FirstOf(ops, R, i) == CHOOSE j \in 1..i : /\ EmittedId(ops[j], R) = EmittedId(ops[i], R)
                                          /\ \A k \in 1..(j - 1) : EmittedId(ops[k], R) # EmittedId(ops[i], R)

\* owners: checkOperationIDs keeps the first operation that has an id.
LEMMA FirstExists ==
    ASSUME NEW ops, NEW R, NEW i \in Nat \ {0}
    PROVE  IsFirst(ops, R, i, FirstOf(ops, R, i))
<1> DEFINE same == {j \in 1..i : EmittedId(ops[j], R) = EmittedId(ops[i], R)}
<1>1. i \in same /\ same \in SUBSET Nat
  OBVIOUS
<1>2. PICK j \in same : \A k \in same : j <= k
  <2> HIDE DEF same
  <2>1. QED
    BY <1>1, LeastNumber
<1>3. ASSUME NEW k \in 1..(j - 1) PROVE EmittedId(ops[k], R) # EmittedId(ops[i], R)
  <2>1. k \in 1..i /\ ~(j <= k)
    OBVIOUS
  <2>2. k \notin same
    BY <1>2, <2>1
  <2>3. QED
    BY <2>1, <2>2
<1>4. QED
  BY <1>3 DEF IsFirst, FirstOf

LEMMA FirstIsShared ==
    ASSUME NEW ops, NEW R, NEW i \in Nat \ {0}, NEW j \in Nat \ {0},
           EmittedId(ops[i], R) = EmittedId(ops[j], R)
    PROVE  FirstOf(ops, R, i) = FirstOf(ops, R, j)
<1> DEFINE a == FirstOf(ops, R, i)
           b == FirstOf(ops, R, j)
<1>1. IsFirst(ops, R, i, a) /\ IsFirst(ops, R, j, b)
  BY FirstExists
<1> HIDE DEF a, b
<1>2. a \in Nat \ {0} /\ b \in Nat \ {0}
  BY <1>1 DEF IsFirst
<1>3. ~(a < b)
  <2>1. a < b => a \in 1..(b - 1)
    BY <1>2
  <2>2. QED
    BY <1>1, <2>1 DEF IsFirst
<1>4. ~(b < a)
  <2>1. b < a => b \in 1..(a - 1)
    BY <1>2
  <2>2. QED
    BY <1>1, <2>1 DEF IsFirst
<1>5. a = b
  BY <1>2, <1>3, <1>4
<1>6. QED
  BY <1>5 DEF a, b

\* Without a duplicate, an operation with an id is the first that has it, or
\* one route with it.
LEMMA FirstOrSameRoute ==
    ASSUME NEW ops, NEW R, IdProblems(ops, R) = {}, NEW i \in DOMAIN ops, EmittedId(ops[i], R) # NoId
    PROVE  FirstOf(ops, R, i) = i \/ SameRoute(ops[FirstOf(ops, R, i)], ops[i], R)
<1> DEFINE wrong == {k \in DOMAIN ops : /\ EmittedId(ops[k], R) # NoId /\ FirstOf(ops, R, k) # k
                                        /\ ~SameRoute(ops[FirstOf(ops, R, k)], ops[k], R)}
           problem(k) == [what |-> "duplicateId", op |-> ops[k], other |-> ops[FirstOf(ops, R, k)]]
<1>1. IdProblems(ops, R) = {problem(k) : k \in wrong}
  BY Zenon DEF IdProblems, FirstOf
<1>2. wrong = {}
  <2> HIDE DEF wrong, problem
  <2>1. QED
    BY <1>1
<1>3. QED
  BY <1>2

\* Two operations of one document that the check takes for one route are one:
\* each is a record, and validateRecords refuses a second record of its route.
LEMMA SameRouteIsOne ==
    ASSUME NEW recs \in Seq(OfKind("route")), NEW hooks \in Seq(OfKind("webhook")), NEW R,
           ResolveProblems(recs, R) = {},
           NEW a \in Elements(OperationsOf(recs, hooks, R)), NEW b \in Elements(OperationsOf(recs, hooks, R)),
           SameRoute(a, b, R)
    PROVE  a = b
<1>1. Decl[a].kind = "route" /\ Decl[b].kind = "route"
  BY DEF SameRoute, HasPath
<1>2. Listed(a, recs, hooks, R) /\ Listed(b, recs, hooks, R)
  BY ListedKinds, OperationsListed
<1>3. PICK r \in Elements(recs) : a = Root(r)
  BY <1>1, <1>2, ListedKinds, RoutesAreRecords
<1>4. PICK q \in Elements(recs) : b = Root(q)
  BY <1>1, <1>2, ListedKinds, RoutesAreRecords
<1>5. {s \in Elements(recs) : \E t \in Elements(recs) \ {s} : SameRoute(Root(t), Root(s), R)} = {}
  BY DEF ResolveProblems
<1>6. r = q
  BY <1>3, <1>4, <1>5
<1>7. QED
  BY <1>3, <1>4, <1>6

LEMMA IdsAreUnique ==
    ASSUME NEW recs \in Seq(OfKind("route")), NEW hooks \in Seq(OfKind("webhook")), NEW R,
           ResolveProblems(recs, R) = {}, IdProblems(OperationsOf(recs, hooks, R), R) = {},
           NEW a \in Elements(OperationsOf(recs, hooks, R)), NEW b \in Elements(OperationsOf(recs, hooks, R)),
           EmittedId(a, R) = EmittedId(b, R), EmittedId(a, R) # NoId
    PROVE  a = b
<1> DEFINE ops == OperationsOf(recs, hooks, R)
<1>1. ops \in Seq(Nodes)
  BY ListedKinds, OperationsListed
<1>2. ASSUME NEW k \in DOMAIN ops, EmittedId(ops[k], R) # NoId PROVE ops[FirstOf(ops, R, k)] = ops[k]
  <2>1. DOMAIN ops = 1..Len(ops) /\ Len(ops) \in Nat /\ k \in Nat \ {0}
    BY <1>1
  <2>2. FirstOf(ops, R, k) \in DOMAIN ops
    BY <2>1, FirstExists DEF IsFirst
  <2>3. ops[FirstOf(ops, R, k)] \in Elements(ops) /\ ops[k] \in Elements(ops)
    BY <2>2 DEF Elements
  <2>4. FirstOf(ops, R, k) = k \/ SameRoute(ops[FirstOf(ops, R, k)], ops[k], R)
    BY <1>2, FirstOrSameRoute
  <2>5. QED
    BY <2>3, <2>4, SameRouteIsOne
<1>3. PICK i \in DOMAIN ops : a = ops[i]
  BY DEF Elements
<1>4. PICK j \in DOMAIN ops : b = ops[j]
  BY DEF Elements
<1> HIDE DEF ops
<1>5. i \in Nat \ {0} /\ j \in Nat \ {0}
  BY <1>1
<1>6. FirstOf(ops, R, i) = FirstOf(ops, R, j)
  BY <1>3, <1>4, <1>5, FirstIsShared
<1>7. QED
  BY <1>2, <1>3, <1>4, <1>6

\* No two operations of a document have one operationId, whatever routes share
\* their callbacks and whatever is registered twice (checkOperationIDs).
THEOREM IdsNameOne == Spec => []UniqueIds
<1>1. ListsInv /\ FrozenInv => UniqueIds
  <2> SUFFICES ASSUME ListsInv, FrozenInv, frozen, NEW a \in Document, NEW b \in Document,
                      EmittedId(a, resolved) = EmittedId(b, resolved), EmittedId(a, resolved) # NoId
               PROVE  a = b
    BY DEF UniqueIds
  <2>1. PICK recs \in Seq(OfKind("route")), hooks \in Seq(OfKind("webhook")), R \in {resolved} :
              recs = records /\ hooks = webhooks /\ R = resolved
    BY DEF ListsInv
  <2>2. ResolveProblems(recs, R) = {} /\ IdProblems(OperationsOf(recs, hooks, R), R) = {}
    BY <2>1 DEF FrozenInv
  <2>3. a \in Elements(OperationsOf(recs, hooks, R)) /\ b \in Elements(OperationsOf(recs, hooks, R))
    BY <2>1 DEF Document
  <2>4. QED
    BY <2>1, <2>2, <2>3, IdsAreUnique
<1>2. QED
  BY <1>1, ListsHold, PTL

(***************************************************************************)
(* Places.                                                                 *)
(***************************************************************************)

Spot(name) ==
    LET d == Declared[name]
    IN  <<d.kind, d.path, IF d.kind = "callback" THEN d.url ELSE d.path, d.method>>

\* A callback stands where its operation stands, under its name and its url.
LEMMA PlaceOfChild ==
    ASSUME NEW node \in Seq(EntryType), NEW e \in EntryType
    PROVE  /\ Place(node) = [i \in 1..Len(node) |-> Place(Append(node, e))[i]]
           /\ Place(Append(node, e))[Len(node) + 1] = Spot(e.name)
<1> DEFINE child == Append(node, e)
<1>1. /\ Len(child) = Len(node) + 1 /\ Len(node) \in Nat /\ child[Len(node) + 1] = e
      /\ \A i \in 1..Len(node) : child[i] = node[i] /\ i \in 1..(Len(node) + 1)
  OBVIOUS
<1>2. Place(child) = [i \in 1..Len(child) |-> Spot(child[i].name)]
  BY DEF Place, Spot
<1>3. Place(node) = [i \in 1..Len(node) |-> Spot(node[i].name)]
  BY DEF Place, Spot
<1> HIDE DEF child
<1>4. Place(child)[Len(node) + 1] = Spot(e.name)
  BY <1>1, <1>2
<1>5. ASSUME NEW i \in 1..Len(node) PROVE Place(child)[i] = Spot(node[i].name)
  BY <1>1, <1>2
<1>6. QED
  BY <1>3, <1>4, <1>5 DEF child

LEMMA PlaceOfAbove ==
    ASSUME NEW k, NEW node, NodeAt(node, k), NEW child \in Elements(Children(node))
    PROVE  Place(node) = [i \in 1..k |-> Place(child)[i]]
<1> DEFINE callbacks == Declared[NameOf(node)].callbacks
<1>1. node \in Seq(EntryType) /\ Len(node) = k /\ callbacks \in Seq(Names)
  BY OperationsAssumption DEF NodeAt, DeclarationType
<1>2. PICK i \in 1..Len(callbacks) : child = Append(node, Entry(callbacks[i], i))
  BY DEF Elements, Children
<1>3. Entry(callbacks[i], i) \in EntryType
  <2>1. callbacks[i] \in Names /\ i \in Nat
    BY <1>1
  <2>2. QED
    BY <2>1 DEF Entry, EntryType
<1>4. QED
  BY <1>1, <1>2, <1>3, PlaceOfChild

\* checkCallbacks: the callbacks on one operation differ in name, url or method.
LEMMA CallbacksApart ==
    ASSUME NEW node \in Nodes, GoodNode(node),
           NEW a \in Elements(Children(node)), NEW b \in Elements(Children(node)),
           Place(a) = Place(b)
    PROVE  a = b
<1> DEFINE callbacks == Declared[NameOf(node)].callbacks
           children == Children(node)
<1>1. /\ node \in Seq(EntryType) /\ callbacks \in Seq(Names)
      /\ \A i \in DOMAIN callbacks : Declared[callbacks[i]].kind = "callback"
      /\ DOMAIN children = DOMAIN callbacks
  BY NodeFacts, OperationsAssumption DEF NodeAt, DeclarationType, Children
<1>2. ASSUME NEW i \in DOMAIN children
      PROVE  /\ Entry(callbacks[i], i) \in EntryType
             /\ children[i] = Append(node, Entry(callbacks[i], i))
             /\ Decl[children[i]] = Declared[callbacks[i]]
  <2>1. i \in Nat /\ callbacks[i] \in Names
    BY <1>1
  <2>2. Entry(callbacks[i], i) \in EntryType /\ Entry(callbacks[i], i).name = callbacks[i]
    BY <2>1 DEF Entry, EntryType
  <2>3. children[i] = Append(node, Entry(callbacks[i], i))
    BY DEF Children
  <2> HIDE DEF callbacks
  <2>4. NameOf(children[i]) = callbacks[i]
    <3>1. Len(children[i]) = Len(node) + 1 /\ children[i][Len(node) + 1] = Entry(callbacks[i], i)
      BY <1>1, <2>2, <2>3
    <3>2. QED
      BY <2>2, <3>1 DEF NameOf
  <2>5. children[i] \in Nodes
    <3>1. children[i] \in Elements(Children(node))
      BY DEF Elements
    <3>2. QED
      BY <3>1, ChildIsNode
  <2>6. QED
    BY <2>2, <2>3, <2>4, <2>5 DEF Decl
<1>3. PICK i \in DOMAIN children : a = children[i]
  BY DEF Elements
<1>4. PICK j \in DOMAIN children : b = children[j]
  BY DEF Elements
<1>5. Spot(callbacks[i]) = Spot(callbacks[j])
  <2>1. /\ Place(children[i])[Len(node) + 1] = Spot(Entry(callbacks[i], i).name)
        /\ Place(children[j])[Len(node) + 1] = Spot(Entry(callbacks[j], j).name)
    <3> HIDE DEF children, callbacks
    <3>1. ASSUME NEW k \in DOMAIN children
          PROVE  Place(children[k])[Len(node) + 1] = Spot(Entry(callbacks[k], k).name)
      <4>1. Entry(callbacks[k], k) \in EntryType /\ children[k] = Append(node, Entry(callbacks[k], k))
        BY <1>2
      <4>2. node \in Seq(EntryType)
        BY <1>1
      <4> HIDE DEF children, callbacks
      <4>3. Place(Append(node, Entry(callbacks[k], k)))[Len(node) + 1] = Spot(Entry(callbacks[k], k).name)
        BY <4>1, <4>2, PlaceOfChild
      <4>4. QED
        BY <4>1, <4>3
    <3>2. QED
      BY <3>1
  <2>2. QED
    BY <1>3, <1>4, <2>1 DEF Entry
<1>6. /\ Decl[children[i]].path = Decl[children[j]].path
      /\ Decl[children[i]].url = Decl[children[j]].url
      /\ Decl[children[i]].method = Decl[children[j]].method
  <2> HIDE DEF children, callbacks
  <2>1. Declared[callbacks[i]].kind = "callback" /\ Declared[callbacks[j]].kind = "callback"
    BY <1>1
  <2>2. QED
    BY <1>2, <1>5, <2>1 DEF Spot
<1>7. i = j
  BY <1>6 DEF GoodNode
<1>8. QED
  BY <1>3, <1>4, <1>7

\* Under one site that passed its checks, no two operations have one place.
LEMMA PlacesBelow ==
    ASSUME NEW s, \A n \in Below(s) : GoodNode(n)
    PROVE  \A n \in 1..Depth : \A a, b \in Level[n] :
                a[1] = Entry(s, 0) /\ b[1] = Entry(s, 0) /\ Place(a) = Place(b) => a = b
<1> DEFINE twins(a, b) == a[1] = Entry(s, 0) /\ b[1] = Entry(s, 0) /\ Place(a) = Place(b) /\ a # b
           bad == {n \in 1..Depth : \E a, b \in Level[n] : twins(a, b)}
<1> SUFFICES ASSUME bad # {} PROVE FALSE
  OBVIOUS
<1>1. PICK n \in bad : \A m \in bad : n <= m
  <2>1. bad \in SUBSET Nat
    OBVIOUS
  <2> HIDE DEF bad
  <2>2. QED
    BY <2>1, LeastNumber
<1>2. PICK a \in Level[n], b \in Level[n] : twins(a, b)
  OBVIOUS
<1>3. n \in 1..Depth /\ Depth \in Nat /\ Level[n] = LevelStep(Level, n) /\ NodeAt(a, n) /\ NodeAt(b, n)
  BY Levels, LevelNodes, OperationsAssumption
<1>4. n # 1
  <2>1. ASSUME n = 1 PROVE a = Root(s) /\ b = Root(s)
    BY <1>2, <1>3, <2>1 DEF NodeAt, Root, Entry
  <2>2. QED
    BY <1>2, <2>1
<1>5. n - 1 \in 1..Depth /\ ~(n <= n - 1) /\ n - 1 \notin bad
  <2>1. n - 1 \in 1..Depth /\ ~(n <= n - 1)
    BY <1>3, <1>4
  <2>2. QED
    BY <1>1, <2>1
<1>6. PICK p \in Level[n - 1] : a \in Elements(Children(p))
  BY <1>2, <1>3, <1>4 DEF LevelStep
<1>7. PICK q \in Level[n - 1] : b \in Elements(Children(q))
  BY <1>2, <1>3, <1>4 DEF LevelStep
<1>8. /\ p \in Nodes /\ q \in Nodes /\ p[1] = a[1] /\ q[1] = b[1]
      /\ NodeAt(p, n - 1) /\ NodeAt(q, n - 1)
  <2>1. p \in Nodes /\ q \in Nodes /\ NodeAt(p, n - 1) /\ NodeAt(q, n - 1)
    BY <1>5, Levels, LevelNodes
  <2>2. QED
    BY <1>6, <1>7, <2>1, ChildIsNode
<1>9. Place(p) = Place(q)
  <2>1. Place(p) = [i \in 1..(n - 1) |-> Place(a)[i]]
    BY <1>6, <1>8, PlaceOfAbove
  <2>2. Place(q) = [i \in 1..(n - 1) |-> Place(b)[i]]
    BY <1>7, <1>8, PlaceOfAbove
  <2>3. QED
    BY <1>2, <2>1, <2>2
<1>10. p = q
  <2>1. ~twins(p, q)
    BY <1>5, <1>6, <1>7
  <2>2. QED
    BY <1>2, <1>8, <1>9, <2>1
<1>11. GoodNode(p)
  <2>1. p[1].name = s
    BY <1>2, <1>8 DEF Entry
  <2>2. QED
    BY <1>8, <2>1 DEF Below
<1>12. a = b
  BY <1>2, <1>6, <1>7, <1>8, <1>10, <1>11, CallbacksApart
<1>13. QED
  BY <1>2, <1>12

\* Every site of a document passed its checks, and no two webhooks have one name
\* and method.
PlacesInv ==
    /\ state \in [program -> {"idle", "checked", "added", "failed"}]
    /\ \A s \in program : state[s] \in {"checked", "added"} => \A n \in Below(s) : GoodNode(n)
    /\ \A s \in Elements(records) \cup Elements(webhooks) : s \in program /\ state[s] = "added"
    /\ \A s, t \in Elements(webhooks) :
            Declared[s].path = Declared[t].path /\ Declared[s].method = Declared[t].method => s = t

LEMMA ElementsOfAppend ==
    ASSUME NEW T, NEW seq \in Seq(T), NEW e \in T
    PROVE  Elements(Append(seq, e)) = Elements(seq) \cup {e}
<1> DEFINE last == <<e>>
<1>1. last \in Seq(T) /\ Elements(last) = {e} /\ Append(seq, e) = seq \o last
  BY DEF Elements
<1> HIDE DEF last
<1>2. Elements(seq \o last) = Elements(seq) \cup Elements(last)
  BY <1>1, ElementsOfBoth
<1>3. QED
  BY <1>1, <1>2

LEMMA PlacesInductive == ListsInv /\ PlacesInv /\ [Next]_vars => PlacesInv'
<1> SUFFICES ASSUME ListsInv, PlacesInv, [Next]_vars PROVE PlacesInv'
  OBVIOUS
<1>0. program \subseteq Sites /\ records \in Seq(Sites) /\ webhooks \in Seq(Sites)
  BY DEF ListsInv, Sites, OfKind
<1>1. ASSUME NEW s \in program, Check(s) PROVE PlacesInv'
  <2>1. state[s] = "idle" /\ UNCHANGED <<program, records, webhooks>>
    BY <1>1 DEF Check
  <2>2. CASE \A n \in Below(s) : GoodNode(n)
    <3>1. state' = [state EXCEPT ![s] = "checked"]
      BY <1>1, <2>2 DEF Check
    <3>2. QED
      BY <2>1, <2>2, <3>1 DEF PlacesInv
  <2>3. CASE ~\A n \in Below(s) : GoodNode(n)
    <3>1. state' = [state EXCEPT ![s] = "failed"]
      BY <1>1, <2>3 DEF Check
    <3>2. QED
      BY <2>1, <3>1 DEF PlacesInv
  <2>4. QED
    BY <2>2, <2>3
<1>2. ASSUME NEW s \in program, AddRoute(s) PROVE PlacesInv'
  <2>1. /\ state[s] = "checked" /\ state' = [state EXCEPT ![s] = "added"]
        /\ UNCHANGED <<program, webhooks>> /\ records' = Append(records, s)
    BY <1>2 DEF AddRoute
  <2>2. Elements(records') = Elements(records) \cup {s}
    BY <1>0, <2>1, ElementsOfAppend
  <2>3. QED
    BY <2>1, <2>2 DEF PlacesInv
<1>3. ASSUME NEW s \in program, AddWebhook(s) PROVE PlacesInv'
  <2>1. state[s] = "checked" /\ UNCHANGED <<program, records>>
    BY <1>3 DEF AddWebhook
  <2> DEFINE taken == \E w \in Elements(webhooks) :
                          Declared[w].path = Declared[s].path /\ Declared[w].method = Declared[s].method
  <2>2. CASE taken
    <3>1. state' = [state EXCEPT ![s] = "failed"] /\ webhooks' = webhooks
      BY <1>3, <2>2 DEF AddWebhook
    <3>2. QED
      BY <2>1, <3>1 DEF PlacesInv
  <2>3. CASE ~taken
    <3>1. state' = [state EXCEPT ![s] = "added"] /\ webhooks' = Append(webhooks, s)
      BY <1>3, <2>3 DEF AddWebhook
    <3>2. Elements(webhooks') = Elements(webhooks) \cup {s}
      BY <1>0, <3>1, ElementsOfAppend
    <3>3. QED
      BY <2>1, <2>3, <3>1, <3>2 DEF PlacesInv
  <2>4. QED
    BY <2>2, <2>3
<1>4. ASSUME NEW s \in program, TooLate(s) PROVE PlacesInv'
  BY <1>4 DEF TooLate, PlacesInv
<1>5. ASSUME NEW s \in program, Adopt(s) PROVE PlacesInv'
  BY <1>5 DEF Adopt, PlacesInv
<1>6. CASE Build
  BY <1>6 DEF Build, PlacesInv
<1>7. CASE UNCHANGED vars
  BY <1>7 DEF vars, PlacesInv
<1>8. QED
  BY <1>1, <1>2, <1>3, <1>4, <1>5, <1>6, <1>7 DEF Next

\* An operation stands under one of the sites of its document.
LEMMA ListedSite ==
    ASSUME NEW recs \in Seq(OfKind("route")), NEW hooks \in Seq(OfKind("webhook")), NEW R,
           NEW node \in Elements(OperationsOf(recs, hooks, R))
    PROVE  \E s \in Elements(recs) \cup Elements(hooks) :
                s \in Sites /\ node[1] = Entry(s, 0) /\ node \in Nodes
<1>1. Listed(node, recs, hooks, R) /\ OperationsOf(recs, hooks, R) \in Seq(Nodes)
  BY ListedKinds, OperationsListed
<1>2. node \in Nodes
  BY <1>1 DEF Elements
<1>3. PICK s \in Elements(recs) \cup Elements(hooks) : node \in Elements(Yield[Root(s)])
  BY <1>1 DEF Listed
<1>4. s \in Sites
  BY <1>3, ListedKinds DEF Elements
<1>5. Root(s) \in Nodes /\ Root(s)[1] = Entry(s, 0)
  BY <1>4, RootIsNode DEF Root
<1>6. node[1] = Entry(s, 0)
  BY <1>3, <1>5, YieldNodes DEF Yielded
<1>7. QED
  BY <1>2, <1>3, <1>4, <1>6

\* Two sites of one document stand at two places.
LEMMA SitesApart ==
    ASSUME ListsInv, PlacesInv, ResolveProblems(records, resolved) = {},
           NEW s \in Elements(records) \cup Elements(webhooks),
           NEW t \in Elements(records) \cup Elements(webhooks),
           Spot(s) = Spot(t)
    PROVE  s = t
<1>1. /\ \A r \in Elements(records) : r \in Sites /\ Declared[r].kind = "route"
      /\ \A r \in Elements(webhooks) : Declared[r].kind = "webhook"
  BY DEF ListsInv, OfKind, Elements
<1>2. /\ Declared[s].kind = Declared[t].kind /\ Declared[s].path = Declared[t].path
      /\ Declared[s].method = Declared[t].method
  BY DEF Spot
<1>3. CASE s \in Elements(webhooks)
  <2>1. t \in Elements(webhooks)
    BY <1>1, <1>2, <1>3
  <2>2. QED
    BY <1>2, <1>3, <2>1 DEF PlacesInv
<1>4. CASE s \in Elements(records)
  <2>1. t \in Elements(records)
    BY <1>1, <1>2, <1>4
  <2>2. /\ {r \in Elements(records) : ~HasPath(Root(r), resolved)} = {}
        /\ {r \in Elements(records) : \E q \in Elements(records) \ {r} : SameRoute(Root(q), Root(r), resolved)} = {}
    BY DEF ResolveProblems
  <2>3. HasPath(Root(s), resolved) /\ HasPath(Root(t), resolved)
    BY <1>4, <2>1, <2>2
  <2>4. Decl[Root(s)] = Declared[s] /\ Decl[Root(t)] = Declared[t]
    BY <1>1, <1>4, <2>1, RootIsNode
  <2>5. SameRoute(Root(s), Root(t), resolved)
    BY <1>2, <2>3, <2>4 DEF SameRoute
  <2>6. QED
    BY <1>4, <2>1, <2>2, <2>5
<1>5. QED
  BY <1>3, <1>4

\* No operation of a document overwrites another: the places of two differ, at
\* their sites (validateRecords, Webhook) or at the first callback that differs
\* on the way to them (checkCallbacks).
THEOREM OperationsKeepTheirPlace == Spec => []NoOperationOverwritten
<1>1. Init => PlacesInv
  BY DEF Init, PlacesInv, Elements
<1>2. ListsInv /\ FrozenInv /\ PlacesInv => NoOperationOverwritten
  <2> SUFFICES ASSUME ListsInv, FrozenInv, PlacesInv, frozen,
                      NEW a \in Document, NEW b \in Document, Place(a) = Place(b)
               PROVE  a = b
    BY DEF NoOperationOverwritten
  <2>1. records \in Seq(OfKind("route")) /\ webhooks \in Seq(OfKind("webhook"))
    BY DEF ListsInv
  <2>2. PICK s \in Elements(records) \cup Elements(webhooks) :
                s \in Sites /\ a[1] = Entry(s, 0) /\ a \in Nodes
    BY <2>1, ListedSite DEF Document
  <2>3. PICK t \in Elements(records) \cup Elements(webhooks) :
                t \in Sites /\ b[1] = Entry(t, 0) /\ b \in Nodes
    BY <2>1, ListedSite DEF Document
  <2>4. /\ Len(a) \in 1..Depth /\ a \in Level[Len(a)]
        /\ Len(b) \in 1..Depth /\ b \in Level[Len(b)]
    BY <2>2, <2>3, NodeFacts
  <2>5. Place(a) = [i \in 1..Len(a) |-> Spot(a[i].name)] /\ Place(b) = [i \in 1..Len(b) |-> Spot(b[i].name)]
    BY DEF Place, Spot
  <2>6. Len(a) = Len(b)
    <3>1. 1..Len(a) = 1..Len(b)
      BY <2>5
    <3>2. Len(a) \in 1..Len(a) /\ Len(b) \in 1..Len(b)
      BY <2>4
    <3>3. QED
      BY <2>4, <3>1, <3>2
  <2>7. Spot(s) = Spot(t)
    <3>1. 1 \in 1..Len(a) /\ 1 \in 1..Len(b)
      BY <2>4
    <3>2. a[1].name = s /\ b[1].name = t
      BY <2>2, <2>3 DEF Entry
    <3>3. Place(a)[1] = Spot(s) /\ Place(b)[1] = Spot(t)
      BY <2>5, <3>1, <3>2
    <3>4. QED
      BY <3>3
  <2>8. s = t
    BY <2>7, SitesApart DEF FrozenInv
  <2>9. \A n \in Below(s) : GoodNode(n)
    BY DEF PlacesInv
  <2>10. QED
    BY <2>2, <2>3, <2>4, <2>6, <2>8, <2>9, PlacesBelow
<1>3. QED
  BY <1>1, <1>2, PlacesInductive, ListsHold, PTL DEF Spec
=============================================================================
