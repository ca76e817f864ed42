-------------------------- MODULE GeneratorProofs --------------------------
(***************************************************************************)
(* Theorems about the generator for every set of routes, routers, callers  *)
(* and requests, and for every bound.                                      *)
(***************************************************************************)
EXTENDS Generator, TLAPS

\* The tuples that the actions leave unchanged.
USE DEF routers, declared, frozen, calls, history, vars

\* The calls that mustBeOpen guards.
Declaration ==
    \/ \E r \in Routes : AddRoute(r)
    \/ \E w \in Webhooks : Webhook(w)
    \/ \E t \in Types, v \in VariantNames : Register(t, v)
    \/ \E t \in Types, n \in Names : SchemaName(t, n)
    \/ RejectedDeclaration

(***************************************************************************)
(* A kept error is current.                                                *)
(***************************************************************************)

\* A failed build ran at a count that was reached, and while the count stands
\* nothing that it read has changed.
KeptInv ==
    /\ inputs \in Nat /\ errAt \in Nat
    /\ errAt <= inputs
    /\ KeptErrorIsCurrent

\* The number of a failed build and the counters stay natural numbers.
LEMMA KeptInit == Init => KeptInv
BY GeneratorAssumption DEF Init, KeptInv, KeptErrorIsCurrent

LEMMA KeptBytes ==
    ASSUME NEW c, NEW via, NEW catch, KeptInv, Bytes(c, via, catch)
    PROVE  KeptInv'
<1>1. CASE specJSON # NoDocument
  BY <1>1 DEF Bytes, KeptInv, KeptErrorIsCurrent, BuildInputs
<1>2. CASE specJSON = NoDocument
  <2>1. /\ NoteOuter(via)
        /\ UNCHANGED <<records, webhooks, variants, overrides, sources>>
    BY <1>2 DEF Bytes
  <2>2. inputs' \in Nat /\ errAt <= inputs' /\ (errAt = inputs' => UNCHANGED <<outer, inputs>>)
    BY <2>1 DEF NoteOuter, KeptInv
  <2>3. CASE UNCHANGED <<specJSON, buildErr, errAt>>
    BY <2>1, <2>2, <2>3 DEF KeptInv, KeptErrorIsCurrent, BuildInputs
  <2>4. CASE KeepError(TRUE) \/ KeepError(FALSE)
    BY <2>2, <2>4 DEF KeepError, KeptInv, KeptErrorIsCurrent, BuildInputs
  <2>5. CASE Freeze
    BY <2>2, <2>5 DEF Freeze, KeptInv, KeptErrorIsCurrent
  <2>6. QED BY <1>2, <2>3, <2>4, <2>5 DEF Bytes
<1>3. QED BY <1>1, <1>2

LEMMA KeptStep == KeptInv /\ [Next]_vars => KeptInv'
<1> SUFFICES ASSUME KeptInv, [Next]_vars PROVE KeptInv'
  OBVIOUS
<1>1. CASE Declaration
  <2>1. errAt' = errAt /\ inputs' = inputs + 1
    BY <1>1 DEF Declaration, AddRoute, Webhook, Register, SchemaName, RejectedDeclaration, MustBeOpen
  <2>2. QED BY <2>1 DEF KeptInv, KeptErrorIsCurrent
<1>2. CASE \E s \in Routers : Adopt(s)
  BY <1>2 DEF Adopt, KeptInv, KeptErrorIsCurrent
<1>3. CASE \/ \E m \in PossibleMounts : Mount(m)
           \/ \E e \in Strays : Stray(e)
           \/ \E c \in Callers : Serving(c)
           \/ SpecStatuses
           \/ UNCHANGED vars
  BY <1>3 DEF Mount, Stray, Serving, LogFailure, ReplyFailed, ReplyDocument, SpecStatuses,
              KeptInv, KeptErrorIsCurrent, BuildInputs
<1>4. CASE \E c \in Callers : Build(c) \/ \E q \in Requests : Serve(c, q)
  BY <1>4, KeptBytes DEF Build, Serve
<1>5. QED BY <1>1, <1>2, <1>3, <1>4 DEF Next, Declaration

\* Every behaviour keeps only errors that are still true of the generator's own
\* inputs (serve.go, bytes): a registration, an Adopt or another outer router
\* makes the next call build again.
THEOREM KeptErrors == Spec => []KeptErrorIsCurrent
<1>1. KeptInv => KeptErrorIsCurrent
  BY DEF KeptInv
<1>2. QED BY KeptInit, KeptStep, <1>1, PTL DEF Spec

(***************************************************************************)
(* The freeze.                                                             *)
(***************************************************************************)

LEMMA FrozenStep == [Next]_vars => [specJSON # NoDocument => UNCHANGED <<specJSON, declared>>]_vars
<1> SUFFICES ASSUME Next, specJSON # NoDocument PROVE UNCHANGED <<specJSON, declared>>
  OBVIOUS
<1>1. ~Declaration
  BY DEF Declaration, AddRoute, Webhook, Register, SchemaName, RejectedDeclaration, MustBeOpen
<1>2. ASSUME NEW c, NEW via, NEW catch, Bytes(c, via, catch) PROVE UNCHANGED <<specJSON, declared>>
  BY <1>2 DEF Bytes
<1>3. QED
  BY <1>1, <1>2 DEF Next, Declaration, Adopt, Mount, Stray, Serving, LogFailure, ReplyFailed,
                    ReplyDocument, SpecStatuses, Build, Serve

\* A published document never changes and no registration follows it
\* (specout.go, mustBeOpen; serve.go, bytes).
THEOREM Freezes == Spec => FrozenForever
BY FrozenStep, PTL DEF Spec, FrozenForever

(***************************************************************************)
(* Types.                                                                  *)
(***************************************************************************)

LEMMA TypeInit == Init => TypeOK
BY GeneratorAssumption, RoutesAssumption DEF Init, TypeOK, Answers

\* The walk of a chi router reports handlers at paths.
LEMMA HitsArePaths ==
    ASSUME NEW t \in SUBSET Entries, NEW m \in SUBSET MountPoints, NEW ss, NEW r
    PROVE  Hits(t, m, ss, r) \subseteq Paths
BY DEF Hits, Walk, Paths, Entries, MountPoints

LEMMA PairedType ==
    ASSUME NEW t, NEW m, NEW ss, NEW rs
    PROVE  Paired(t, m, ss, rs) \in [Routes -> Paths \cup {NoPath}]
<1> SUFFICES ASSUME NEW r \in Routes PROVE Paired(t, m, ss, rs)[r] \in Paths \cup {NoPath}
  BY DEF Paired
<1>1. Relative(r) \/ <<NoPrefix, Decl[r].pattern>> \in Paths
  BY RoutesAssumption DEF Relative, Paths
<1>2. QED BY <1>1 DEF Paired

LEMMA NewDocumentType ==
    ASSUME TypeOK, full' \in [Routes -> Paths \cup {NoPath}]
    PROVE  NewDocument \in Documents
<1>1. ReflectedTypes \subseteq Types
  <2>1. \A x \in Described : Uses[x] \subseteq Types /\ Unions[x] \subseteq VariantNames
    BY GeneratorAssumption DEF Described, TypeOK
  <2>2. QED BY <2>1 DEF ReflectedTypes, NeededVariants, TypeOK
<1>2. \A t \in Types : ComponentName(t) \in Names
  BY GeneratorAssumption DEF ComponentName, TypeOK
<1>3. {<<t, ComponentName(t)>> : t \in ReflectedTypes} \in SUBSET (Types \X Names)
  BY <1>1, <1>2
<1>4. [r \in Described \ webhooks |-> full'[r]] \in UNION {[S -> Paths \cup {NoPath}] : S \in SUBSET Routes}
  <2>1. Described \ webhooks \in SUBSET Routes
    BY DEF Described, TypeOK
  <2>2. [r \in Described \ webhooks |-> full'[r]] \in [Described \ webhooks -> Paths \cup {NoPath}]
    BY <2>1
  <2>3. QED BY <2>1, <2>2
<1>5. QED BY <1>3, <1>4 DEF NewDocument, Documents, TypeOK

LEMMA TypeBytes ==
    ASSUME TypeOK, NEW c \in Callers, NEW via \in Routers \cup {NoRouter}, NEW catch \in BOOLEAN,
           Bytes(c, via, catch)
    PROVE  /\ outer' \in Routers \cup {NoRouter}
           /\ inputs' \in Nat /\ errAt' \in Nat /\ attempts' \in Nat /\ spent' \in Nat
           /\ failed' \subseteq Nat
           /\ full' \in [Routes -> Paths \cup {NoPath}]
           /\ specJSON' \in Documents \cup {NoDocument}
           /\ result' \in [Callers -> Answers]
<1>1. CASE specJSON # NoDocument
  <2>1. /\ Returns(c, Document(specJSON))
        /\ UNCHANGED <<frozen, outer, inputs, full, attempts, spent, failed>>
    BY <1>1 DEF Bytes
  <2>2. Document(specJSON) \in Answers
    BY <1>1 DEF Document, Answers, TypeOK
  <2>3. QED BY <2>1, <2>2 DEF Returns, TypeOK
<1>2. CASE specJSON = NoDocument
  <2>1. outer' \in Routers \cup {NoRouter} /\ inputs' \in Nat
    <3>1. NoteOuter(via)
      BY <1>2 DEF Bytes
    <3>2. QED BY <3>1 DEF NoteOuter, TypeOK
  <2>2. CASE IsKept(catch)
    <3>1. /\ UNCHANGED <<frozen, full, attempts, spent, failed>>
          /\ Returns(c, Failure(buildErr.id, FALSE))
      BY <1>2, <2>2 DEF Bytes
    <3>2. Failure(buildErr.id, FALSE) \in Answers
      BY <2>2 DEF IsKept, TypeOK, Failure, Answers
    <3>3. QED BY <2>1, <3>1, <3>2 DEF TypeOK, Returns
  <2>3. CASE ~IsKept(catch)
    <3>1. /\ Encode /\ spent' = (IF catch THEN spent + 1 ELSE spent)
          /\ failed' \subseteq failed \cup {attempts'}
      BY <1>2, <2>3 DEF Bytes
    <3>2. /\ attempts' \in Nat /\ spent' \in Nat
          /\ failed' \subseteq Nat
          /\ full' \in [Routes -> Paths \cup {NoPath}]
      BY <3>1, PairedType DEF Encode, TypeOK
    <3>3. NewDocument \in Documents
      BY <3>2, NewDocumentType
    <3>4. CASE /\ KeepError(TRUE) \/ KeepError(FALSE)
               /\ Returns(c, Failure(attempts', TRUE))
      BY <2>1, <3>2, <3>4 DEF KeepError, Returns, Failure, Answers, TypeOK
    <3>5. CASE UNCHANGED frozen /\ Returns(c, [kind |-> "panic"])
      BY <2>1, <3>2, <3>5 DEF Returns, Answers, TypeOK
    <3>6. CASE Freeze /\ Returns(c, Document(NewDocument))
      BY <2>1, <3>2, <3>3, <3>6 DEF Freeze, Returns, Document, Answers, TypeOK
    <3>7. QED BY <1>2, <2>3, <3>4, <3>5, <3>6 DEF Bytes
  <2>4. QED BY <2>2, <2>3
<1>3. QED BY <1>1, <1>2

LEMMA KeptErrorType ==
    ASSUME TypeOK, NEW c \in Callers, NEW via, NEW catch \in BOOLEAN, Bytes(c, via, catch)
    PROVE  buildErr' # NoError => buildErr'.id \in Nat /\ buildErr'.panic \in BOOLEAN
<1>1. CASE UNCHANGED buildErr
  BY <1>1 DEF TypeOK
<1>2. CASE buildErr' = NoError
  BY <1>2
<1>3. CASE (KeepError(TRUE) \/ KeepError(FALSE)) /\ Encode
  <2>1. attempts' \in Nat
    BY <1>3 DEF Encode, TypeOK
  <2>2. buildErr'.id = attempts' /\ (buildErr'.panic = TRUE \/ buildErr'.panic = FALSE)
    BY <1>3 DEF KeepError
  <2>3. QED BY <2>1, <2>2
<1>4. QED BY <1>1, <1>2, <1>3 DEF Bytes, Freeze

\* A request never sees a panic: bytes keeps it as an error.
LEMMA AnswerOfRequest ==
    ASSUME TypeOK, NEW c \in Callers, NEW via, Bytes(c, via, TRUE)
    PROVE  result'[c].kind \in {"document", "failure"}
<1>1. \E x \in {"document", "failure"} : \E v : v.kind = x /\ Returns(c, v)
  BY DEF Bytes, Document, Failure
<1>2. QED BY <1>1 DEF Returns, TypeOK

LEMMA TypeStep == TypeOK /\ [Next]_vars => TypeOK'
<1> SUFFICES ASSUME TypeOK, [Next]_vars PROVE TypeOK'
  OBVIOUS
<1>1. ASSUME NEW r \in Routes, AddRoute(r) PROVE TypeOK'
  <2>1. Relative(r) => EntryOf(r) \in Entries
    BY RoutesAssumption DEF Relative, EntryOf, Entries, Handlers
  <2>2. table' \subseteq Entries
    BY <1>1, <2>1 DEF AddRoute, Endpoint, TypeOK
  <2>3. QED BY <1>1, <2>2 DEF AddRoute, MustBeOpen, TypeOK
<1>2. ASSUME NEW w \in Webhooks, Webhook(w) PROVE TypeOK'
  BY <1>2 DEF Webhook, MustBeOpen, TypeOK
<1>3. ASSUME NEW t \in Types, NEW v \in VariantNames, Register(t, v) PROVE TypeOK'
  BY <1>3 DEF Register, MustBeOpen, TypeOK
<1>4. ASSUME NEW t \in Types, NEW n \in Names, SchemaName(t, n) PROVE TypeOK'
  BY <1>4 DEF SchemaName, MustBeOpen, TypeOK
<1>5. CASE RejectedDeclaration
  BY <1>5 DEF RejectedDeclaration, MustBeOpen, TypeOK
<1>6. ASSUME NEW s \in Routers, Adopt(s) PROVE TypeOK'
  BY <1>6 DEF Adopt, TypeOK
<1>7. ASSUME NEW m \in PossibleMounts, Mount(m) PROVE TypeOK'
  BY <1>7 DEF Mount, TypeOK
<1>8. ASSUME NEW e \in Strays, Stray(e) PROVE TypeOK'
  <2>1. e \in Entries
    BY GeneratorAssumption DEF Entries, Handlers
  <2>2. table' \subseteq Entries
    BY <1>8, <2>1 DEF Stray, Endpoint, TypeOK
  <2>3. QED BY <1>8, <2>2 DEF Stray, TypeOK
<1>9. ASSUME NEW c \in Callers, Build(c) PROVE TypeOK'
  <2>1. UNCHANGED <<routers, declared, sources, pc, statuses>>
    BY <1>9 DEF Build, Bytes
  <2>2. Bytes(c, NoRouter, FALSE)
    BY <1>9 DEF Build
  <2>3. buildErr' # NoError => buildErr'.id \in Nat /\ buildErr'.panic \in BOOLEAN
    BY <2>2, KeptErrorType
  <2>4. QED BY <2>1, <2>2, <2>3, TypeBytes DEF TypeOK
<1>10. ASSUME NEW c \in Callers, NEW q \in Requests, Serve(c, q) PROVE TypeOK'
  <2>1. Bytes(c, q.via, TRUE) /\ q.via \in Routers \cup {NoRouter}
    BY <1>10, GeneratorAssumption DEF Serve
  <2>2. UNCHANGED <<routers, declared, sources, statuses>>
    BY <1>10 DEF Serve, Bytes
  <2>3. pc' \in [Callers -> {"idle", "logging", "refusing", "writing"}]
    <3>1. result'[c].kind \in {"document", "failure"}
      BY <2>1, AnswerOfRequest
    <3>2. QED BY <1>10, <3>1 DEF Serve, TypeOK
  <2>4. buildErr' # NoError => buildErr'.id \in Nat /\ buildErr'.panic \in BOOLEAN
    BY <2>1, KeptErrorType
  <2>5. QED BY <2>1, <2>2, <2>3, <2>4, TypeBytes DEF TypeOK
<1>11. ASSUME NEW c \in Callers, Serving(c) PROVE TypeOK'
  BY <1>11 DEF Serving, LogFailure, ReplyFailed, ReplyDocument, TypeOK
<1>12. CASE SpecStatuses
  BY <1>12, PairedType DEF SpecStatuses, TypeOK
<1>13. CASE UNCHANGED vars
  BY <1>13 DEF TypeOK
<1>14. QED
  BY <1>1, <1>2, <1>3, <1>4, <1>5, <1>6, <1>7, <1>8, <1>9, <1>10, <1>11, <1>12, <1>13 DEF Next

\* The generator's state stays well formed under every call.
THEOREM TypeCorrect == Spec => []TypeOK
BY TypeInit, TypeStep, PTL DEF Spec

(***************************************************************************)
(* The published document, and the promise of SpecServing.                 *)
(***************************************************************************)

\* The document shows what was declared, and no caller holds a document that
\* was not published.
DocInv ==
    /\ DocumentIsComplete
    /\ specJSON = NoDocument => \A c \in Callers : result[c].kind # "document"

LEMMA DocInit == Init => DocInv
BY DEF Init, DocInv, DocumentIsComplete

\* A new document shows the declarations.
LEMMA NewDocumentShows ==
    /\ Shown(NewDocument) = Described
    /\ TypeOK /\ full' \in [Routes -> Paths \cup {NoPath}] => NewDocument # NoDocument
BY NewDocumentType, GeneratorAssumption DEF Shown, NewDocument, Described

\* What a locked region of bytes does to the document and to its caller's answer.
BytesEffect(c) ==
    \/ /\ specJSON # NoDocument
       /\ specJSON' = specJSON
       /\ Returns(c, Document(specJSON))
    \/ /\ specJSON = NoDocument
       /\ specJSON' = specJSON
       /\ \/ \E id, fresh : Returns(c, Failure(id, fresh))
          \/ Returns(c, [kind |-> "panic"])
    \/ /\ specJSON = NoDocument
       /\ specJSON' # NoDocument
       /\ Shown(specJSON') = Described
       /\ Returns(c, Document(specJSON'))

LEMMA BytesHasEffect ==
    ASSUME TypeOK, NEW c \in Callers, NEW via, NEW catch \in BOOLEAN, Bytes(c, via, catch)
    PROVE  BytesEffect(c) /\ UNCHANGED declared
<1>0. UNCHANGED declared
  BY DEF Bytes
<1>1. CASE specJSON # NoDocument
  BY <1>0, <1>1 DEF Bytes, BytesEffect
<1>2. CASE specJSON = NoDocument
  <2>1. CASE UNCHANGED specJSON /\ \E id, fresh : Returns(c, Failure(id, fresh))
    BY <1>0, <1>2, <2>1 DEF BytesEffect
  <2>2. CASE UNCHANGED specJSON /\ Returns(c, [kind |-> "panic"])
    BY <1>0, <1>2, <2>2 DEF BytesEffect
  <2>3. CASE Encode /\ Freeze /\ Returns(c, Document(NewDocument))
    <3>1. NewDocument # NoDocument /\ Shown(NewDocument) = Described
      BY <2>3, PairedType, NewDocumentShows DEF Encode
    <3>2. QED BY <1>0, <1>2, <2>3, <3>1 DEF Freeze, BytesEffect
  <2>4. QED BY <1>0, <1>2, <2>1, <2>2, <2>3 DEF Bytes, KeepError
<1>3. QED BY <1>1, <1>2

LEMMA DocBytes ==
    ASSUME TypeOK, DocInv, NEW c \in Callers, BytesEffect(c), UNCHANGED declared
    PROVE  DocInv'
<1>1. Described' = Described
  BY DEF Described
<1>2. \A d \in Callers \ {c} : result'[d] = result[d]
  BY DEF BytesEffect, Returns, TypeOK
<1>3. CASE specJSON # NoDocument
  <2>1. specJSON' = specJSON /\ result'[c] = Document(specJSON)
    BY <1>3 DEF BytesEffect, Returns, TypeOK
  <2>2. QED BY <1>1, <1>2, <1>3, <2>1 DEF DocInv, DocumentIsComplete, Document
<1>4. CASE specJSON = NoDocument /\ specJSON' = specJSON
  <2>1. result'[c].kind # "document"
    BY <1>4 DEF BytesEffect, Returns, TypeOK, Failure
  <2>2. QED BY <1>2, <1>4, <2>1 DEF DocInv, DocumentIsComplete
<1>5. CASE specJSON = NoDocument /\ specJSON' # NoDocument
  <2>1. result'[c] = Document(specJSON') /\ Shown(specJSON') = Described
    BY <1>5 DEF BytesEffect, Returns, TypeOK
  <2>2. QED BY <1>1, <1>2, <1>5, <2>1 DEF DocInv, DocumentIsComplete, Document
<1>6. QED BY <1>3, <1>4, <1>5 DEF BytesEffect

\* Every step declares on an open generator, answers a caller from bytes, or
\* leaves declarations, document and answers alone.
LEMMA StepKinds ==
    ASSUME TypeOK, [Next]_vars
    PROVE  \/ /\ specJSON = NoDocument /\ UNCHANGED <<specJSON, result>>
              /\ (\E x \in Routes \cup Webhooks : Described' = Described \cup {x}) \/ Described' = Described
           \/ \E c \in Callers : BytesEffect(c) /\ UNCHANGED declared
           \/ UNCHANGED <<declared, specJSON, result>>
<1>1. ASSUME NEW r \in Routes, AddRoute(r)
      PROVE  /\ specJSON = NoDocument /\ UNCHANGED <<specJSON, result>>
             /\ Described' = Described \cup {r} \/ Described' = Described
  BY <1>1 DEF AddRoute, MustBeOpen, Described
<1>2. ASSUME NEW w \in Webhooks, Webhook(w)
      PROVE  /\ specJSON = NoDocument /\ UNCHANGED <<specJSON, result>>
             /\ Described' = Described \cup {w}
  BY <1>2 DEF Webhook, MustBeOpen, Described
<1>3. ASSUME NEW c \in Callers, NEW via, NEW catch \in BOOLEAN, Bytes(c, via, catch)
      PROVE  BytesEffect(c) /\ UNCHANGED declared
  BY <1>3, BytesHasEffect
<1>4. CASE \/ \E t \in Types, v \in VariantNames : Register(t, v)
           \/ \E t \in Types, n \in Names : SchemaName(t, n)
           \/ RejectedDeclaration
  BY <1>4 DEF Register, SchemaName, RejectedDeclaration, MustBeOpen, Described
<1>5. CASE \/ \E s \in Routers : Adopt(s)
           \/ \E m \in PossibleMounts : Mount(m)
           \/ \E e \in Strays : Stray(e)
           \/ \E c \in Callers : Serving(c)
           \/ SpecStatuses
           \/ UNCHANGED vars
  BY <1>5 DEF Adopt, Mount, Stray, Serving, LogFailure, ReplyFailed, ReplyDocument, SpecStatuses
<1>6. QED BY <1>1, <1>2, <1>3, <1>4, <1>5 DEF Next, Build, Serve

LEMMA DocStep == TypeOK /\ DocInv /\ [Next]_vars => DocInv'
<1> SUFFICES ASSUME TypeOK, DocInv, [Next]_vars PROVE DocInv'
  OBVIOUS
<1>1. CASE specJSON = NoDocument /\ UNCHANGED <<specJSON, result>>
  BY <1>1 DEF DocInv, DocumentIsComplete
<1>2. CASE UNCHANGED <<declared, specJSON, result>>
  BY <1>2 DEF DocInv, DocumentIsComplete, Described
<1>3. QED BY <1>1, <1>2, StepKinds, DocBytes

\* The frozen document shows exactly the routes and webhooks that were
\* registered, and every caller that got a document got that one (serve.go).
THEOREM DocumentsComplete == Spec => []DocumentIsComplete
<1>1. DocInv => DocumentIsComplete
  BY DEF DocInv
<1>2. QED BY <1>1, TypeInit, TypeStep, DocInit, DocStep, PTL DEF Spec

LEMMA PromiseInit == Init => Promise!Init
BY DEF Init, Promise!Init, Described, Told

LEMMA PromiseStep == TypeOK /\ DocInv /\ [Next]_vars => [Promise!Next]_(Promise!vars)
<1> SUFFICES ASSUME TypeOK, DocInv, [Next]_vars PROVE [Promise!Next]_(Promise!vars)
  OBVIOUS
<1> DEFINE told == [c \in Callers |-> Told(result[c])]
           shown == IF specJSON = NoDocument THEN NoDocument ELSE Shown(specJSON)
<1>1. CASE /\ specJSON = NoDocument /\ UNCHANGED <<specJSON, result>>
           /\ (\E x \in Routes \cup Webhooks : Described' = Described \cup {x}) \/ Described' = Described
  <2>1. told' = told /\ shown = NoDocument /\ shown' = NoDocument
    BY <1>1 DEF Told
  <2>2. QED BY <1>1, <2>1 DEF Promise!Next, Promise!Declare, Promise!vars, Told, Shown
<1>2. ASSUME NEW c \in Callers, BytesEffect(c), UNCHANGED declared
      PROVE  [Promise!Next]_(Promise!vars)
  <2>1. Described' = Described
    BY <1>2 DEF Described
  <2>2. \A v : Returns(c, v) => told' = [told EXCEPT ![c] = Told(v)]
    BY DEF Returns, TypeOK
  <2>3. CASE specJSON # NoDocument
    <3>1. Shown(specJSON) # NoDocument
      BY <2>3, GeneratorAssumption DEF DocInv, DocumentIsComplete, Described, TypeOK
    <3>2. Told(Document(specJSON)) = Shown(specJSON)
      BY DEF Told, Document
    <3>3. specJSON' = specJSON /\ told' = [told EXCEPT ![c] = Shown(specJSON)]
      BY <1>2, <2>2, <2>3, <3>2 DEF BytesEffect
    <3>4. Promise!Repeat(c)
      BY <2>1, <2>3, <3>1, <3>3 DEF Promise!Repeat, Shown, Told
    <3>5. QED BY <3>4 DEF Promise!Next
  <2>4. CASE specJSON = NoDocument /\ specJSON' = specJSON
    <3>1. \E v : Returns(c, v) /\ Told(v) = Refused
      <4>1. /\ \A id, fresh : Told(Failure(id, fresh)) = Refused
            /\ Told([kind |-> "panic"]) = Refused
        BY DEF Told, Failure
      <4>2. CASE \E id, fresh : Returns(c, Failure(id, fresh))
        BY <4>1, <4>2
      <4>3. CASE Returns(c, [kind |-> "panic"])
        BY <4>1, <4>3
      <4>4. QED BY <1>2, <2>4, <4>2, <4>3 DEF BytesEffect
    <3>2. told' = [told EXCEPT ![c] = Refused]
      BY <2>2, <3>1
    <3>3. Promise!Refuse(c)
      BY <2>1, <2>4, <3>2 DEF Promise!Refuse, Shown, Told
    <3>4. QED BY <3>3 DEF Promise!Next
  <2>5. CASE specJSON = NoDocument /\ specJSON' # NoDocument
    <3>1. Shown(specJSON') = Described /\ Returns(c, Document(specJSON'))
      BY <1>2, <2>5 DEF BytesEffect
    <3>2. told' = [told EXCEPT ![c] = Described]
      BY <2>2, <3>1 DEF Told, Document
    <3>3. Promise!Publish(c)
      BY <2>1, <2>5, <3>1, <3>2 DEF Promise!Publish, Shown, Told
    <3>4. QED BY <3>3 DEF Promise!Next
  <2>6. QED BY <2>3, <2>4, <2>5 DEF BytesEffect
<1>3. CASE UNCHANGED <<declared, specJSON, result>>
  BY <1>3 DEF Promise!vars, Described, Told, Shown
<1>4. QED BY <1>1, <1>2, <1>3, StepKinds

\* The generator implements SpecServing: one document, published once, shows
\* exactly what was declared before it, and nobody is refused afterwards.
THEOREM KeepsPromise == Spec => PromiseKept
BY PromiseInit, PromiseStep, TypeInit, TypeStep, DocInit, DocStep, PTL
   DEF Spec, PromiseKept, Promise!Spec

(***************************************************************************)
(* Published paths and status queries.                                     *)
(***************************************************************************)

\* The paths at which an adopted router serves the endpoint of r, as long as no
\* other handler replaces it.  Mounts and adoptions only add to it.
Reachable(r) ==
    {p \in Paths :
        /\ p[2] = Decl[r].pattern
        /\ \/ p[1] = NoPrefix /\ Decl[r].router \in sources
           \/ \E m \in mounts : m.inner = Decl[r].router /\ m.outer \in sources /\ m.prefix = p[1]}

\* A record sits only at the endpoint of its own registration.
TableInv == \A e \in table : e.handler \in Routes => e = EntryOf(e.handler)

\* A path that a document or a status answer gives to r.
Known(r, path) ==
    IF Relative(r) THEN path \in Reachable(r) ELSE path = <<NoPrefix, Decl[r].pattern>>

AgreeInv ==
    /\ TableInv
    /\ specJSON # NoDocument =>
          /\ DOMAIN specJSON.operations \subseteq Routes
          /\ \A r \in DOMAIN specJSON.operations : Known(r, specJSON.operations[r])
    /\ statuses.kind = "statuses" =>
          /\ DOMAIN statuses.routes \subseteq Routes
          /\ \A r \in DOMAIN statuses.routes : Known(r, statuses.routes[r])
    /\ StatusesAgree

LEMMA HitsOfLiveEntry ==
    ASSUME TypeOK, TableInv, NEW r \in Routes
    PROVE  /\ Hits(table, mounts, sources, r) \subseteq Reachable(r)
           /\ Hits(table, mounts, sources, r) # {} => EntryOf(r) \in table
           /\ EntryOf(r) \in table => Reachable(r) \subseteq Hits(table, mounts, sources, r)
<1> DEFINE H == Hits(table, mounts, sources, r)
<1>1. ASSUME NEW p \in H
      PROVE  p \in Reachable(r) /\ EntryOf(r) \in table
  <2>1. PICK w \in UNION {Walk(table, mounts, s) : s \in sources} :
          w.path = p /\ w.handler = r /\ w.method = Decl[r].method
    BY <1>1 DEF Hits
  <2>. PICK s \in sources : w \in Walk(table, mounts, s)
    BY <2>1
  <2>2. CASE \E e \in table : e.router = s /\ w = [method |-> e.method, path |-> <<NoPrefix, e.pattern>>,
                                                  handler |-> e.handler]
    <3>1. PICK e \in table : e.router = s /\ e.handler = r /\ p = <<NoPrefix, e.pattern>>
      BY <2>1, <2>2
    <3>2. e = EntryOf(r)
      BY <3>1 DEF TableInv
    <3>3. QED BY <2>1, <3>1, <3>2, RoutesAssumption DEF Reachable, EntryOf, Paths
  <2>3. CASE \E m \in mounts, e \in table :
                /\ m.outer = s /\ e.router = m.inner
                /\ w = [method |-> e.method, path |-> <<m.prefix, e.pattern>>, handler |-> e.handler]
    <3>1. PICK m \in mounts, e \in table :
            m.outer = s /\ e.router = m.inner /\ e.handler = r /\ p = <<m.prefix, e.pattern>>
      BY <2>1, <2>3
    <3>2. e = EntryOf(r)
      BY <3>1 DEF TableInv
    <3>3. m.prefix \in Prefixes
      BY GeneratorAssumption DEF TypeOK, MountPoints
    <3>4. QED BY <2>1, <3>1, <3>2, <3>3, RoutesAssumption DEF Reachable, EntryOf, Paths
  <2>4. QED BY <2>1, <2>2, <2>3 DEF Walk
<1>2. ASSUME EntryOf(r) \in table, NEW p \in Reachable(r)
      PROVE  p \in H
  <2>1. p = <<p[1], Decl[r].pattern>>
    BY <1>2 DEF Reachable, Paths
  <2>2. CASE p[1] = NoPrefix /\ Decl[r].router \in sources
    <3>1. [method |-> Decl[r].method, path |-> p, handler |-> r] \in Walk(table, mounts, Decl[r].router)
      <4>1. EntryOf(r) \in {f \in table : f.router = Decl[r].router}
        BY <1>2 DEF EntryOf
      <4>2. [method |-> EntryOf(r).method, path |-> <<NoPrefix, EntryOf(r).pattern>>,
             handler |-> EntryOf(r).handler] \in Walk(table, mounts, Decl[r].router)
        BY <4>1 DEF Walk
      <4>3. QED BY <2>1, <2>2, <4>2 DEF EntryOf
    <3>2. QED BY <2>2, <3>1 DEF Hits
  <2>3. CASE \E m \in mounts : m.inner = Decl[r].router /\ m.outer \in sources /\ m.prefix = p[1]
    <3>1. PICK m \in mounts : m.inner = Decl[r].router /\ m.outer \in sources /\ m.prefix = p[1]
      BY <2>3
    <3>2. [method |-> Decl[r].method, path |-> p, handler |-> r] \in Walk(table, mounts, m.outer)
      <4> DEFINE Mounted == {z \in mounts \X table : z[1].outer = m.outer /\ z[2].router = z[1].inner}
                 Row(z) == [method |-> z[2].method, path |-> <<z[1].prefix, z[2].pattern>>,
                            handler |-> z[2].handler]
      <4>1. <<m, EntryOf(r)>> \in Mounted
        BY <1>2, <3>1 DEF EntryOf
      <4>2. Row(<<m, EntryOf(r)>>) \in Walk(table, mounts, m.outer)
        <5>1. Row(<<m, EntryOf(r)>>) \in {Row(z) : z \in Mounted}
          BY <4>1
        <5>2. {Row(z) : z \in Mounted} \subseteq Walk(table, mounts, m.outer)
          BY DEF Walk
        <5>3. QED BY <5>1, <5>2
      <4>3. QED BY <2>1, <3>1, <4>2 DEF EntryOf
    <3>3. QED BY <3>1, <3>2 DEF Hits
  <2>4. QED BY <1>2, <2>2, <2>3 DEF Reachable
<1>3. QED BY <1>1, <1>2

\* A relative record that pairPaths resolved has no second path in reach.
LEMMA ResolvedIsAlone ==
    ASSUME TypeOK, TableInv, NEW r \in Routes, Relative(r),
           Paired(table, mounts, sources, records)[r] # NoPath
    PROVE  /\ Hits(table, mounts, sources, r) = {Paired(table, mounts, sources, records)[r]}
           /\ Reachable(r) = {Paired(table, mounts, sources, records)[r]}
<1>1. PICK p \in Paths : Hits(table, mounts, sources, r) = {p}
  BY DEF Paired
<1>2. Paired(table, mounts, sources, records)[r] = p
  BY <1>1 DEF Paired
<1>3. QED BY <1>1, <1>2, HitsOfLiveEntry

\* Without resolve problems every record has a path.
LEMMA NoProblemsResolved ==
    ASSUME NEW f, ResolveProblems(table, mounts, sources, records, f) = {}
    PROVE  \A r \in records : f[r] # NoPath
BY DEF ResolveProblems

LEMMA ResolvedIsKnown ==
    ASSUME TypeOK, TableInv, full' = Paired(table, mounts, sources, records),
           ResolveProblems(table, mounts, sources, records, full') = {}
    PROVE  \A r \in records :
              /\ Known(r, full'[r])
              /\ \A q : Known(r, q) => q = full'[r]
              /\ Relative(r) => Hits(table, mounts, sources, r) = {full'[r]}
<1> SUFFICES ASSUME NEW r \in records
             PROVE  /\ Known(r, full'[r])
                    /\ \A q : Known(r, q) => q = full'[r]
                    /\ Relative(r) => Hits(table, mounts, sources, r) = {full'[r]}
  OBVIOUS
<1>1. r \in Routes /\ full'[r] # NoPath
  BY NoProblemsResolved DEF TypeOK
<1>2. CASE Relative(r)
  BY <1>1, <1>2, ResolvedIsAlone DEF Known
<1>3. CASE ~Relative(r)
  BY <1>1, <1>3 DEF Known, Paired
<1>4. QED BY <1>2, <1>3

LEMMA AgreeInit == Init => AgreeInv
BY DEF Init, AgreeInv, TableInv, StatusesAgree

\* Router changes and adoptions lose no known path.
LEMMA KnownGrows ==
    ASSUME mounts \subseteq mounts', sources \subseteq sources'
    PROVE  \A r, q : Known(r, q) => Known(r, q)'
BY DEF Known, Reachable

\* A step that leaves document and status answer alone.
LEMMA AgreeKept ==
    ASSUME AgreeInv, TableInv', UNCHANGED <<specJSON, statuses>>,
           mounts \subseteq mounts', sources \subseteq sources'
    PROVE  AgreeInv'
BY KnownGrows DEF AgreeInv, StatusesAgree

LEMMA TableStep ==
    ASSUME TableInv, [Next]_vars
    PROVE  /\ TableInv'
           /\ mounts \subseteq mounts' /\ sources \subseteq sources'
<1>1. ASSUME NEW r \in Routes, AddRoute(r) PROVE TableInv'
  <2>1. CASE Relative(r)
    <3>1. \A e \in table' : e \in table \/ e = EntryOf(r)
      BY <1>1, <2>1 DEF AddRoute, Endpoint
    <3>2. EntryOf(r).handler = r
      BY DEF EntryOf
    <3>3. QED BY <3>1, <3>2 DEF TableInv
  <2>2. CASE ~Relative(r)
    BY <1>1, <2>2 DEF AddRoute, TableInv
  <2>3. QED BY <2>1, <2>2
<1>2. ASSUME NEW e \in Strays, Stray(e) PROVE TableInv'
  <2>1. e.handler \notin Routes
    BY GeneratorAssumption, RoutesAssumption
  <2>2. \A f \in table' : f \in table \/ f = e
    BY <1>2 DEF Stray, Endpoint
  <2>3. QED BY <2>1, <2>2 DEF TableInv
<1>3. ASSUME NEW c, NEW via, NEW catch, Bytes(c, via, catch)
      PROVE  UNCHANGED <<table, mounts, sources>>
  BY <1>3 DEF Bytes
<1>4. TableInv' \/ UNCHANGED table
  BY <1>1, <1>2, <1>3 DEF Next, Webhook, Register, SchemaName, RejectedDeclaration, Adopt, Mount,
     Serving, LogFailure, ReplyFailed, ReplyDocument, SpecStatuses, Build, Serve
<1>5. mounts \subseteq mounts' /\ sources \subseteq sources'
  BY <1>3 DEF Next, AddRoute, Webhook, Register, SchemaName, RejectedDeclaration, Adopt, Mount, Stray,
     Serving, LogFailure, ReplyFailed, ReplyDocument, SpecStatuses, Build, Serve
<1>6. QED BY <1>4, <1>5 DEF TableInv

\* The build that publishes.
LEMMA PublishingStep ==
    ASSUME TypeOK, TableInv, [Next]_vars, specJSON' # specJSON
    PROVE  /\ specJSON = NoDocument
           /\ UNCHANGED <<table, mounts, sources, records, webhooks, statuses>>
           /\ full' = Paired(table, mounts, sources, records)
           /\ ResolveProblems(table, mounts, sources, records, full') = {}
           /\ specJSON' = NewDocument
<1>1. ASSUME NEW c, NEW via, NEW catch, Bytes(c, via, catch)
      PROVE  /\ specJSON = NoDocument
             /\ UNCHANGED <<table, mounts, sources, records, webhooks>>
             /\ full' = Paired(table, mounts, sources, records)
             /\ ResolveProblems(table, mounts, sources, records, full') = {}
             /\ specJSON' = NewDocument
  BY <1>1 DEF Bytes, Encode, Freeze, KeepError, Succeeds, Problems
<1>2. \E c \in Callers : \E via, catch : Bytes(c, via, catch) /\ UNCHANGED statuses
  BY DEF Next, AddRoute, Webhook, Register, SchemaName, RejectedDeclaration, Adopt, Mount, Stray,
     Serving, LogFailure, ReplyFailed, ReplyDocument, SpecStatuses, Build, Serve
<1>3. QED BY <1>1, <1>2

LEMMA AgreeStep == TypeOK /\ AgreeInv /\ [Next]_vars => AgreeInv'
<1> SUFFICES ASSUME TypeOK, AgreeInv, [Next]_vars PROVE AgreeInv'
  OBVIOUS
<1> USE TableStep
<1>1. TableInv
  BY DEF AgreeInv
<1>2. CASE UNCHANGED <<specJSON, statuses>>
  BY <1>1, <1>2, AgreeKept
<1>3. CASE specJSON' # specJSON
  <2>1. /\ specJSON = NoDocument
        /\ UNCHANGED <<table, mounts, sources, records, statuses>>
        /\ specJSON' = NewDocument
        /\ \A r \in records : Known(r, full'[r]) /\ \A q : Known(r, q) => q = full'[r]
    BY <1>1, <1>3, PublishingStep, ResolvedIsKnown
  <2>2. \A r, q : Known(r, q)' <=> Known(r, q)
    BY <2>1 DEF Known, Reachable
  <2>3. /\ DOMAIN NewDocument.operations \subseteq records
        /\ \A r \in DOMAIN NewDocument.operations : NewDocument.operations[r] = full'[r]
    BY DEF NewDocument, Described
  <2>4. QED BY <1>1, <2>1, <2>2, <2>3 DEF AgreeInv, StatusesAgree, TypeOK
<1>4. CASE SpecStatuses /\ statuses'.kind = "statuses"
  <2>1. /\ UNCHANGED <<table, mounts, sources, records, specJSON>>
        /\ DOMAIN statuses'.routes = records
        /\ \A r \in records : statuses'.routes[r] = full'[r]
        /\ full' = Paired(table, mounts, sources, records)
        /\ ResolveProblems(table, mounts, sources, records, full') = {}
    BY <1>4 DEF SpecStatuses
  <2>2. \A r \in records : Known(r, full'[r]) /\ \A q : Known(r, q) => q = full'[r]
    BY <1>1, <2>1, ResolvedIsKnown
  <2>3. \A r, q : Known(r, q)' <=> Known(r, q)
    BY <2>1 DEF Known, Reachable
  <2>4. QED BY <1>1, <2>1, <2>2, <2>3 DEF AgreeInv, StatusesAgree, TypeOK
<1>5. CASE SpecStatuses /\ statuses'.kind # "statuses"
  <2>1. UNCHANGED <<mounts, sources, specJSON>>
    BY <1>5 DEF SpecStatuses
  <2>2. \A r, q : Known(r, q)' <=> Known(r, q)
    BY <2>1 DEF Known, Reachable
  <2>3. QED BY <1>1, <1>5, <2>1, <2>2 DEF AgreeInv, StatusesAgree
<1>6. SpecStatuses \/ UNCHANGED statuses
  BY DEF Next, AddRoute, Webhook, Register, SchemaName, RejectedDeclaration, Adopt, Mount, Stray,
     Serving, LogFailure, ReplyFailed, ReplyDocument, Build, Serve
<1>7. QED BY <1>2, <1>3, <1>4, <1>5, <1>6

\* A status query after the freeze never contradicts the document: it names the
\* same path for a route, or it fails (statusmap.go, routes.go pairPaths).
THEOREM StatusesNeverContradict == Spec => []StatusesAgree
<1>1. AgreeInv => StatusesAgree
  BY DEF AgreeInv
<1>2. QED BY <1>1, TypeInit, TypeStep, AgreeInit, AgreeStep, PTL DEF Spec

\* A document is published only when each relative route in it is served at that
\* path and no other (routes.go, pairPaths).
THEOREM PublishedLive == Spec => PublishedPathsAreLive
<1> DEFINE Live == specJSON' # specJSON =>
                     \A r \in DOMAIN specJSON'.operations :
                        Relative(r) => Hits(table', mounts', sources', r) = {specJSON'.operations[r]}
<1>1. TypeOK /\ AgreeInv /\ [Next]_vars => [Live]_vars
  <2> SUFFICES ASSUME TypeOK, AgreeInv, [Next]_vars, specJSON' # specJSON PROVE Live
    OBVIOUS
  <2>1. TableInv
    BY DEF AgreeInv
  <2>2. /\ UNCHANGED <<table, mounts, sources>>
        /\ specJSON' = NewDocument
        /\ \A r \in records : Relative(r) => Hits(table, mounts, sources, r) = {full'[r]}
    BY <2>1, PublishingStep, ResolvedIsKnown
  <2>3. QED BY <2>2 DEF NewDocument, Described
<1>2. QED BY <1>1, TypeInit, TypeStep, AgreeInit, AgreeStep, PTL DEF Spec, PublishedPathsAreLive

(***************************************************************************)
(* A failed build is logged once.                                          *)
(***************************************************************************)

\* The number of a build that a request has still to log is its own: no other
\* request holds it, and the log does not have it.
LogInv ==
    /\ log \in Seq(Nat) /\ \A i \in 1..Len(log) : log[i] <= attempts
    /\ \A c \in Callers : pc[c] = "logging" =>
        /\ result[c].kind = "failure" /\ result[c].id \in Nat /\ result[c].id <= attempts
        /\ \A i \in 1..Len(log) : log[i] # result[c].id
    /\ \A c, d \in Callers : pc[c] = "logging" /\ pc[d] = "logging" /\ c # d => result[c].id # result[d].id
    /\ LoggedAtMostOnce

LEMMA LogInit == Init => LogInv
BY DEF Init, LogInv, LoggedAtMostOnce

\* Only a build that runs in this call gives a fresh answer, with a new number.
LEMMA BytesNumbers ==
    ASSUME TypeOK, NEW c \in Callers, NEW via, NEW catch \in BOOLEAN, Bytes(c, via, catch)
    PROVE  /\ log' = log /\ attempts' \in Nat /\ attempts <= attempts'
           /\ \A d \in Callers : d # c => result'[d] = result[d]
           /\ catch => \/ result'[c].kind = "document"
                       \/ result'[c].kind = "failure" /\ ~result'[c].fresh
                       \/ /\ result'[c].kind = "failure" /\ result'[c].fresh
                          /\ result'[c].id = attempts' /\ attempts' = attempts + 1
<1>1. log' = log
  BY DEF Bytes
<1>2. attempts \in Nat /\ (attempts' = attempts \/ attempts' = attempts + 1)
  BY DEF Bytes, Encode, TypeOK
<1>3. \E value : Returns(c, value)
  BY DEF Bytes
<1>4. \A d \in Callers : d # c => result'[d] = result[d]
  BY <1>3 DEF Returns, TypeOK
<1>5. ASSUME NEW value, Returns(c, value) PROVE result'[c] = value
  BY <1>5 DEF Returns, TypeOK
<1>6. ASSUME catch
      PROVE  \/ \E doc : result'[c] = Document(doc)
             \/ \E id : result'[c] = Failure(id, FALSE)
             \/ attempts' = attempts + 1 /\ result'[c] = Failure(attempts', TRUE)
  <2>1. CASE specJSON # NoDocument
    BY <1>5, <2>1 DEF Bytes
  <2>2. CASE Returns(c, Failure(buildErr.id, FALSE))
    BY <1>5, <2>2
  <2>3. CASE Encode /\ (Returns(c, Failure(attempts', TRUE)) \/ Returns(c, Document(NewDocument)))
    BY <1>5, <2>3 DEF Encode
  <2>4. QED
    BY <1>6, <2>1, <2>2, <2>3 DEF Bytes
<1>7. catch => \/ result'[c].kind = "document"
               \/ result'[c].kind = "failure" /\ ~result'[c].fresh
               \/ /\ result'[c].kind = "failure" /\ result'[c].fresh
                  /\ result'[c].id = attempts' /\ attempts' = attempts + 1
  <2>1. \A doc : Document(doc).kind = "document"
    BY DEF Document
  <2>2. \A id : Failure(id, FALSE).kind = "failure" /\ ~Failure(id, FALSE).fresh
    BY DEF Failure
  <2>3. \A id : Failure(id, TRUE).kind = "failure" /\ Failure(id, TRUE).fresh /\ Failure(id, TRUE).id = id
    BY DEF Failure
  <2>4. QED
    BY <1>6, <2>1, <2>2, <2>3
<1>8. QED
  BY <1>1, <1>2, <1>4, <1>7

LEMMA LogServe ==
    ASSUME TypeOK, LogInv, NEW c \in Callers, NEW q \in Requests, Serve(c, q)
    PROVE  LogInv'
<1>1. Bytes(c, q.via, TRUE) /\ pc[c] = "idle"
  BY DEF Serve
<1>2. log' = log /\ attempts' \in Nat /\ attempts <= attempts' /\ attempts \in Nat
      /\ \A d \in Callers : d # c => result'[d] = result[d]
  BY <1>1, BytesNumbers DEF TypeOK
<1>3. pc'[c] = "logging" =>
        result'[c].kind = "failure" /\ result'[c].id = attempts' /\ attempts' = attempts + 1
  BY <1>1, BytesNumbers DEF Serve, TypeOK
<1>4. \A d \in Callers : d # c => pc'[d] = pc[d]
  BY DEF Serve, TypeOK
<1>5. \A i \in 1..Len(log) : log[i] \in Nat /\ log[i] <= attempts /\ log[i] <= attempts'
  BY <1>2 DEF LogInv
<1>6. ASSUME NEW d \in Callers, pc'[d] = "logging"
      PROVE  /\ result'[d].kind = "failure" /\ result'[d].id \in Nat /\ result'[d].id <= attempts'
             /\ \A i \in 1..Len(log) : log[i] # result'[d].id
  <2>1. CASE d = c
    BY <1>2, <1>3, <1>5, <1>6, <2>1
  <2>2. CASE d # c
    BY <1>2, <1>4, <1>6, <2>2 DEF LogInv
  <2>3. QED
    BY <2>1, <2>2
<1>7. ASSUME NEW d \in Callers, NEW e \in Callers, pc'[d] = "logging", pc'[e] = "logging", d # e
      PROVE  result'[d].id # result'[e].id
  <2>1. CASE d # c /\ e # c
    BY <1>2, <1>4, <1>7, <2>1 DEF LogInv
  <2>2. CASE d = c
    <3>1. result[e].id <= attempts /\ result'[e] = result[e] /\ result[e].id \in Nat
      BY <1>2, <1>4, <1>7, <2>2 DEF LogInv
    <3>2. QED
      BY <1>2, <1>3, <1>7, <2>2, <3>1
  <2>3. CASE e = c
    <3>1. result[d].id <= attempts /\ result'[d] = result[d] /\ result[d].id \in Nat
      BY <1>2, <1>4, <1>7, <2>3 DEF LogInv
    <3>2. QED
      BY <1>2, <1>3, <1>7, <2>3, <3>1
  <2>4. QED
    BY <2>1, <2>2, <2>3
<1>8. LoggedAtMostOnce' /\ log' \in Seq(Nat) /\ \A i \in 1..Len(log') : log'[i] <= attempts'
  BY <1>2, <1>5 DEF LogInv, LoggedAtMostOnce
<1>9. QED
  BY <1>2, <1>6, <1>7, <1>8 DEF LogInv

LEMMA LogWrite ==
    ASSUME TypeOK, LogInv, NEW c \in Callers, LogFailure(c)
    PROVE  LogInv'
<1> DEFINE id == result[c].id
<1>1. /\ pc[c] = "logging" /\ log' = Append(log, id) /\ pc' = [pc EXCEPT ![c] = "refusing"]
      /\ result' = result /\ attempts' = attempts
  BY DEF LogFailure
<1>2. id \in Nat /\ id <= attempts /\ \A i \in 1..Len(log) : log[i] # id
  BY <1>1 DEF LogInv
<1>3. \A d \in Callers : pc'[d] = "logging" => pc[d] = "logging" /\ d # c /\ result[d].id # id
  BY <1>1 DEF LogInv, TypeOK
<1>4. log \in Seq(Nat)
  BY DEF LogInv
<1> HIDE DEF id
<1>5. /\ log' \in Seq(Nat) /\ Len(log') = Len(log) + 1
      /\ \A i \in 1..Len(log') : log'[i] = IF i <= Len(log) THEN log[i] ELSE id
  BY <1>1, <1>2, <1>4
<1>6. \A i \in 1..Len(log') : log'[i] <= attempts'
  BY <1>1, <1>2, <1>5 DEF LogInv
<1>7. ASSUME NEW i \in 1..Len(log'), NEW j \in 1..Len(log'), log'[i] = log'[j] PROVE i = j
  <2>1. CASE i <= Len(log) /\ j <= Len(log)
    <3>1. log'[i] = log[i] /\ log'[j] = log[j] /\ i \in 1..Len(log) /\ j \in 1..Len(log)
      BY <1>4, <1>5, <2>1
    <3>2. LoggedAtMostOnce
      BY DEF LogInv
    <3>3. QED
      BY <1>7, <3>1, <3>2 DEF LoggedAtMostOnce
  <2>2. CASE i <= Len(log) /\ ~(j <= Len(log))
    BY <1>2, <1>4, <1>5, <1>7, <2>2
  <2>3. CASE ~(i <= Len(log)) /\ j <= Len(log)
    BY <1>2, <1>4, <1>5, <1>7, <2>3
  <2>4. CASE ~(i <= Len(log)) /\ ~(j <= Len(log))
    BY <1>4, <1>5, <2>4
  <2>5. QED
    BY <2>1, <2>2, <2>3, <2>4
<1>8. \A d \in Callers : pc'[d] = "logging" =>
        /\ result'[d].kind = "failure" /\ result'[d].id \in Nat /\ result'[d].id <= attempts'
        /\ \A i \in 1..Len(log') : log'[i] # result'[d].id
  BY <1>1, <1>3, <1>5 DEF LogInv
<1>9. \A d, e \in Callers : pc'[d] = "logging" /\ pc'[e] = "logging" /\ d # e => result'[d].id # result'[e].id
  BY <1>1, <1>3 DEF LogInv
<1>10. QED
  BY <1>5, <1>6, <1>7, <1>8, <1>9 DEF LogInv, LoggedAtMostOnce

LEMMA LogStep == TypeOK /\ LogInv /\ [Next]_vars => LogInv'
<1> SUFFICES ASSUME TypeOK, LogInv, [Next]_vars PROVE LogInv'
  OBVIOUS
<1>1. CASE UNCHANGED <<pc, result, log, attempts>>
  BY <1>1 DEF LogInv, LoggedAtMostOnce
<1>2. ASSUME NEW c \in Callers, Build(c) PROVE LogInv'
  <2>1. Bytes(c, NoRouter, FALSE) /\ pc[c] = "idle" /\ pc' = pc
    BY <1>2 DEF Build
  <2>2. log' = log /\ attempts' \in Nat /\ attempts <= attempts' /\ attempts \in Nat
        /\ \A d \in Callers : d # c => result'[d] = result[d]
    BY <2>1, BytesNumbers DEF TypeOK
  <2>3. \A d \in Callers : pc'[d] = "logging" => d # c /\ result'[d] = result[d] /\ pc[d] = "logging"
    BY <2>1, <2>2
  <2>4. LoggedAtMostOnce' /\ \A i \in 1..Len(log') : log'[i] <= attempts'
    BY <2>2 DEF LogInv, LoggedAtMostOnce
  <2>5. \A d \in Callers : pc'[d] = "logging" =>
          /\ result'[d].kind = "failure" /\ result'[d].id \in Nat /\ result'[d].id <= attempts'
          /\ \A i \in 1..Len(log') : log'[i] # result'[d].id
    BY <2>2, <2>3 DEF LogInv
  <2>6. QED
    BY <2>2, <2>3, <2>4, <2>5 DEF LogInv
<1>3. ASSUME NEW c \in Callers, ReplyFailed(c) \/ ReplyDocument(c) PROVE LogInv'
  <2>1. UNCHANGED <<result, log, attempts>> /\ \A d \in Callers : pc'[d] = "logging" => pc[d] = "logging"
    BY <1>3 DEF ReplyFailed, ReplyDocument, TypeOK
  <2>2. QED
    BY <2>1 DEF LogInv, LoggedAtMostOnce
<1>4. CASE Declaration
  BY <1>1, <1>4 DEF Declaration, AddRoute, Webhook, Register, SchemaName, RejectedDeclaration, MustBeOpen
<1>5. CASE \/ \E s \in Routers : Adopt(s)
           \/ \E m \in PossibleMounts : Mount(m)
           \/ \E e \in Strays : Stray(e)
           \/ SpecStatuses
           \/ UNCHANGED vars
  BY <1>1, <1>5 DEF Adopt, Mount, Stray, SpecStatuses
<1>6. QED
  BY <1>2, <1>3, <1>4, <1>5, LogServe, LogWrite DEF Next, Serving, Declaration

\* No failed build reaches the logger twice, whatever requests share its error
\* and in whatever order they log (serve.go, bytes and ServeHTTP).
THEOREM LoggedOnce == Spec => []LoggedAtMostOnce
<1>1. LogInv => LoggedAtMostOnce
  BY DEF LogInv
<1>2. QED BY <1>1, TypeInit, TypeStep, LogInit, LogStep, PTL DEF Spec

(***************************************************************************)
(* A broken spec is built once.                                            *)
(***************************************************************************)

\* Once a request ran a build that failed, its error is kept for the inputs as
\* they are, and for the chi router that the requests come through.
BuiltInv ==
    /\ spent \in {0, 1}
    /\ outer # NoRouter => \A q \in Requests : q.via = outer
    /\ spent = 1 /\ specJSON = NoDocument =>
        /\ buildErr # NoError /\ errAt = inputs
        /\ \A q \in Requests : q.via \in {NoRouter, outer}

LEMMA BuiltInit == Init => BuiltInv
BY DEF Init, BuiltInv

LEMMA FailureType ==
    ASSUME TypeOK, NEW c \in Callers, NEW q \in Requests, Bytes(c, q.via, TRUE), NEW panic \in BOOLEAN
    PROVE  [id |-> attempts', panic |-> panic, seen |-> BuildInputs'] \in Failures
<1>1. q.via \in Routers \cup {NoRouter}
  BY GeneratorAssumption
<1>2. outer' \in Routers \cup {NoRouter} /\ attempts' \in Nat
  BY <1>1, TypeBytes
<1>3. UNCHANGED <<records, webhooks, variants, overrides, sources>>
  BY DEF Bytes
<1>4. QED
  BY <1>2, <1>3 DEF BuildInputs, Failures, TypeOK

LEMMA BuiltServe ==
    ASSUME \A p, q \in Requests : p.via = q.via, TypeOK, BuiltInv,
           NEW c \in Callers, NEW q \in Requests, Serve(c, q)
    PROVE  BuiltInv'
<1>1. Bytes(c, q.via, TRUE)
  BY DEF Serve
<1>2. CASE specJSON # NoDocument
  BY <1>1, <1>2 DEF Bytes, BuiltInv
<1>3. CASE specJSON = NoDocument
  <2>1. NoteOuter(q.via)
    BY <1>1, <1>3 DEF Bytes
  <2>2. /\ outer' # NoRouter => \A p \in Requests : p.via = outer'
        /\ \A p \in Requests : p.via \in {NoRouter, outer'}
    BY <2>1 DEF NoteOuter, BuiltInv
  <2>3. CASE spent = 1
    <3>1. UNCHANGED <<outer, inputs>>
      BY <1>3, <2>1, <2>3 DEF NoteOuter, BuiltInv
    <3>2. IsKept(TRUE)
      BY <1>3, <2>3, <3>1 DEF BuiltInv, IsKept
    <3>3. UNCHANGED <<specJSON, buildErr, errAt, spent>>
      BY <1>1, <1>3, <3>2 DEF Bytes
    <3>4. QED
      BY <2>2, <2>3, <3>1, <3>3 DEF BuiltInv
  <2>4. CASE spent = 0
    <3>1. CASE IsKept(TRUE)
      <4>1. spent' = spent
        BY <1>1, <1>3, <3>1 DEF Bytes
      <4>2. QED
        BY <2>2, <2>4, <4>1 DEF BuiltInv
    <3>2. CASE ~IsKept(TRUE)
      <4>1. /\ spent' = 1 /\ Encode
            /\ KeepError(FALSE) \/ KeepError(TRUE) \/ specJSON' = NewDocument
        <5>1. Encode /\ spent' = spent + 1
          BY <1>1, <1>3, <3>2 DEF Bytes
        <5>2. KeepError(FALSE) \/ KeepError(TRUE) \/ Freeze
          BY <1>1, <1>3, <3>2 DEF Bytes
        <5>3. Freeze => specJSON' = NewDocument
          BY DEF Freeze
        <5>4. spent' = 1
          BY <2>4, <5>1
        <5>5. QED
          BY <5>1, <5>2, <5>3, <5>4
      <4>2. CASE KeepError(FALSE) \/ KeepError(TRUE)
        <5>1. errAt' = inputs' /\ \E panic \in BOOLEAN : buildErr' = [id |-> attempts', panic |-> panic, seen |-> BuildInputs']
          BY <4>2 DEF KeepError
        <5>2. buildErr' # NoError
          BY <1>1, <5>1, FailureType, GeneratorAssumption
        <5>3. QED
          BY <2>2, <4>1, <5>1, <5>2 DEF BuiltInv
      <4>3. CASE specJSON' = NewDocument
        <5>1. NewDocument # NoDocument
          BY <4>1, PairedType, NewDocumentShows DEF Encode
        <5>2. QED
          BY <2>2, <4>1, <4>3, <5>1 DEF BuiltInv
      <4>4. QED
        BY <4>1, <4>2, <4>3
    <3>3. QED
      BY <3>1, <3>2
  <2>5. QED
    BY <2>3, <2>4 DEF BuiltInv
<1>4. QED
  BY <1>2, <1>3

LEMMA BuiltBuild ==
    ASSUME TypeOK, BuiltInv, NEW c \in Callers, Build(c)
    PROVE  BuiltInv'
<1>1. Bytes(c, NoRouter, FALSE)
  BY DEF Build
<1>2. UNCHANGED <<outer, inputs, spent>>
  BY <1>1 DEF Bytes, NoteOuter
<1>3. CASE UNCHANGED frozen
  BY <1>2, <1>3 DEF BuiltInv
<1>4. CASE KeepError(FALSE) /\ Encode
  <2>1. errAt' = inputs' /\ buildErr' = [id |-> attempts', panic |-> FALSE, seen |-> BuildInputs']
    BY <1>4 DEF KeepError
  <2>2. attempts' \in Nat /\ UNCHANGED <<records, webhooks, variants, overrides, sources>>
    BY <1>1, BytesNumbers DEF Bytes
  <2>3. buildErr' \in Failures
    BY <1>2, <2>1, <2>2 DEF BuildInputs, Failures, TypeOK
  <2>4. buildErr' # NoError /\ specJSON' = specJSON
    BY <1>4, <2>3, GeneratorAssumption DEF KeepError
  <2>5. QED
    BY <1>2, <2>1, <2>4 DEF BuiltInv
<1>5. CASE Freeze /\ Encode
  <2>1. specJSON' # NoDocument
    BY <1>5, PairedType, NewDocumentShows DEF Encode, Freeze
  <2>2. QED
    BY <1>2, <2>1 DEF BuiltInv
<1>6. QED
  BY <1>1, <1>3, <1>4, <1>5 DEF Bytes

LEMMA BuiltStep ==
    ASSUME \A p, q \in Requests : p.via = q.via
    PROVE  TypeOK /\ BuiltInv /\ [Next]_vars => BuiltInv'
<1> SUFFICES ASSUME TypeOK, BuiltInv, [Next]_vars PROVE BuiltInv'
  OBVIOUS
<1>1. CASE Declaration \/ \E s \in Routers : Adopt(s)
  <2>1. spent' = 0 /\ outer' = outer
    BY <1>1 DEF Declaration, AddRoute, Webhook, Register, SchemaName, RejectedDeclaration, MustBeOpen, Adopt
  <2>2. QED
    BY <2>1 DEF BuiltInv
<1>2. CASE UNCHANGED <<outer, inputs, frozen, spent>>
  BY <1>2 DEF BuiltInv
<1>3. CASE \/ \E m \in PossibleMounts : Mount(m)
           \/ \E e \in Strays : Stray(e)
           \/ \E c \in Callers : Serving(c)
           \/ SpecStatuses
           \/ UNCHANGED vars
  BY <1>2, <1>3 DEF Mount, Stray, Serving, LogFailure, ReplyFailed, ReplyDocument, SpecStatuses
<1>4. QED
  BY <1>1, <1>3, BuiltServe, BuiltBuild DEF Next, Declaration

\* Between two declarations, requests that all come through one chi router, or
\* through none, run one build of a broken spec, whatever Build and WriteJSON do
\* meanwhile (serve.go, bytes): each further router would count as new inputs.
THEOREM BrokenSpecBuiltOnce ==
    ASSUME \A p, q \in Requests : p.via = q.via
    PROVE  Spec => []OneBuildPerBrokenSpec
<1>1. BuiltInv => OneBuildPerBrokenSpec
  BY DEF BuiltInv, OneBuildPerBrokenSpec
<1>2. TypeOK /\ BuiltInv /\ [Next]_vars => BuiltInv'
  BY BuiltStep
<1>3. QED BY <1>1, <1>2, TypeInit, TypeStep, BuiltInit, PTL DEF Spec

(***************************************************************************)
(* A kept panic and Build.                                                 *)
(***************************************************************************)

\* While the inputs stand, what made the kept build panic is still there.
PanicInv ==
    buildErr # NoError /\ buildErr.panic /\ errAt = inputs => SchemaPanics

LEMMA PanicInit == Init => PanicInv
BY DEF Init, PanicInv

LEMMA SchemaPanicsOfDeclared == UNCHANGED declared => SchemaPanics' = SchemaPanics
BY DEF SchemaPanics, NeededVariants, ReflectedTypes, ComponentName, Described

LEMMA PanicBytes ==
    ASSUME NEW c, NEW via, NEW catch, KeptInv, PanicInv, Bytes(c, via, catch)
    PROVE  PanicInv'
<1>1. SchemaPanics' = SchemaPanics
  BY SchemaPanicsOfDeclared DEF Bytes
<1>2. CASE UNCHANGED <<buildErr, errAt>>
  <2>1. UNCHANGED inputs \/ (inputs' = inputs + 1)
    BY DEF Bytes, NoteOuter
  <2>2. errAt = inputs' => inputs' = inputs
    BY <2>1 DEF KeptInv
  <2>3. QED BY <1>1, <1>2, <2>2 DEF PanicInv
<1>3. CASE KeepError(FALSE) \/ buildErr' = NoError
  BY <1>3 DEF KeepError, PanicInv
<1>4. CASE KeepError(TRUE) /\ Panics
  BY <1>1, <1>4 DEF Panics, PanicInv
<1>5. QED BY <1>2, <1>3, <1>4 DEF Bytes, Freeze

LEMMA PanicStep == KeptInv /\ PanicInv /\ [Next]_vars => PanicInv'
<1> SUFFICES ASSUME KeptInv, PanicInv, [Next]_vars PROVE PanicInv'
  OBVIOUS
<1>1. CASE Declaration \/ \E s \in Routers : Adopt(s)
  <2>1. errAt' = errAt /\ inputs' = inputs + 1
    BY <1>1 DEF Declaration, AddRoute, Webhook, Register, SchemaName, RejectedDeclaration, MustBeOpen, Adopt
  <2>2. QED BY <2>1 DEF KeptInv, PanicInv
<1>2. CASE UNCHANGED <<declared, inputs, frozen>>
  BY <1>2, SchemaPanicsOfDeclared DEF PanicInv
<1>3. CASE \/ \E m \in PossibleMounts : Mount(m)
           \/ \E e \in Strays : Stray(e)
           \/ \E c \in Callers : Serving(c)
           \/ SpecStatuses
           \/ UNCHANGED vars
  BY <1>2, <1>3 DEF Mount, Stray, Serving, LogFailure, ReplyFailed, ReplyDocument, SpecStatuses
<1>4. QED BY <1>1, <1>3, PanicBytes DEF Next, Declaration, Build, Serve

\* What Build does on a kept panic.
LEMMA BuildOnPanic ==
    ASSUME TypeOK, PanicInv, NEW c \in Callers, Build(c),
           buildErr # NoError, buildErr.panic, errAt = inputs, specJSON = NoDocument
    PROVE  /\ specJSON' = NoDocument
           /\ attempts' = attempts + 1
           /\ \/ result'[c].kind = "panic"
              \/ result'[c].kind = "failure" /\ result'[c].id = attempts'
<1>1. ~IsKept(FALSE)
  BY DEF IsKept
<1>2. /\ Encode
      /\ \/ Fails /\ KeepError(FALSE) /\ Returns(c, Failure(attempts', TRUE))
         \/ UNCHANGED frozen /\ Returns(c, [kind |-> "panic"])
         \/ Succeeds
  BY <1>1 DEF Build, Bytes
<1>3. ~Succeeds
  BY DEF Succeeds, PanicInv
<1>4. specJSON' = specJSON /\ attempts' = attempts + 1
  BY <1>2, <1>3 DEF Encode, KeepError
<1>5. Returns(c, Failure(attempts', TRUE)) \/ Returns(c, [kind |-> "panic"])
  BY <1>2, <1>3
<1>6. result'[c] = Failure(attempts', TRUE) \/ result'[c] = [kind |-> "panic"]
  BY <1>5 DEF Returns, TypeOK
<1>7. QED BY <1>4, <1>6 DEF Failure

\* A panic that a request kept never becomes the error that Build or WriteJSON
\* return, and frees nothing to publish: they build again and meet it themselves
\* (serve.go, bytes and isBuildPanic).
THEOREM PanicsReachBuild == Spec => KeptPanicsReachBuild
<1>1. TypeOK /\ PanicInv /\ [Next]_vars =>
        [\A c \in Callers :
            /\ Build(c)
            /\ buildErr # NoError /\ buildErr.panic /\ errAt = inputs
            /\ specJSON = NoDocument
            => /\ specJSON' = NoDocument
               /\ attempts' = attempts + 1
               /\ \/ result'[c].kind = "panic"
                  \/ result'[c].kind = "failure" /\ result'[c].id = attempts']_vars
  BY BuildOnPanic
<1>2. QED
  BY <1>1, TypeInit, TypeStep, KeptInit, KeptStep, PanicInit, PanicStep, PTL
     DEF Spec, KeptPanicsReachBuild

=============================================================================
