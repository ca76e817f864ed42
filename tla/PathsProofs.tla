---------------------------- MODULE PathsProofs ----------------------------
(***************************************************************************)
(* Theorems about the path translators for every alphabet and every length *)
(* of path: what a translator accepts is a document path that its router   *)
(* reads in the same way, and what it refuses has no such document path.   *)
(* The grammar builds words from their ends and the scanners read them     *)
(* from their beginnings; the invariants say that what the scanner has     *)
(* read may be put in front of whatever the grammar makes of the rest.     *)
(***************************************************************************)
EXTENDS Paths, FiniteSetTheorems, SequenceTheorems, WellFoundedInduction, TLAPS

LEMMA LeastNumber ==
    ASSUME NEW T \in SUBSET Nat, T # {}
    PROVE  \E x \in T : \A y \in T : x <= y
<1>1. IsWellFoundedOn(OpToRel(<, Nat), Nat)
  BY NatLessThanWellFounded
<1>2. PICK x \in T : \A y \in T : ~(<<y, x>> \in OpToRel(<, Nat))
  BY <1>1, WFMin
<1>3. ASSUME NEW y \in T PROVE x <= y
  <2>1. ~(y < x)
    BY <1>2 DEF OpToRel
  <2>2. QED
    BY <2>1
<1>4. QED
  BY <1>3

(***************************************************************************)
(* The levels of the grammar.                                              *)
(***************************************************************************)

LevelStep(r, f, n) ==
    IF n = 0 THEN <<{<<<<>>, <<>>>>}>> ELSE Append(f[n - 1], Longer(r, f[n - 1]))

LevelsTo(r, k, f) == f = [n \in 0..k |-> LevelStep(r, f, n)]

LEMMA LongestType ==
    ASSUME NEW r \in Routers
    PROVE  Longest(r) \in Nat /\ MaxLength[r] \in Nat /\ Longest(r) \in {MaxLength[r], MaxLength[r] + 1}
           /\ r \in {"gin", "echo", "fiber"}
<1>1. MaxLength[r] \in Nat /\ r \in {"gin", "echo", "fiber"}
  BY PathsAssumption
<1>2. QED
  BY <1>1 DEF Longest

LEMMA LevelsExist ==
    ASSUME NEW r, NEW k \in Nat
    PROVE  \E f : LevelsTo(r, k, f)
<1> DEFINE bad == {j \in Nat : ~\E f : LevelsTo(r, j, f)}
<1> SUFFICES ASSUME bad # {} PROVE FALSE
  OBVIOUS
<1>1. PICK b \in bad : \A j \in bad : b <= j
  BY LeastNumber
<1>2. b # 0
  <2> DEFINE f == [n \in 0..0 |-> <<{<<<<>>, <<>>>>}>>]
  <2>1. f = [n \in 0..0 |-> LevelStep(r, f, n)]
    BY DEF LevelStep
  <2>2. QED
    BY <2>1 DEF LevelsTo
<1>3. b - 1 \in Nat /\ b - 1 \notin bad
  BY <1>1, <1>2
<1>4. PICK f : LevelsTo(r, b - 1, f)
  BY <1>3
<1> DEFINE g == [n \in 0..b |-> IF n < b THEN f[n] ELSE LevelStep(r, f, b)]
<1>5. ASSUME NEW n \in 0..b PROVE g[n] = LevelStep(r, g, n)
  <2>1. CASE n = 0
    BY <1>2, <1>3, <1>4, <2>1 DEF LevelStep, LevelsTo
  <2>2. CASE n > 0 /\ n < b
    <3>1. g[n - 1] = f[n - 1] /\ g[n] = f[n]
      BY <2>2
    <3>2. f[n] = LevelStep(r, f, n)
      BY <1>3, <1>4, <2>2 DEF LevelsTo
    <3>3. QED
      BY <2>2, <3>1, <3>2 DEF LevelStep
  <2>3. CASE n = b
    <3>1. g[n - 1] = f[n - 1] /\ g[n] = LevelStep(r, f, b)
      BY <1>2, <1>3, <2>3
    <3>2. QED
      BY <1>2, <2>3, <3>1 DEF LevelStep
  <2>4. QED
    BY <2>1, <2>2, <2>3
<1>6. LevelsTo(r, b, g)
  BY <1>5 DEF LevelsTo
<1>7. QED
  BY <1>1, <1>6

LEMMA GrammarLevels ==
    ASSUME NEW r \in Routers
    PROVE  \E f : LevelsTo(r, Longest(r), f) /\ Grammar[r] = f[Longest(r)]
<1> DEFINE words == CHOOSE f : f = [n \in 0..Longest(r) |-> LevelStep(r, f, n)]
<1>1. \E f : f = [n \in 0..Longest(r) |-> LevelStep(r, f, n)]
  BY LevelsExist, LongestType DEF LevelsTo
<1>2. words = [n \in 0..Longest(r) |-> LevelStep(r, words, n)]
  BY <1>1
<1>3. Grammar[r] = words[Longest(r)]
  BY DEF Grammar, LevelStep
<1>4. QED
  BY <1>2, <1>3 DEF LevelsTo

\* Every level is built from the ones below it.
LEMMA LevelShape ==
    ASSUME NEW r \in Routers
    PROVE  /\ Grammar[r][1] = {<<<<>>, <<>>>>} /\ DOMAIN Grammar[r] = 1..(Longest(r) + 1)
           /\ \A n \in 1..Longest(r) : \E shorter :
                /\ Len(shorter) = n
                /\ \A k \in 1..n : shorter[k] = Grammar[r][k]
                /\ Grammar[r][n + 1] = Longer(r, shorter)
<1>1. PICK f : LevelsTo(r, Longest(r), f) /\ Grammar[r] = f[Longest(r)]
  BY GrammarLevels
<1> DEFINE L == Longest(r)
           T == {{<<<<>>, <<>>>>}} \cup {Longer(r, f[m]) : m \in 0..L}
           Good(m) == /\ f[m] \in Seq(T) /\ Len(f[m]) = m + 1
                      /\ \A k \in 1..m : f[m][k] = f[m - 1][k]
           bad == {m \in Nat : m <= L /\ ~Good(m)}
<1>2. L \in Nat
  BY LongestType
<1>3. f[0] = <<{<<<<>>, <<>>>>}>>
  BY <1>1, <1>2 DEF LevelsTo, LevelStep
<1>4. \A m \in 1..L : f[m] = Append(f[m - 1], Longer(r, f[m - 1]))
  <2> SUFFICES ASSUME NEW m \in 1..L PROVE f[m] = Append(f[m - 1], Longer(r, f[m - 1]))
    OBVIOUS
  <2>1. m \in 0..L /\ m # 0
    BY <1>2
  <2>2. f[m] = LevelStep(r, f, m)
    BY <1>1, <2>1 DEF LevelsTo
  <2>3. QED
    BY <2>1, <2>2 DEF LevelStep
<1>5. \A m \in 0..L : Longer(r, f[m]) \in T
  OBVIOUS
<1>6. {<<<<>>, <<>>>>} \in T
  OBVIOUS
<1> HIDE DEF T, L
<1>7. Good(0)
  BY <1>3, <1>6
<1>8. ASSUME NEW m \in 1..L, f[m - 1] \in Seq(T), Len(f[m - 1]) = m
      PROVE  Good(m) /\ f[m][m + 1] = Longer(r, f[m - 1])
  <2> DEFINE s == f[m - 1]
             x == Longer(r, f[m - 1])
  <2>1. x \in T /\ f[m] = Append(s, x)
    BY <1>2, <1>4, <1>5
  <2> HIDE DEF s, x
  <2>2. s \in Seq(T) /\ Len(s) = m
    BY <1>8 DEF s
  <2>3. Append(s, x) \in Seq(T) /\ Len(Append(s, x)) = m + 1
        /\ (\A k \in 1..m : Append(s, x)[k] = s[k]) /\ Append(s, x)[m + 1] = x
    BY <2>1, <2>2, <1>2
  <2>4. QED
    BY <2>1, <2>3 DEF s, x
<1>9. bad = {}
  <2> SUFFICES ASSUME bad # {} PROVE FALSE
    OBVIOUS
  <2>1. PICK b \in bad : \A j \in bad : b <= j
    BY LeastNumber
  <2>2. b # 0
    BY <1>7
  <2>3. b - 1 \in Nat /\ b - 1 <= L /\ b - 1 \notin bad /\ b \in 1..L
    <3>1. b \in Nat /\ b <= L /\ b - 1 \in Nat /\ b - 1 < b
      BY <1>2, <2>1, <2>2
    <3> HIDE DEF Good
    <3>2. b - 1 \notin bad
      BY <2>1, <3>1
    <3>3. QED
      BY <1>2, <3>1, <3>2
  <2>4. f[b - 1] \in Seq(T) /\ Len(f[b - 1]) = b
    BY <2>3
  <2>5. QED
    BY <1>8, <2>3, <2>4
<1>10. \A m \in 0..L : Good(m)
  BY <1>2, <1>9
<1>11. ASSUME NEW n \in 0..L, NEW k \in 1..(n + 1) PROVE f[L][k] = f[n][k]
  <2> DEFINE off == {m \in Nat : n <= m /\ m <= L /\ f[m][k] # f[n][k]}
  <2> SUFFICES ASSUME off # {} PROVE FALSE
    BY <1>2
  <2>1. PICK b \in off : \A j \in off : b <= j
    BY LeastNumber
  <2>2. b > n /\ b - 1 \in Nat /\ b - 1 \notin off /\ n <= b - 1 /\ b - 1 <= L
    BY <1>2, <2>1
  <2>3. f[b - 1][k] = f[n][k]
    BY <2>2
  <2>4. f[b][k] = f[b - 1][k]
    <3>1. b \in 0..L /\ k \in 1..b
      BY <1>2, <2>1, <2>2
    <3>2. Good(b)
      <4> HIDE DEF Good
      <4>1. QED
        BY <1>10, <3>1
    <3>3. QED
      BY <3>1, <3>2
  <2>5. QED
    BY <2>1, <2>3, <2>4
<1>12. Grammar[r][1] = {<<<<>>, <<>>>>}
  BY <1>1, <1>2, <1>3, <1>11 DEF L
<1>13. ASSUME NEW n \in 1..L
       PROVE  \E shorter :
                /\ Len(shorter) = n
                /\ \A k \in 1..n : shorter[k] = Grammar[r][k]
                /\ Grammar[r][n + 1] = Longer(r, shorter)
  <2>1. Good(n - 1) /\ n - 1 \in 0..L /\ n \in 0..L /\ (n - 1) + 1 = n
    BY <1>2, <1>10
  <2>2. Len(f[n - 1]) = n /\ f[n][n + 1] = Longer(r, f[n - 1])
    BY <1>8, <2>1
  <2>3. \A k \in 1..n : f[n - 1][k] = Grammar[r][k]
    BY <1>1, <1>11, <2>1 DEF L
  <2>4. Grammar[r][n + 1] = f[n][n + 1]
    BY <1>1, <1>11, <2>1 DEF L
  <2>5. QED
    BY <2>2, <2>3, <2>4
<1>14. DOMAIN Grammar[r] = 1..(L + 1)
  <2>1. Good(L)
    BY <1>2, <1>10
  <2>2. f[L] \in Seq(T) /\ Len(f[L]) = L + 1
    BY <2>1
  <2>3. DOMAIN f[L] = 1..(L + 1)
    BY <2>2
  <2>4. QED
    BY <1>1, <2>3 DEF L
<1>15. QED
  BY <1>12, <1>13, <1>14 DEF L

\* e is a spelling of a piece in front of a word d of a lower level.
Built(r, n, e) ==
    \E piece \in Pieces(r) : \E form \in Forms(r, piece) : \E k \in 1..n : \E d \in Grammar[r][k] :
        /\ Len(form) + Len(d[2]) = n /\ Reads(r, piece, form, d[2])
        /\ e = <<<<piece>> \o d[1], form \o d[2]>>

LEMMA LevelMember ==
    ASSUME NEW r \in Routers, NEW n \in 1..Longest(r), NEW e
    PROVE  e \in Grammar[r][n + 1] <=> Built(r, n, e)
<1>1. PICK shorter :
            /\ Len(shorter) = n
            /\ \A k \in 1..n : shorter[k] = Grammar[r][k]
            /\ Grammar[r][n + 1] = Longer(r, shorter)
  BY LevelShape
<1> DEFINE spellings == UNION {{piece} \X Forms(r, piece) : piece \in Pieces(r)}
           below == UNION {shorter[k] : k \in 1..n}
           fitting == {x \in spellings \X below :
                        /\ Len(x[1][2]) + Len(x[2][2]) = n
                        /\ Reads(r, x[1][1], x[1][2], x[2][2])}
           built == {<<<<x[1][1]>> \o x[2][1], x[1][2] \o x[2][2]>> : x \in fitting}
<1>2. Grammar[r][n + 1] = built
  BY <1>1 DEF Longer
<1>3. below = UNION {Grammar[r][k] : k \in 1..n}
  BY <1>1
<1>4. \A s : s \in spellings <=> \E piece \in Pieces(r) : \E form \in Forms(r, piece) : s = <<piece, form>>
  OBVIOUS
<1> HIDE DEF spellings, below
<1>5. e \in built <=> \E s \in spellings, d \in below :
        /\ Len(s[2]) + Len(d[2]) = n /\ Reads(r, s[1], s[2], d[2])
        /\ e = <<<<s[1]>> \o d[1], s[2] \o d[2]>>
  <2>1. ASSUME NEW x \in fitting, e = <<<<x[1][1]>> \o x[2][1], x[1][2] \o x[2][2]>>
        PROVE  \E s \in spellings, d \in below :
                /\ Len(s[2]) + Len(d[2]) = n /\ Reads(r, s[1], s[2], d[2])
                /\ e = <<<<s[1]>> \o d[1], s[2] \o d[2]>>
    <3>1. x[1] \in spellings /\ x[2] \in below
      OBVIOUS
    <3>2. QED
      BY <2>1, <3>1
  <2>2. ASSUME NEW s \in spellings, NEW d \in below,
               Len(s[2]) + Len(d[2]) = n, Reads(r, s[1], s[2], d[2]),
               e = <<<<s[1]>> \o d[1], s[2] \o d[2]>>
        PROVE  e \in built
    <3> DEFINE x == <<s, d>>
    <3>1. x \in fitting
      BY <2>2
    <3>2. e = <<<<x[1][1]>> \o x[2][1], x[1][2] \o x[2][2]>>
      BY <2>2
    <3>3. QED
      BY <3>1, <3>2
  <2>3. QED
    BY <2>1, <2>2
<1>6. QED
  <2>1. ASSUME NEW s \in spellings, NEW d \in below,
               Len(s[2]) + Len(d[2]) = n, Reads(r, s[1], s[2], d[2]),
               e = <<<<s[1]>> \o d[1], s[2] \o d[2]>>
        PROVE  Built(r, n, e)
    <3>1. PICK piece \in Pieces(r) : \E form \in Forms(r, piece) : s = <<piece, form>>
      BY <1>4
    <3>2. PICK form \in Forms(r, piece) : s = <<piece, form>>
      BY <3>1
    <3>3. s[1] = piece /\ s[2] = form
      BY <3>2
    <3>4. PICK k \in 1..n : d \in Grammar[r][k]
      BY <1>3
    <3>5. QED
      BY <2>1, <3>3, <3>4 DEF Built
  <2>2. ASSUME NEW piece \in Pieces(r), NEW form \in Forms(r, piece), NEW k \in 1..n, NEW d \in Grammar[r][k],
               Len(form) + Len(d[2]) = n, Reads(r, piece, form, d[2]),
               e = <<<<piece>> \o d[1], form \o d[2]>>
        PROVE  e \in built
    <3> DEFINE s == <<piece, form>>
    <3>1. s \in spellings /\ s[1] = piece /\ s[2] = form
      BY <1>4
    <3>2. d \in below
      BY <1>3
    <3> HIDE DEF s
    <3>3. QED
      BY <1>5, <2>2, <3>1, <3>2
  <2>3. ASSUME Built(r, n, e) PROVE e \in built
    <3>1. PICK piece \in Pieces(r) : \E form \in Forms(r, piece) : \E k \in 1..n : \E d \in Grammar[r][k] :
                /\ Len(form) + Len(d[2]) = n /\ Reads(r, piece, form, d[2])
                /\ e = <<<<piece>> \o d[1], form \o d[2]>>
      BY <2>3 DEF Built
    <3>2. PICK form \in Forms(r, piece) : \E k \in 1..n : \E d \in Grammar[r][k] :
                /\ Len(form) + Len(d[2]) = n /\ Reads(r, piece, form, d[2])
                /\ e = <<<<piece>> \o d[1], form \o d[2]>>
      BY <3>1
    <3> HIDE DEF built
    <3>3. QED
      BY <2>2, <3>2
  <2>4. QED
    BY <1>2, <1>5, <2>1, <2>3

(***************************************************************************)
(* The pieces and their spellings.                                         *)
(***************************************************************************)

\* No brace is another character with a meaning, and no character is none.
LEMMA BracesApart ==
    /\ \A c \in {"/", "-", ".", ":", "\\", "?", "<", ">", "*", "+"} : c \notin Braces /\ c # End
    /\ End \notin Braces
BY Zenon DEF Braces, End

Chars(r) == Alphabet[r] \cup {":", "\\", "<", ">", "*"}

LEMMA CharsType ==
    ASSUME NEW r \in Routers
    PROVE  /\ End \notin Chars(r) /\ "/" \in Alphabet[r] /\ Alphabet[r] \subseteq Chars(r)
           /\ Letters(r) \subseteq Alphabet[r]
           /\ \A c \in Letters(r) : c \notin {"/", ":", "*", "\\"} \cup Braces
           /\ r = "fiber" => \A c \in Letters(r) : c \notin NameEnds
BY PathsAssumption, BracesApart DEF Chars, Letters, NameEnds

LEMMA TextShape ==
    ASSUME NEW r \in Routers, NEW t
    PROVE  t \in Texts(r) <=> t \in Seq(Letters(r)) /\ Len(t) \in 1..MaxLength[r]
<1>1. MaxLength[r] \in Nat
  BY LongestType
<1>2. ASSUME NEW n \in 1..MaxLength[r], t \in [1..n -> Letters(r)]
      PROVE  t \in Seq(Letters(r)) /\ Len(t) = n
  BY <1>1, <1>2
<1>3. ASSUME t \in Seq(Letters(r)), Len(t) \in 1..MaxLength[r]
      PROVE  t \in Texts(r)
  BY <1>1, <1>3 DEF Texts
<1>4. QED
  BY <1>2, <1>3 DEF Texts

LEMMA ConstraintShape ==
    ASSUME NEW r \in Routers, NEW w \in Constraints(r)
    PROVE  w \in Seq(Alphabet[r])
<1>1. PICK n \in 0..(MaxLength[r] - 4) : w \in [1..n -> Alphabet[r]]
  BY DEF Constraints
<1>2. n \in Nat
  BY <1>1, LongestType
<1>3. QED
  BY <1>1, <1>2

\* The three kinds of piece.
LEMMA PieceKinds ==
    ASSUME NEW r \in Routers, NEW piece
    PROVE  piece \in Pieces(r) <=>
            \/ \E c \in Alphabet[r] : piece = Literal(c)
            \/ \E t \in Texts(r) : piece = Param(t)
            \/ r = "gin" /\ \E t \in Texts(r) : piece = CatchAll(t)
            \/ r = "echo" /\ piece = CatchAll(<<"*">>)
            \/ r = "fiber" /\ \E c \in {"*", "+"} \cap Alphabet[r] : piece = CatchAll(<<c>>)
<1>1. CASE r = "gin"
  BY <1>1 DEF Pieces
<1>2. CASE r = "echo"
  BY <1>2 DEF Pieces
<1>3. CASE r = "fiber"
  BY <1>3 DEF Pieces
<1>4. QED
  BY <1>1, <1>2, <1>3, LongestType

\* A parameter of Fiber with its constraint.
Bracketed(t, w) == <<":">> \o t \o <<"<">> \o w \o <<">">>

LEMMA ParamForms ==
    ASSUME NEW r, NEW t, NEW form
    PROVE  form \in Forms(r, Param(t)) <=>
            \/ form = <<":">> \o t
            \/ r = "fiber" /\ \E w \in Constraints(r) : form = Bracketed(t, w)
<1>1. Param(t).is = "param" /\ Param(t).text = t
  BY DEF Param
<1>2. Forms(r, Param(t)) =
        {<<":">> \o t} \cup {<<":">> \o t \o <<"<">> \o w \o <<">">> :
                                w \in IF r = "fiber" THEN Constraints(r) ELSE {}}
  BY <1>1 DEF Forms
<1>3. QED
  BY <1>2 DEF Bracketed

LEMMA RestForms ==
    ASSUME NEW r, NEW t, NEW form
    PROVE  form \in Forms(r, CatchAll(t)) <=> form = IF r = "gin" THEN <<"*">> \o t ELSE <<Head(t)>>
BY DEF Forms, CatchAll

LEMMA LiteralForms ==
    ASSUME NEW r, NEW c, NEW form
    PROVE  form \in Forms(r, Literal(c)) <=>
            /\ c \notin Braces
            /\ c = ":" => form = <<"\\", ":">> \/ (r = "fiber" /\ form = <<":">>)
            /\ c = "\\" => r # "gin" /\ form = IF r = "echo" THEN <<c>> ELSE <<"\\", "\\">>
            /\ c = "*" => r = "fiber" /\ form = <<"\\", c>>
            /\ c = "+" /\ r = "fiber" => form = <<"\\", c>>
            /\ c \notin {":", "\\", "*"} /\ ~(c = "+" /\ r = "fiber") =>
                    form = <<c>> \/ (r = "fiber" /\ form = <<"\\", c>>)
<1>1. Forms(r, Literal(c)) = Escapes(r, c)
  <2>1. Literal(c).is = "literal" /\ Head(Literal(c).text) = c
    BY DEF Literal
  <2>2. QED
    BY <2>1 DEF Forms
<1>2. CASE c \in Braces
  BY <1>1, <1>2, BracesApart DEF Escapes
<1>3. CASE c = ":"
  BY <1>1, <1>3, BracesApart DEF Escapes
<1>4. CASE c = "\\"
  BY <1>1, <1>4, BracesApart DEF Escapes
<1>5. CASE c = "*" \/ (c = "+" /\ r = "fiber")
  BY <1>1, <1>5, BracesApart DEF Escapes
<1>6. CASE c \notin Braces \cup {":", "\\", "*"} /\ ~(c = "+" /\ r = "fiber")
  BY <1>1, <1>6, BracesApart DEF Escapes
<1>7. QED
  BY <1>2, <1>3, <1>4, <1>5, <1>6

LEMMA ParamReads ==
    ASSUME NEW r, NEW t, NEW form, NEW rest
    PROVE  Reads(r, Param(t), form, rest) <=>
            \/ CharAt(rest, 1) \in {End, "/"}
            \/ r = "echo" /\ EscapedColon(rest, 1) /\ StaticSegment(rest)
            \/ r = "fiber" /\ CharAt(rest, 1) \in {"-", ".", "\\"}
BY DEF Reads, Param

LEMMA RestReads ==
    ASSUME NEW r, NEW t, NEW form, NEW rest
    PROVE  Reads(r, CatchAll(t), form, rest) <=> r = "fiber" \/ rest = <<>>
BY DEF Reads, CatchAll

LEMMA LiteralReads ==
    ASSUME NEW r, NEW c, NEW form, NEW rest
    PROVE  Reads(r, Literal(c), form, rest) <=>
            /\ r = "echo" /\ form = <<"\\">> => CharAt(rest, 1) # ":"
            /\ r = "fiber" /\ form = <<":">> => CharAt(rest, 1) = ":"
BY DEF Reads, Literal

LEMMA ShortSequences ==
    ASSUME NEW T, NEW c \in T, NEW d \in T
    PROVE  /\ <<c>> \in Seq(T) /\ Len(<<c>>) = 1
           /\ <<c, d>> \in Seq(T) /\ Len(<<c, d>>) = 2
OBVIOUS

LEMMA FormShape ==
    ASSUME NEW r \in Routers, NEW piece \in Pieces(r), NEW form \in Forms(r, piece)
    PROVE  form \in Seq(Chars(r)) /\ Len(form) \in Nat \ {0}
<1>1. ASSUME NEW c \in Alphabet[r], piece = Literal(c) PROVE form \in Seq(Chars(r)) /\ Len(form) \in Nat \ {0}
  <2>1. form \in {<<c>>, <<"\\", c>>, <<":">>}
    <3>1. form \in Forms(r, Literal(c))
      BY <1>1
    <3>2. CASE c = ":"
      BY <3>1, <3>2, LiteralForms
    <3>3. CASE c = "\\"
      <4>1. form = IF r = "echo" THEN <<c>> ELSE <<"\\", "\\">>
        BY <3>1, <3>3, LiteralForms
      <4>2. form = <<c>> \/ form = <<"\\", c>>
        BY <3>3, <4>1
      <4>3. QED
        BY <4>2
    <3>4. CASE c \notin {":", "\\"}
      <4>1. form = <<c>> \/ form = <<"\\", c>>
        BY <3>1, <3>4, LiteralForms
      <4>2. QED
        BY <4>1
    <3>5. QED
      BY <3>2, <3>3, <3>4
  <2>2. c \in Chars(r) /\ ":" \in Chars(r) /\ "\\" \in Chars(r)
    BY DEF Chars
  <2>3. \A d \in Chars(r) : <<d>> \in Seq(Chars(r)) /\ Len(<<d>>) = 1
    BY ShortSequences
  <2>4. <<"\\", c>> \in Seq(Chars(r)) /\ Len(<<"\\", c>>) = 2
    BY <2>2, ShortSequences
  <2>5. /\ <<c>> \in Seq(Chars(r)) /\ Len(<<c>>) = 1
        /\ <<":">> \in Seq(Chars(r)) /\ Len(<<":">>) = 1
    BY <2>2, <2>3
  <2>6. form = <<c>> \/ form = <<"\\", c>> \/ form = <<":">>
    BY <2>1
  <2>7. CASE form = <<c>>
    BY <2>5, <2>7
  <2>8. CASE form = <<"\\", c>>
    BY <2>4, <2>8
  <2>9. CASE form = <<":">>
    BY <2>5, <2>9
  <2>10. QED
    BY <2>6, <2>7, <2>8, <2>9
<1>2. ASSUME NEW t \in Texts(r), piece = Param(t) PROVE form \in Seq(Chars(r)) /\ Len(form) \in Nat \ {0}
  <2>1. t \in Seq(Chars(r))
    <3>1. t \in Seq(Letters(r)) /\ Letters(r) \subseteq Chars(r)
      BY TextShape, CharsType
    <3>2. QED
      BY <3>1
  <2>2. <<":">> \in Seq(Chars(r)) /\ <<"<">> \in Seq(Chars(r)) /\ <<">">> \in Seq(Chars(r))
    BY DEF Chars
  <2>3. <<":">> \o t \in Seq(Chars(r)) /\ Len(<<":">> \o t) = 1 + Len(t)
    BY <2>1, <2>2
  <2>4. CASE form = <<":">> \o t
    BY <2>1, <2>3, <2>4
  <2>5. ASSUME NEW w \in Constraints(r), form = Bracketed(t, w)
        PROVE  form \in Seq(Chars(r)) /\ Len(form) \in Nat \ {0}
    <3>1. w \in Seq(Alphabet[r]) /\ Alphabet[r] \subseteq Chars(r)
      BY ConstraintShape, CharsType
    <3>2. w \in Seq(Chars(r))
      BY <3>1
    <3>3. QED
      BY <2>1, <2>2, <2>3, <2>5, <3>2 DEF Bracketed
  <2>6. QED
    BY <1>2, <2>4, <2>5, ParamForms
<1>3. ASSUME NEW t, t = <<"*">> \/ (r = "gin" /\ t \in Texts(r)) \/ (\E c \in {"*", "+"} \cap Alphabet[r] : t = <<c>>),
             piece = CatchAll(t)
      PROVE  form \in Seq(Chars(r)) /\ Len(form) \in Nat \ {0}
  <2>1. form = IF r = "gin" THEN <<"*">> \o t ELSE <<Head(t)>>
    BY <1>3, RestForms
  <2>2. "*" \in Chars(r) /\ Alphabet[r] \subseteq Chars(r)
    BY DEF Chars
  <2>3. CASE t \in Texts(r)
    <3>1. t \in Seq(Chars(r)) /\ Len(t) \in Nat \ {0}
      <4>1. t \in Seq(Letters(r)) /\ Letters(r) \subseteq Chars(r) /\ Len(t) \in 1..MaxLength[r]
        BY <2>3, TextShape, CharsType
      <4>2. QED
        BY <4>1, LongestType
    <3>2. <<"*">> \in Seq(Chars(r))
      BY <2>2
    <3>3. Head(t) \in Chars(r)
      BY <3>1
    <3>4. QED
      BY <2>1, <3>1, <3>2, <3>3
  <2>4. ASSUME NEW c \in Chars(r), t = <<c>> PROVE form \in Seq(Chars(r)) /\ Len(form) \in Nat \ {0}
    <3>1. Head(<<c>>) = c
      OBVIOUS
    <3>2. <<c>> \in Seq(Chars(r)) /\ <<"*">> \in Seq(Chars(r)) /\ Len(<<c>>) = 1 /\ Len(<<"*">>) = 1
      BY <2>2, ShortSequences
    <3>3. <<"*">> \o <<c>> \in Seq(Chars(r)) /\ Len(<<"*">> \o <<c>>) = 2
      BY <3>2, ConcatProperties
    <3>4. QED
      BY <2>1, <2>4, <3>1, <3>2, <3>3
  <2>5. QED
    BY <1>3, <2>2, <2>3, <2>4
<1>4. CASE \E t : piece = CatchAll(t) /\ (t = <<"*">> \/ (r = "gin" /\ t \in Texts(r))
                                          \/ (\E c \in {"*", "+"} \cap Alphabet[r] : t = <<c>>))
  BY <1>3, <1>4
<1>5. CASE \E c \in Alphabet[r] : piece = Literal(c)
  BY <1>1, <1>5
<1>6. CASE \E t \in Texts(r) : piece = Param(t)
  BY <1>2, <1>6
<1>7. ~(\E c \in Alphabet[r] : piece = Literal(c)) /\ ~(\E t \in Texts(r) : piece = Param(t))
        => \E t : piece = CatchAll(t) /\ (t = <<"*">> \/ (r = "gin" /\ t \in Texts(r))
                                           \/ (\E c \in {"*", "+"} \cap Alphabet[r] : t = <<c>>))
  <2>1. CASE r = "gin"
    BY <2>1, PieceKinds
  <2>2. CASE r = "echo"
    BY <2>2, PieceKinds
  <2>3. CASE r = "fiber"
    BY <2>3, PieceKinds
  <2>4. QED
    BY <2>1, <2>2, <2>3, PathsAssumption
<1>8. QED
  BY <1>4, <1>5, <1>6, <1>7

(***************************************************************************)
(* Parses: a word of the grammar, taken apart from its beginning.          *)
(***************************************************************************)

LEMMA WordShape ==
    ASSUME NEW r \in Routers, NEW k \in 0..Longest(r), NEW e \in Grammar[r][k + 1]
    PROVE  /\ e = <<e[1], e[2]>>
           /\ e[2] \in Seq(Chars(r)) /\ Len(e[2]) = k
           /\ e[1] \in Seq(Pieces(r))
<1> DEFINE Good(c, d) == /\ d = <<d[1], d[2]>> /\ d[2] \in Seq(Chars(r)) /\ Len(d[2]) = c
                         /\ d[1] \in Seq(Pieces(r))
           bad == {c \in Nat : c <= Longest(r) /\ \E d \in Grammar[r][c + 1] : ~Good(c, d)}
<1>1. Longest(r) \in Nat
  BY LongestType
<1> SUFFICES ASSUME bad # {} PROVE FALSE
  BY <1>1
<1>2. PICK n \in bad : \A c \in bad : n <= c
  BY LeastNumber
<1>3. PICK d \in Grammar[r][n + 1] : ~Good(n, d)
  BY <1>2
<1>4. n # 0
  <2> SUFFICES ASSUME n = 0 PROVE FALSE
    OBVIOUS
  <2>1. d = <<<<>>, <<>>>>
    BY <1>3, LevelShape
  <2>2. Good(0, d)
    BY <2>1
  <2>3. QED
    BY <1>3, <2>2
<1>5. n \in 1..Longest(r)
  BY <1>1, <1>2, <1>4
<1>6. PICK piece \in Pieces(r) : \E form \in Forms(r, piece) : \E c \in 1..n : \E b \in Grammar[r][c] :
            /\ Len(form) + Len(b[2]) = n /\ Reads(r, piece, form, b[2])
            /\ d = <<<<piece>> \o b[1], form \o b[2]>>
  <2>1. d \in Grammar[r][n + 1]
    BY <1>3
  <2>2. Built(r, n, d)
    BY <1>5, <2>1, LevelMember
  <2>3. QED
    BY <2>2 DEF Built
<1>7. PICK form \in Forms(r, piece) : \E c \in 1..n : \E b \in Grammar[r][c] :
            /\ Len(form) + Len(b[2]) = n /\ Reads(r, piece, form, b[2])
            /\ d = <<<<piece>> \o b[1], form \o b[2]>>
  BY <1>6
<1>8. PICK c \in 1..n : \E b \in Grammar[r][c] :
            /\ Len(form) + Len(b[2]) = n /\ Reads(r, piece, form, b[2])
            /\ d = <<<<piece>> \o b[1], form \o b[2]>>
  BY <1>7
<1>9. PICK b \in Grammar[r][c] :
            /\ Len(form) + Len(b[2]) = n /\ Reads(r, piece, form, b[2])
            /\ d = <<<<piece>> \o b[1], form \o b[2]>>
  BY <1>8
<1>10. Good(c - 1, b)
  <2>1. c - 1 \in Nat /\ c - 1 < n /\ c - 1 <= Longest(r) /\ (c - 1) + 1 = c
    BY <1>1, <1>5
  <2> HIDE DEF Good
  <2>2. c - 1 \notin bad
    BY <1>2, <1>5, <2>1
  <2>3. QED
    BY <2>1, <2>2
<1>11. form \in Seq(Chars(r)) /\ Len(form) \in Nat
  BY FormShape
<1>12. <<piece>> \in Seq(Pieces(r)) /\ d[1] = <<piece>> \o b[1] /\ d[2] = form \o b[2] /\ d = <<d[1], d[2]>>
  BY <1>9, ShortSequences
<1>13. d[1] \in Seq(Pieces(r))
  BY <1>10, <1>12, ConcatProperties
<1>14. d[2] \in Seq(Chars(r)) /\ Len(d[2]) = n
  <2>1. b[2] \in Seq(Chars(r))
    BY <1>10
  <2>2. form \o b[2] \in Seq(Chars(r)) /\ Len(form \o b[2]) = Len(form) + Len(b[2])
    BY <1>11, <2>1, ConcatProperties
  <2>3. QED
    BY <1>9, <1>12, <2>2
<1>15. QED
  BY <1>3, <1>12, <1>13, <1>14

\* The grammar reads w as the document path ps.
Parse(r, ps, w) == <<ps, w>> \in Grammar[r][Len(w) + 1]

LEMMA ParseEmpty ==
    ASSUME NEW r \in Routers
    PROVE  Parse(r, <<>>, <<>>)
BY LevelShape DEF Parse

\* A spelling in front of a word makes a word.
LEMMA ParseMore ==
    ASSUME NEW r \in Routers, NEW piece \in Pieces(r), NEW form \in Forms(r, piece),
           NEW ps, NEW rest \in Seq(Chars(r)), Parse(r, ps, rest), Reads(r, piece, form, rest),
           Len(form) + Len(rest) <= Longest(r)
    PROVE  Parse(r, <<piece>> \o ps, form \o rest)
<1> DEFINE n == Len(form) + Len(rest)
           d == <<ps, rest>>
<1>1. form \in Seq(Chars(r)) /\ Len(form) \in Nat \ {0} /\ Len(rest) \in Nat /\ Longest(r) \in Nat
  BY FormShape, LongestType
<1>2. n \in 1..Longest(r) /\ Len(rest) + 1 \in 1..n /\ Len(form \o rest) = n
  BY <1>1, ConcatProperties
<1>3. d \in Grammar[r][Len(rest) + 1] /\ d[1] = ps /\ d[2] = rest
  BY DEF Parse
<1> HIDE DEF d, n
<1>4. Len(form) + Len(d[2]) = n /\ Reads(r, piece, form, d[2])
  BY <1>3 DEF n
<1>5. <<<<piece>> \o d[1], form \o d[2]>> \in Grammar[r][n + 1]
  <2> DEFINE e == <<<<piece>> \o d[1], form \o d[2]>>
  <2>1. Built(r, n, e)
    BY <1>2, <1>3, <1>4 DEF Built
  <2>2. QED
    BY <1>2, <2>1, LevelMember
<1>6. QED
  BY <1>2, <1>3, <1>5 DEF Parse

\* The word begins with a spelling of the first piece of the document path.
Split(r, ps, w) ==
    \E piece \in Pieces(r) : \E form \in Forms(r, piece) : \E rest \in Seq(Chars(r)) : \E qs :
        /\ Parse(r, qs, rest) /\ Reads(r, piece, form, rest)
        /\ w = form \o rest /\ ps = <<piece>> \o qs

LEMMA ParseFirst ==
    ASSUME NEW r \in Routers, NEW w \in Seq(Chars(r)), Len(w) <= Longest(r), Len(w) > 0,
           NEW ps, Parse(r, ps, w)
    PROVE  Split(r, ps, w)
<1> DEFINE n == Len(w)
           e == <<ps, w>>
<1>1. n \in 1..Longest(r) /\ n \in Nat
  BY LongestType
<1>2. e \in Grammar[r][n + 1] /\ e[1] = ps /\ e[2] = w
  BY DEF Parse
<1> HIDE DEF n, e
<1>3. PICK piece \in Pieces(r) : \E form \in Forms(r, piece) : \E c \in 1..n : \E b \in Grammar[r][c] :
            /\ Len(form) + Len(b[2]) = n /\ Reads(r, piece, form, b[2])
            /\ e = <<<<piece>> \o b[1], form \o b[2]>>
  <2>1. Built(r, n, e)
    BY <1>1, <1>2, LevelMember
  <2>2. QED
    BY <2>1 DEF Built
<1>4. PICK form \in Forms(r, piece) : \E c \in 1..n : \E b \in Grammar[r][c] :
            /\ Len(form) + Len(b[2]) = n /\ Reads(r, piece, form, b[2])
            /\ e = <<<<piece>> \o b[1], form \o b[2]>>
  BY <1>3
<1>5. PICK c \in 1..n : \E b \in Grammar[r][c] :
            /\ Len(form) + Len(b[2]) = n /\ Reads(r, piece, form, b[2])
            /\ e = <<<<piece>> \o b[1], form \o b[2]>>
  BY <1>4
<1>6. PICK b \in Grammar[r][c] :
            /\ Len(form) + Len(b[2]) = n /\ Reads(r, piece, form, b[2])
            /\ e = <<<<piece>> \o b[1], form \o b[2]>>
  BY <1>5
<1>7. c - 1 \in 0..Longest(r) /\ (c - 1) + 1 = c
  BY <1>1, LongestType
<1>8. b = <<b[1], b[2]>> /\ b[2] \in Seq(Chars(r)) /\ Len(b[2]) = c - 1
  BY <1>7, WordShape
<1>9. Parse(r, b[1], b[2])
  BY <1>6, <1>7, <1>8 DEF Parse
<1>10. ps = <<piece>> \o b[1] /\ w = form \o b[2]
  BY <1>2, <1>6
<1>11. QED
  BY <1>6, <1>8, <1>9, <1>10 DEF Split

(***************************************************************************)
(* Tokens: the spelling of a piece at a position of a word.                *)
(***************************************************************************)

From(w, k) == SubSeq(w, k, Len(w))
Part(w, k, n) == SubSeq(w, k, n - 1)
Spells(w, k, n, s) == Part(w, k, n) = s

Token(r, w, k, piece, n) ==
    /\ n \in (k + 1)..(Len(w) + 1) /\ piece \in Pieces(r)
    /\ Part(w, k, n) \in Forms(r, piece)
    /\ Reads(r, piece, Part(w, k, n), From(w, n))

LEMMA FromShape ==
    ASSUME NEW T, NEW w \in Seq(T), NEW k \in 1..(Len(w) + 1)
    PROVE  /\ Len(w) \in Nat /\ From(w, k) \in Seq(T) /\ Len(From(w, k)) = Len(w) + 1 - k
           /\ \A j \in 1..(Len(w) + 1 - k) : From(w, k)[j] = w[k + j - 1]
           /\ k > Len(w) => From(w, k) = <<>>
           /\ k = 1 => From(w, k) = w
<1>1. Len(w) \in Nat /\ \A j \in k..Len(w) : w[j] \in T
  OBVIOUS
<1>2. /\ From(w, k) \in Seq(T) /\ Len(From(w, k)) = IF k <= Len(w) THEN Len(w) - k + 1 ELSE 0
      /\ \A j \in 1..(Len(w) - k + 1) : From(w, k)[j] = w[k + j - 1]
  BY <1>1, SubSeqProperties DEF From
<1>3. k > Len(w) => From(w, k) = <<>>
  BY <1>1, SubSeqEmpty DEF From
<1>4. k = 1 => From(w, k) = w
  BY SubSeqFull DEF From
<1>5. QED
  BY <1>1, <1>2, <1>3, <1>4

LEMMA PartShape ==
    ASSUME NEW T, NEW w \in Seq(T), NEW k \in 1..(Len(w) + 1), NEW n \in k..(Len(w) + 1)
    PROVE  /\ Part(w, k, n) \in Seq(T) /\ Len(Part(w, k, n)) = n - k
           /\ \A j \in 1..(n - k) : Part(w, k, n)[j] = w[k + j - 1]
<1>1. Len(w) \in Nat /\ k \in Int /\ n - 1 \in Int /\ \A j \in k..(n - 1) : w[j] \in T
  OBVIOUS
<1>2. /\ Part(w, k, n) \in Seq(T)
      /\ Len(Part(w, k, n)) = IF k <= n - 1 THEN (n - 1) - k + 1 ELSE 0
      /\ \A j \in 1..((n - 1) - k + 1) : Part(w, k, n)[j] = w[k + j - 1]
  BY <1>1, SubSeqProperties DEF Part
<1>3. QED
  BY <1>1, <1>2

LEMMA EmptyPart ==
    ASSUME NEW w, NEW k \in Int
    PROVE  Part(w, k, k) = <<>>
<1>1. k - 1 \in Int /\ k - 1 < k
  OBVIOUS
<1>2. QED
  BY <1>1, SubSeqEmpty DEF Part

\* What follows a token is read after it.
LEMMA CharAfter ==
    ASSUME NEW T, NEW w \in Seq(T), NEW n \in 1..(Len(w) + 1), NEW j \in Nat \ {0}
    PROVE  CharAt(From(w, n), j) = CharAt(w, n + j - 1)
<1>1. Len(w) \in Nat /\ DOMAIN w = 1..Len(w)
  OBVIOUS
<1>2. From(w, n) \in Seq(T) /\ Len(From(w, n)) = Len(w) + 1 - n
      /\ \A l \in 1..(Len(w) + 1 - n) : From(w, n)[l] = w[n + l - 1]
  BY FromShape
<1>3. DOMAIN From(w, n) = 1..(Len(w) + 1 - n)
  BY <1>2
<1>4. j \in DOMAIN From(w, n) <=> n + j - 1 \in DOMAIN w
  BY <1>1, <1>3
<1>5. QED
  BY <1>2, <1>3, <1>4 DEF CharAt

LEMMA TokenMore ==
    ASSUME NEW r \in Routers, NEW w \in Seq(Chars(r)), Len(w) <= Longest(r),
           NEW k \in 1..Len(w), NEW piece, NEW n, Token(r, w, k, piece, n),
           NEW ps, Parse(r, ps, From(w, n))
    PROVE  Parse(r, <<piece>> \o ps, From(w, k))
<1> DEFINE form == Part(w, k, n)
           rest == From(w, n)
<1>1. Len(w) \in Nat /\ k \in Nat /\ n \in Nat /\ k < n /\ n <= Len(w) + 1 /\ Longest(r) \in Nat
  BY LongestType DEF Token
<1>2. piece \in Pieces(r) /\ form \in Forms(r, piece) /\ Reads(r, piece, form, rest)
  BY DEF Token
<1>3. rest \in Seq(Chars(r)) /\ Len(rest) = Len(w) + 1 - n
  BY <1>1, FromShape
<1>4. Len(form) = n - k
  BY <1>1, PartShape DEF Part
<1>5. form \o rest = From(w, k)
  <2>1. k \in 1..(Len(w) + 1) /\ n - 1 \in (k - 1)..Len(w) /\ Len(w) \in (n - 1)..Len(w) /\ (n - 1) + 1 = n
    BY <1>1
  <2>2. Part(w, k, n) \o SubSeq(w, (n - 1) + 1, Len(w)) = SubSeq(w, k, Len(w))
    BY <2>1, ConcatAdjacentSubSeq DEF Part
  <2>3. QED
    BY <2>1, <2>2 DEF From
<1> HIDE DEF form
<1>6. Len(form) + Len(rest) <= Longest(r)
  BY <1>1, <1>3, <1>4
<1>7. QED
  BY <1>2, <1>3, <1>5, <1>6, ParseMore

LEMMA TokenFirst ==
    ASSUME NEW r \in Routers, NEW w \in Seq(Chars(r)), Len(w) <= Longest(r),
           NEW k \in 1..Len(w), NEW ps, Parse(r, ps, From(w, k))
    PROVE  \E piece, n : Token(r, w, k, piece, n) /\ \E qs : Parse(r, qs, From(w, n))
<1>1. Len(w) \in Nat /\ k \in Nat /\ Longest(r) \in Nat
  BY LongestType
<1>2. /\ From(w, k) \in Seq(Chars(r)) /\ Len(From(w, k)) = Len(w) + 1 - k
      /\ \A j \in 1..(Len(w) + 1 - k) : From(w, k)[j] = w[k + j - 1]
  BY <1>1, FromShape
<1>3. PICK piece \in Pieces(r) : \E form \in Forms(r, piece) : \E rest \in Seq(Chars(r)) : \E qs :
            /\ Parse(r, qs, rest) /\ Reads(r, piece, form, rest)
            /\ From(w, k) = form \o rest /\ ps = <<piece>> \o qs
  <2>1. Len(From(w, k)) <= Longest(r) /\ Len(From(w, k)) > 0
    BY <1>1, <1>2
  <2>2. Split(r, ps, From(w, k))
    BY <1>2, <2>1, ParseFirst
  <2>3. QED
    BY <2>2 DEF Split
<1>4. PICK form \in Forms(r, piece) : \E rest \in Seq(Chars(r)) : \E qs :
            /\ Parse(r, qs, rest) /\ Reads(r, piece, form, rest)
            /\ From(w, k) = form \o rest /\ ps = <<piece>> \o qs
  BY <1>3
<1>5. PICK rest \in Seq(Chars(r)) : \E qs :
            /\ Parse(r, qs, rest) /\ Reads(r, piece, form, rest)
            /\ From(w, k) = form \o rest /\ ps = <<piece>> \o qs
  BY <1>4
<1>6. PICK qs : /\ Parse(r, qs, rest) /\ Reads(r, piece, form, rest)
                /\ From(w, k) = form \o rest /\ ps = <<piece>> \o qs
  BY <1>5
<1>7. form \in Seq(Chars(r)) /\ Len(form) \in Nat \ {0} /\ Len(rest) \in Nat
  BY FormShape
<1>8. /\ Len(form) + Len(rest) = Len(w) + 1 - k
      /\ \A j \in 1..Len(form) : form[j] = w[k + j - 1]
      /\ \A j \in 1..Len(rest) : rest[j] = w[k + Len(form) + j - 1]
  <2>1. /\ Len(form \o rest) = Len(form) + Len(rest)
        /\ \A j \in 1..(Len(form) + Len(rest)) :
             (form \o rest)[j] = IF j <= Len(form) THEN form[j] ELSE rest[j - Len(form)]
    BY <1>7, ConcatProperties
  <2>2. Len(form) + Len(rest) = Len(w) + 1 - k
    BY <1>2, <1>6, <2>1
  <2>3. \A j \in 1..(Len(form) + Len(rest)) :
            w[k + j - 1] = IF j <= Len(form) THEN form[j] ELSE rest[j - Len(form)]
    BY <1>2, <1>6, <2>1, <2>2
  <2>4. ASSUME NEW j \in 1..Len(form) PROVE form[j] = w[k + j - 1]
    BY <1>7, <2>3, j \in 1..(Len(form) + Len(rest))
  <2>5. ASSUME NEW j \in 1..Len(rest) PROVE rest[j] = w[k + Len(form) + j - 1]
    <3>1. /\ Len(form) + j \in 1..(Len(form) + Len(rest)) /\ ~(Len(form) + j <= Len(form))
          /\ (Len(form) + j) - Len(form) = j /\ k + (Len(form) + j) - 1 = k + Len(form) + j - 1
      BY <1>1, <1>7
    <3>2. QED
      BY <2>3, <3>1
  <2>6. QED
    BY <2>2, <2>4, <2>5
<1> DEFINE n == k + Len(form)
<1>9. n \in (k + 1)..(Len(w) + 1) /\ n \in Nat
  BY <1>1, <1>7, <1>8
<1>10. Part(w, k, n) = form
  <2>1. /\ Part(w, k, n) \in Seq(Chars(r)) /\ Len(Part(w, k, n)) = Len(form)
        /\ \A j \in 1..Len(form) : Part(w, k, n)[j] = w[k + j - 1]
    <3>1. k \in 1..(Len(w) + 1) /\ n \in k..(Len(w) + 1) /\ n - k = Len(form)
      BY <1>1, <1>7, <1>9
    <3> HIDE DEF n
    <3>2. QED
      BY <3>1, PartShape DEF Part
  <2>2. QED
    BY <1>7, <1>8, <2>1, SeqEqual
<1>11. From(w, n) = rest
  <2>1. /\ From(w, n) \in Seq(Chars(r)) /\ Len(From(w, n)) = Len(rest)
        /\ \A j \in 1..Len(rest) : From(w, n)[j] = w[n + j - 1]
    <3>1. n \in 1..(Len(w) + 1) /\ Len(w) + 1 - n = Len(rest)
      BY <1>1, <1>7, <1>8, <1>9
    <3> HIDE DEF n
    <3>2. QED
      BY <3>1, FromShape
  <2>2. QED
    BY <1>7, <1>8, <2>1, SeqEqual
<1> HIDE DEF n
<1>12. Token(r, w, k, piece, n)
  BY <1>6, <1>9, <1>10, <1>11 DEF Token
<1>13. QED
  BY <1>6, <1>11, <1>12

(***************************************************************************)
(* The spellings at a position, character by character.                    *)
(***************************************************************************)

LEMMA OneCharacter ==
    ASSUME NEW T, NEW w \in Seq(T), NEW k \in 1..Len(w), NEW n \in (k + 1)..(Len(w) + 1), NEW c
    PROVE  Spells(w, k, n, <<c>>) <=> n = k + 1 /\ w[k] = c
<1> DEFINE s == Part(w, k, n)
<1>1. Len(w) \in Nat /\ s \in Seq(T) /\ Len(s) = n - k /\ \A j \in 1..(n - k) : s[j] = w[k + j - 1]
  BY PartShape DEF Part
<1>2. s[1] = w[k]
  BY <1>1
<1> HIDE DEF s
<1>3. ASSUME s = <<c>> PROVE n = k + 1 /\ w[k] = c
  BY <1>1, <1>2, <1>3
<1>4. ASSUME n = k + 1, w[k] = c PROVE s = <<c>>
  <2>1. c \in T /\ <<c>> \in Seq(T) /\ Len(<<c>>) = 1
    BY <1>4
  <2>2. Len(s) = 1 /\ s[1] = c
    BY <1>1, <1>2, <1>4
  <2>3. QED
    BY <1>1, <2>1, <2>2, SeqEqual
<1>5. QED
  BY <1>3, <1>4 DEF s, Spells

LEMMA TwoCharacters ==
    ASSUME NEW T, NEW w \in Seq(T), NEW k \in 1..Len(w), NEW n \in (k + 1)..(Len(w) + 1), NEW c, NEW d
    PROVE  Spells(w, k, n, <<c, d>>) <=> n = k + 2 /\ w[k] = c /\ w[k + 1] = d
<1> DEFINE s == Part(w, k, n)
<1>1. Len(w) \in Nat /\ s \in Seq(T) /\ Len(s) = n - k /\ \A j \in 1..(n - k) : s[j] = w[k + j - 1]
  BY PartShape DEF Part
<1>2. s[1] = w[k] /\ (n >= k + 2 => s[2] = w[k + 1])
  <2>1. 1 \in 1..(n - k) /\ (n >= k + 2 => 2 \in 1..(n - k)) /\ k + 1 - 1 = k /\ k + 2 - 1 = k + 1
    BY <1>1
  <2> HIDE DEF s
  <2>2. QED
    BY <1>1, <2>1
<1> HIDE DEF s
<1>3. ASSUME s = <<c, d>> PROVE n = k + 2 /\ w[k] = c /\ w[k + 1] = d
  <2>1. Len(<<c, d>>) = 2 /\ <<c, d>>[1] = c /\ <<c, d>>[2] = d
    OBVIOUS
  <2>2. n = k + 2
    BY <1>1, <1>3, <2>1
  <2>3. QED
    BY <1>2, <1>3, <2>1, <2>2
<1>4. ASSUME n = k + 2, w[k] = c, w[k + 1] = d PROVE s = <<c, d>>
  <2>1. k + 1 \in 1..Len(w)
    BY <1>1, <1>4
  <2>2. c \in T /\ d \in T
    BY <1>4, <2>1
  <2>3. <<c, d>> \in Seq(T) /\ Len(<<c, d>>) = 2 /\ <<c, d>>[1] = c /\ <<c, d>>[2] = d
    BY <2>2
  <2>4. Len(s) = 2 /\ s[1] = c /\ s[2] = d
    BY <1>1, <1>2, <1>4
  <2>5. QED
    BY <1>1, <2>3, <2>4, SeqEqual
<1>5. QED
  BY <1>3, <1>4 DEF s, Spells

\* A character and a text.
LEMMA NamedText ==
    ASSUME NEW T, NEW w \in Seq(T), NEW k \in 1..Len(w), NEW n \in (k + 1)..(Len(w) + 1), NEW c,
           NEW S, NEW t \in Seq(S)
    PROVE  Spells(w, k, n, <<c>> \o t) <=> w[k] = c /\ Spells(w, k + 1, n, t)
<1> DEFINE s == Part(w, k, n)
           u == Part(w, k + 1, n)
           B == T \cup S \cup {c}
<1>1. /\ Len(w) \in Nat /\ s \in Seq(T) /\ Len(s) = n - k /\ \A j \in 1..(n - k) : s[j] = w[k + j - 1]
  BY PartShape DEF Part
<1>2. /\ u \in Seq(T) /\ Len(u) = n - (k + 1) /\ \A j \in 1..(n - (k + 1)) : u[j] = w[(k + 1) + j - 1]
  <2>1. k + 1 \in 1..(Len(w) + 1) /\ n \in (k + 1)..(Len(w) + 1)
    BY <1>1
  <2>2. QED
    BY <2>1, PartShape DEF Part
<1>3. <<c>> \in Seq(B) /\ t \in Seq(B) /\ u \in Seq(B) /\ s \in Seq(B)
  BY <1>1, <1>2
<1> HIDE DEF B
<1>4. ASSUME NEW v \in Seq(B)
      PROVE  /\ Len(<<c>> \o v) = 1 + Len(v) /\ (<<c>> \o v)[1] = c /\ <<c>> \o v \in Seq(B)
             /\ \A j \in 1..Len(v) : (<<c>> \o v)[j + 1] = v[j]
  <2>1. Len(<<c>>) = 1 /\ <<c>>[1] = c /\ Len(v) \in Nat
    OBVIOUS
  <2>2. /\ <<c>> \o v \in Seq(B) /\ Len(<<c>> \o v) = Len(<<c>>) + Len(v)
        /\ \A j \in 1..(Len(<<c>>) + Len(v)) :
             (<<c>> \o v)[j] = IF j <= Len(<<c>>) THEN <<c>>[j] ELSE v[j - Len(<<c>>)]
    BY <1>3, ConcatProperties
  <2>3. QED
    BY <2>1, <2>2
<1> HIDE DEF s, u
<1>5. ASSUME s = <<c>> \o t PROVE w[k] = c /\ u = t
  <2>1. Len(t) = Len(u) /\ s[1] = c
    BY <1>1, <1>2, <1>3, <1>4, <1>5
  <2>2. ASSUME NEW j \in 1..Len(u) PROVE u[j] = t[j]
    <3>1. t[j] = s[j + 1]
      BY <1>3, <1>4, <1>5, <2>1
    <3>2. j + 1 \in 1..(n - k) /\ k + (j + 1) - 1 = (k + 1) + j - 1 /\ j \in 1..(n - (k + 1))
      BY <1>1, <1>2
    <3>3. QED
      BY <1>1, <1>2, <3>1, <3>2
  <2>3. u = t
    BY <1>3, <2>1, <2>2, SeqEqual
  <2>4. w[k] = c
    BY <1>1, <2>1
  <2>5. QED
    BY <2>3, <2>4
<1>6. ASSUME w[k] = c, u = t PROVE s = <<c>> \o t
  <2>1. Len(<<c>> \o t) = Len(s) /\ <<c>> \o t \in Seq(B)
    BY <1>1, <1>2, <1>3, <1>4, <1>6
  <2>2. ASSUME NEW j \in 1..Len(s) PROVE s[j] = (<<c>> \o t)[j]
    <3>1. CASE j = 1
      BY <1>1, <1>3, <1>4, <1>6, <3>1
    <3>2. CASE j > 1
      <4>1. j - 1 \in 1..Len(u) /\ (j - 1) + 1 = j /\ (k + 1) + (j - 1) - 1 = k + j - 1 /\ j \in 1..(n - k)
        BY <1>1, <1>2, <3>2
      <4>2. (<<c>> \o t)[(j - 1) + 1] = t[j - 1]
        <5>1. j - 1 \in 1..Len(t)
          BY <1>6, <4>1
        <5>2. \A l \in 1..Len(t) : (<<c>> \o t)[l + 1] = t[l]
          BY <1>3, <1>4
        <5>3. QED
          BY <5>1, <5>2
      <4>3. QED
        BY <1>1, <1>2, <1>6, <4>1, <4>2
    <3>3. j = 1 \/ j > 1
      OBVIOUS
    <3>4. QED
      BY <3>1, <3>2, <3>3
  <2>3. QED
    BY <1>3, <2>1, <2>2, SeqEqual
<1>7. QED
  BY <1>5, <1>6 DEF s, u, Spells

(***************************************************************************)
(* What the scanners look for.                                             *)
(***************************************************************************)

\* n is the first position from k on of a character in C, or the one after the end.
Bounds(p, k, C, n) ==
    /\ n \in k..(Len(p) + 1) /\ (n = Len(p) + 1 \/ p[n] \in C)
    /\ \A j \in k..(n - 1) : p[j] \notin C

LEMMA FirstOfBounds ==
    ASSUME NEW p, Len(p) \in Nat, NEW k \in 1..(Len(p) + 1), NEW C
    PROVE  /\ Bounds(p, k, C, FirstOf(p, k, C))
           /\ \A n : Bounds(p, k, C, n) => n = FirstOf(p, k, C)
<1> DEFINE stops == {n \in k..(Len(p) + 1) : n = Len(p) + 1 \/ p[n] \in C}
<1>1. stops \in SUBSET Nat /\ Len(p) + 1 \in stops
  OBVIOUS
<1>2. PICK m \in stops : \A n \in stops : m <= n
  BY <1>1, LeastNumber
<1>3. Bounds(p, k, C, m)
  <2>1. ASSUME NEW j \in k..(m - 1) PROVE p[j] \notin C
    BY <1>2
  <2>2. QED
    BY <1>2, <2>1 DEF Bounds
<1>4. ASSUME NEW n, NEW o, Bounds(p, k, C, n), Bounds(p, k, C, o) PROVE n = o
  <2>1. ~(n < o) /\ ~(o < n) /\ n \in Int /\ o \in Int
    BY <1>4 DEF Bounds
  <2>2. QED
    BY <2>1
<1>5. \E n \in k..(Len(p) + 1) : (n = Len(p) + 1 \/ p[n] \in C) /\ \A j \in k..(n - 1) : p[j] \notin C
  BY <1>3 DEF Bounds
<1>6. Bounds(p, k, C, FirstOf(p, k, C))
  BY <1>5 DEF Bounds, FirstOf
<1>7. QED
  BY <1>4, <1>6

LEMMA CharIn ==
    ASSUME NEW T, End \notin T, NEW w \in Seq(T), NEW j \in Nat \ {0}
    PROVE  /\ j <= Len(w) => CharAt(w, j) = w[j] /\ w[j] \in T /\ w[j] # End
           /\ j > Len(w) => CharAt(w, j) = End
           /\ DOMAIN w = 1..Len(w) /\ Len(w) \in Nat
<1>1. DOMAIN w = 1..Len(w) /\ Len(w) \in Nat
  OBVIOUS
<1>2. QED
  BY <1>1 DEF CharAt

\* A text is a part of a path that holds letters only.
LEMMA TextPart ==
    ASSUME NEW r \in Routers, NEW w \in Seq(Alphabet[r]), Len(w) <= Longest(r),
           NEW k \in 2..(Len(w) + 1), NEW n \in k..(Len(w) + 1)
    PROVE  Part(w, k, n) \in Texts(r) <=> n > k /\ \A j \in k..(n - 1) : w[j] \in Letters(r)
<1> DEFINE s == Part(w, k, n)
<1>1. Len(w) \in Nat /\ Longest(r) \in Nat /\ MaxLength[r] \in Nat /\ Longest(r) <= MaxLength[r] + 1
  BY LongestType
<1>2. s \in Seq(Alphabet[r]) /\ Len(s) = n - k /\ \A j \in 1..(n - k) : s[j] = w[k + j - 1]
  <2>1. k \in 1..(Len(w) + 1)
    BY <1>1
  <2>2. QED
    BY <2>1, PartShape DEF Part
<1> HIDE DEF s
<1>3. ASSUME s \in Texts(r) PROVE n > k /\ \A j \in k..(n - 1) : w[j] \in Letters(r)
  <2>1. s \in Seq(Letters(r)) /\ Len(s) \in 1..MaxLength[r]
    BY <1>3, TextShape
  <2>2. n > k
    BY <1>1, <1>2, <2>1
  <2>3. ASSUME NEW j \in k..(n - 1) PROVE w[j] \in Letters(r)
    <3>1. j - k + 1 \in 1..(n - k) /\ k + (j - k + 1) - 1 = j
      BY <1>1
    <3>2. s[j - k + 1] \in Letters(r)
      BY <1>2, <2>1, <3>1
    <3>3. QED
      BY <1>2, <3>1, <3>2
  <2>4. QED
    BY <2>2, <2>3
<1>4. ASSUME n > k, \A j \in k..(n - 1) : w[j] \in Letters(r) PROVE s \in Texts(r)
  <2>1. \A j \in 1..(n - k) : s[j] \in Letters(r)
    <3> TAKE j \in 1..(n - k)
    <3>1. k + j - 1 \in k..(n - 1)
      BY <1>1
    <3>2. QED
      BY <1>2, <1>4, <3>1
  <2>2. s \in Seq(Letters(r))
    BY <1>2, <2>1
  <2>3. Len(s) \in 1..MaxLength[r]
    BY <1>1, <1>2, <1>4
  <2>4. QED
    BY <2>2, <2>3, TextShape
<1>5. QED
  BY <1>3, <1>4 DEF s

\* A part of a word put together from two.
LEMMA TwoParts ==
    ASSUME NEW T, NEW w \in Seq(T), NEW k \in 1..(Len(w) + 1), NEW n \in k..(Len(w) + 1),
           NEW S, NEW s \in Seq(S), NEW t \in Seq(S)
    PROVE  Spells(w, k, n, s \o t) <=> \E m \in k..n : Spells(w, k, m, s) /\ Spells(w, m, n, t)
<1>1. Len(w) \in Nat /\ k \in Nat /\ n \in Nat
  OBVIOUS
<1>2. ASSUME NEW m \in k..n, Part(w, k, m) = s, Part(w, m, n) = t
      PROVE  Part(w, k, n) = s \o t
  <2>1. m - 1 \in (k - 1)..Len(w) /\ n - 1 \in (m - 1)..Len(w) /\ (m - 1) + 1 = m
    BY <1>1
  <2>2. Part(w, k, m) \o Part(w, (m - 1) + 1, n) = Part(w, k, n)
    BY <2>1, ConcatAdjacentSubSeq DEF Part
  <2>3. QED
    BY <1>2, <2>1, <2>2
<1>3. ASSUME Part(w, k, n) = s \o t
      PROVE  \E m \in k..n : Part(w, k, m) = s /\ Part(w, m, n) = t
  <2> DEFINE m == k + Len(s)
             u == Part(w, k, n)
  <2>1. u \in Seq(T) /\ Len(u) = n - k /\ \A j \in 1..(n - k) : u[j] = w[k + j - 1]
    BY PartShape DEF Part
  <2>2. /\ Len(s) \in Nat /\ Len(t) \in Nat /\ Len(s \o t) = Len(s) + Len(t)
        /\ \A j \in 1..(Len(s) + Len(t)) : (s \o t)[j] = IF j <= Len(s) THEN s[j] ELSE t[j - Len(s)]
    BY ConcatProperties
  <2>3. u = s \o t
    BY <1>3
  <2> HIDE DEF u
  <2>4. n - k = Len(s) + Len(t)
    BY <2>1, <2>2, <2>3
  <2>5. m \in k..n /\ m - k = Len(s) /\ n - m = Len(t)
    BY <1>1, <2>2, <2>4
  <2>6. /\ Part(w, k, m) \in Seq(T) /\ Len(Part(w, k, m)) = Len(s)
        /\ \A j \in 1..Len(s) : Part(w, k, m)[j] = w[k + j - 1]
    <3>1. m \in k..(Len(w) + 1)
      BY <1>1, <2>5
    <3> HIDE DEF m
    <3>2. /\ Part(w, k, m) \in Seq(T) /\ Len(Part(w, k, m)) = m - k
          /\ \A j \in 1..(m - k) : Part(w, k, m)[j] = w[k + j - 1]
      BY <3>1, PartShape
    <3>3. QED
      BY <2>5, <3>2
  <2>7. /\ Part(w, m, n) \in Seq(T) /\ Len(Part(w, m, n)) = Len(t)
        /\ \A j \in 1..Len(t) : Part(w, m, n)[j] = w[m + j - 1]
    <3>1. m \in 1..(Len(w) + 1) /\ n \in m..(Len(w) + 1)
      BY <1>1, <2>5
    <3> HIDE DEF m
    <3>2. /\ Part(w, m, n) \in Seq(T) /\ Len(Part(w, m, n)) = n - m
          /\ \A j \in 1..(n - m) : Part(w, m, n)[j] = w[m + j - 1]
      BY <3>1, PartShape
    <3>3. QED
      BY <2>5, <3>2
  <2>8. ASSUME NEW j \in 1..Len(s) PROVE w[k + j - 1] = s[j]
    <3>1. j \in 1..(Len(s) + Len(t)) /\ j <= Len(s) /\ j \in 1..(n - k)
      BY <2>2, <2>4
    <3>2. QED
      BY <2>1, <2>2, <2>3, <3>1
  <2>9. ASSUME NEW j \in 1..Len(t) PROVE w[m + j - 1] = t[j]
    <3>1. /\ Len(s) + j \in 1..(Len(s) + Len(t)) /\ ~(Len(s) + j <= Len(s)) /\ (Len(s) + j) - Len(s) = j
          /\ Len(s) + j \in 1..(n - k) /\ k + (Len(s) + j) - 1 = m + j - 1
      BY <1>1, <2>2, <2>4
    <3>2. (s \o t)[Len(s) + j] = t[j]
      BY <2>2, <3>1
    <3>3. QED
      BY <2>1, <2>3, <3>1, <3>2
  <2> HIDE DEF m
  <2>10. Part(w, k, m) = s
    <3>1. s \in Seq(T \cup S) /\ Part(w, k, m) \in Seq(T \cup S)
      BY <2>6
    <3>2. QED
      BY <2>6, <2>8, <3>1, SeqEqual
  <2>11. Part(w, m, n) = t
    <3>1. t \in Seq(T \cup S) /\ Part(w, m, n) \in Seq(T \cup S)
      BY <2>7
    <3>2. QED
      BY <2>7, <2>9, <3>1, SeqEqual
  <2>12. QED
    BY <2>5, <2>10, <2>11
<1>4. QED
  BY <1>2, <1>3 DEF Spells

(***************************************************************************)
(* The tokens of each kind.                                                *)
(***************************************************************************)

LiteralAt(r, w, k, c, n) ==
    /\ c \notin Braces
    /\ \/ /\ n = k + 1 /\ w[k] = c
          /\ c = ":" => r = "fiber" /\ CharAt(w, n) = ":"
          /\ c = "\\" => r = "echo" /\ CharAt(w, n) # ":"
          /\ c # "*" /\ ~(c = "+" /\ r = "fiber")
       \/ /\ n = k + 2 /\ w[k] = "\\" /\ CharAt(w, k + 1) = c
          /\ c = ":" \/ r = "fiber"

LEMMA LiteralToken ==
    ASSUME NEW r \in Routers, NEW w \in Seq(Alphabet[r]), NEW k \in 1..Len(w), NEW c \in Alphabet[r], NEW n
    PROVE  Token(r, w, k, Literal(c), n) <=> LiteralAt(r, w, k, c, n)
<1>1. Len(w) \in Nat /\ End \notin Alphabet[r] /\ r \in {"gin", "echo", "fiber"}
  BY PathsAssumption
<1>2. ":" # "\\" /\ ":" # "*" /\ ":" # "+" /\ "\\" # "*" /\ "\\" # "+" /\ ":" \notin Braces /\ "\\" \notin Braces
      /\ "*" \notin Braces /\ "+" \notin Braces
  BY BracesApart
<1>3. Literal(c) \in Pieces(r)
  BY PieceKinds
<1>4. ASSUME NEW m \in (k + 1)..(Len(w) + 1)
      PROVE  /\ Spells(w, k, m, <<c>>) <=> m = k + 1 /\ w[k] = c
             /\ Spells(w, k, m, <<"\\">>) <=> m = k + 1 /\ w[k] = "\\"
             /\ Spells(w, k, m, <<":">>) <=> m = k + 1 /\ w[k] = ":"
             /\ Spells(w, k, m, <<"\\", c>>) <=> m = k + 2 /\ w[k] = "\\" /\ w[k + 1] = c
             /\ Spells(w, k, m, <<"\\", ":">>) <=> m = k + 2 /\ w[k] = "\\" /\ w[k + 1] = ":"
             /\ Spells(w, k, m, <<"\\", "\\">>) <=> m = k + 2 /\ w[k] = "\\" /\ w[k + 1] = "\\"
             /\ CharAt(From(w, m), 1) = CharAt(w, m)
  <2>1. m \in 1..(Len(w) + 1) /\ m + 1 - 1 = m
    BY <1>1
  <2>2. CharAt(From(w, m), 1) = CharAt(w, m)
    BY <2>1, CharAfter
  <2>3. QED
    BY <2>2, OneCharacter, TwoCharacters
<1>5. k + 1 \in (k + 1)..(Len(w) + 1) /\ (k + 2 \in (k + 1)..(Len(w) + 1) <=> k + 1 <= Len(w))
  BY <1>1
<1>6. /\ k + 1 <= Len(w) => CharAt(w, k + 1) = w[k + 1]
      /\ CharAt(w, k + 1) = c => k + 1 <= Len(w)
  BY <1>1, CharIn
<1> DEFINE form == Part(w, k, n)
<1>7. ASSUME Token(r, w, k, Literal(c), n) PROVE LiteralAt(r, w, k, c, n)
  <2>1. n \in (k + 1)..(Len(w) + 1) /\ form \in Forms(r, Literal(c)) /\ Reads(r, Literal(c), form, From(w, n))
    BY <1>7 DEF Token
  <2> HIDE DEF form
  <2>2. /\ c \notin Braces
        /\ c = ":" => form = <<"\\", ":">> \/ (r = "fiber" /\ form = <<":">>)
        /\ c = "\\" => r # "gin" /\ form = IF r = "echo" THEN <<c>> ELSE <<"\\", "\\">>
        /\ c = "*" => r = "fiber" /\ form = <<"\\", c>>
        /\ c = "+" /\ r = "fiber" => form = <<"\\", c>>
        /\ c \notin {":", "\\", "*"} /\ ~(c = "+" /\ r = "fiber") =>
                form = <<c>> \/ (r = "fiber" /\ form = <<"\\", c>>)
    BY <2>1, LiteralForms
  <2>3. /\ r = "echo" /\ form = <<"\\">> => CharAt(w, n) # ":"
        /\ r = "fiber" /\ form = <<":">> => CharAt(w, n) = ":"
    BY <1>4, <2>1, LiteralReads
  <2>4. /\ form = <<c>> => n = k + 1 /\ w[k] = c
        /\ form = <<"\\">> <=> n = k + 1 /\ w[k] = "\\"
        /\ form = <<":">> <=> n = k + 1 /\ w[k] = ":"
        /\ form = <<"\\", c>> => n = k + 2 /\ w[k] = "\\" /\ CharAt(w, k + 1) = c
        /\ form = <<"\\", ":">> => n = k + 2 /\ w[k] = "\\" /\ CharAt(w, k + 1) = ":"
        /\ form = <<"\\", "\\">> => n = k + 2 /\ w[k] = "\\" /\ CharAt(w, k + 1) = "\\"
    BY <1>4, <1>5, <1>6, <2>1 DEF form, Spells
  <2>5. CASE c = ":"
    BY <1>2, <2>2, <2>3, <2>4, <2>5 DEF LiteralAt
  <2>6. CASE c = "\\"
    <3>1. CASE r = "echo"
      BY <1>2, <2>2, <2>3, <2>4, <2>6, <3>1 DEF LiteralAt
    <3>2. CASE r = "fiber"
      BY <1>2, <2>2, <2>3, <2>4, <2>6, <3>2 DEF LiteralAt
    <3>3. QED
      BY <1>1, <2>2, <2>6, <3>1, <3>2
  <2>7. CASE c = "*" \/ (c = "+" /\ r = "fiber")
    BY <1>2, <2>2, <2>4, <2>7 DEF LiteralAt
  <2>8. CASE c \notin {":", "\\", "*"} /\ ~(c = "+" /\ r = "fiber")
    BY <2>2, <2>4, <2>8 DEF LiteralAt
  <2>9. QED
    BY <2>5, <2>6, <2>7, <2>8
<1>8. ASSUME LiteralAt(r, w, k, c, n) PROVE Token(r, w, k, Literal(c), n)
  <2>1. CASE /\ n = k + 1 /\ w[k] = c
             /\ c = ":" => r = "fiber" /\ CharAt(w, n) = ":"
             /\ c = "\\" => r = "echo" /\ CharAt(w, n) # ":"
             /\ c # "*" /\ ~(c = "+" /\ r = "fiber")
    <3>1. n \in (k + 1)..(Len(w) + 1) /\ form = <<c>>
      BY <1>4, <1>5, <2>1 DEF Spells
    <3>2. (form = <<"\\">> => c = "\\") /\ (form = <<":">> => c = ":")
      BY <1>4, <2>1, <3>1 DEF Spells
    <3>3. c \notin Braces
      BY <1>8 DEF LiteralAt
    <3> HIDE DEF form
    <3>4. form \in Forms(r, Literal(c))
      <4>1. CASE c = ":"
        BY <1>2, <2>1, <3>1, <3>3, <4>1, LiteralForms
      <4>2. CASE c = "\\"
        BY <1>2, <2>1, <3>1, <3>3, <4>2, LiteralForms
      <4>3. CASE c \notin {":", "\\"}
        BY <1>2, <2>1, <3>1, <3>3, <4>3, LiteralForms
      <4>4. QED
        BY <4>1, <4>2, <4>3
    <3>5. Reads(r, Literal(c), form, From(w, n))
      BY <1>4, <2>1, <3>1, <3>2, LiteralReads
    <3>6. QED
      BY <1>3, <3>1, <3>4, <3>5 DEF Token, form
  <2>2. CASE n = k + 2 /\ w[k] = "\\" /\ CharAt(w, k + 1) = c /\ (c = ":" \/ r = "fiber")
    <3>1. n \in (k + 1)..(Len(w) + 1) /\ w[k + 1] = c
      BY <1>5, <1>6, <2>2
    <3>2. form = <<"\\", c>>
      BY <1>4, <2>2, <3>1 DEF Spells
    <3>3. c \notin Braces
      BY <1>8 DEF LiteralAt
    <3>4. form # <<"\\">> /\ form # <<":">>
      <4>1. n # k + 1
        BY <2>2
      <4>2. QED
        BY <1>4, <3>1, <4>1 DEF Spells
    <3> HIDE DEF form
    <3>5. form \in Forms(r, Literal(c))
      <4>1. CASE c = ":"
        BY <1>2, <2>2, <3>2, <3>3, <4>1, LiteralForms
      <4>2. CASE c = "\\"
        <5>1. r = "fiber" /\ r # "echo" /\ r # "gin"
          BY <1>2, <2>2, <4>2
        <5>2. QED
          BY <1>2, <3>2, <3>3, <4>2, <5>1, LiteralForms
      <4>3. CASE c \notin {":", "\\"}
        BY <1>2, <2>2, <3>2, <3>3, <4>3, LiteralForms
      <4>4. QED
        BY <4>1, <4>2, <4>3
    <3>6. Reads(r, Literal(c), form, From(w, n))
      BY <3>4, LiteralReads
    <3>7. QED
      BY <1>3, <3>1, <3>5, <3>6 DEF Token, form
  <2>3. QED
    BY <1>8, <2>1, <2>2 DEF LiteralAt
<1>9. QED
  BY <1>7, <1>8

\* A parameter without a constraint.
PlainParam(r, w, k, t, n) ==
    /\ Spells(w, k + 1, n, t)
    /\ \/ CharAt(w, n) \in {End, "/"}
       \/ r = "echo" /\ EscapedColon(From(w, n), 1) /\ StaticSegment(From(w, n))
       \/ r = "fiber" /\ CharAt(w, n) \in {"-", ".", "\\"}

\* A parameter of Fiber with one, whose bracket opens at m.
BoundParam(r, w, k, t, m, n) ==
    /\ r = "fiber" /\ m \in (k + 1)..(n - 2)
    /\ Spells(w, k + 1, m, t) /\ w[m] = "<"
    /\ Part(w, m + 1, n - 1) \in Constraints(r) /\ w[n - 1] = ">"
    /\ CharAt(w, n) \in {End, "/", "-", ".", "\\"}

LEMMA ParamToken ==
    ASSUME NEW r \in Routers, NEW w \in Seq(Alphabet[r]), NEW k \in 1..Len(w), NEW t \in Texts(r), NEW n
    PROVE  Token(r, w, k, Param(t), n) <=>
            /\ n \in (k + 1)..(Len(w) + 1) /\ w[k] = ":"
            /\ PlainParam(r, w, k, t, n) \/ \E m : BoundParam(r, w, k, t, m, n)
<1>1. Len(w) \in Nat /\ r \in {"gin", "echo", "fiber"} /\ k \in Nat /\ k + 1 \in 1..(Len(w) + 1)
  BY PathsAssumption
<1>2. Param(t) \in Pieces(r)
  BY PieceKinds
<1>3. t \in Seq(Letters(r))
  BY TextShape
<1> SUFFICES ASSUME NEW o \in (k + 1)..(Len(w) + 1), o = n
             PROVE  Token(r, w, k, Param(t), n) <=>
                        /\ w[k] = ":"
                        /\ PlainParam(r, w, k, t, n) \/ \E m : BoundParam(r, w, k, t, m, n)
  BY DEF Token
<1> DEFINE form == Part(w, k, n)
           reads == Reads(r, Param(t), form, From(w, n))
<1>4. n \in 1..(Len(w) + 1) /\ n \in k..(Len(w) + 1) /\ n + 1 - 1 = n /\ n \in (k + 1)..(Len(w) + 1)
  BY <1>1
<1>5. CharAt(From(w, n), 1) = CharAt(w, n)
  BY <1>4, CharAfter
<1>6. reads <=> \/ CharAt(w, n) \in {End, "/"}
                \/ r = "echo" /\ EscapedColon(From(w, n), 1) /\ StaticSegment(From(w, n))
                \/ r = "fiber" /\ CharAt(w, n) \in {"-", ".", "\\"}
  BY <1>5, ParamReads
<1>7. Spells(w, k, n, <<":">> \o t) <=> w[k] = ":" /\ Spells(w, k + 1, n, t)
  BY <1>3, <1>4, NamedText
<1>8. ASSUME r = "fiber", NEW v \in Constraints(r)
      PROVE  Spells(w, k, n, Bracketed(t, v)) <=>
                \E m \in (k + 1)..(n - 2) :
                    /\ w[k] = ":" /\ Spells(w, k + 1, m, t) /\ w[m] = "<"
                    /\ Spells(w, m + 1, n - 1, v) /\ w[n - 1] = ">"
  <2> DEFINE S == Letters(r) \cup Alphabet[r] \cup {":", "<", ">"}
  <2>1. /\ t \in Seq(S) /\ v \in Seq(S) /\ <<":">> \in Seq(S) /\ <<"<">> \in Seq(S) /\ <<">">> \in Seq(S)
    <3>1. v \in Seq(Alphabet[r])
      BY ConstraintShape
    <3>2. QED
      BY <1>3, <3>1
  <2> DEFINE head == <<":">> \o t
             open == head \o <<"<">>
             body == open \o v
  <2>2. head \in Seq(S) /\ open \in Seq(S) /\ body \in Seq(S)
    BY <2>1, ConcatProperties
  <2> HIDE DEF head, open, body, S
  <2>3. Spells(w, k, n, body \o <<">">>) <=> Spells(w, k, n - 1, body) /\ w[n - 1] = ">"
    <3>1. Spells(w, k, n, body \o <<">">>) <=> \E m \in k..n : Spells(w, k, m, body) /\ Spells(w, m, n, <<">">>)
      <4>1. k \in 1..(Len(w) + 1) /\ n \in k..(Len(w) + 1)
        BY <1>1, <1>4
      <4>2. QED
        BY <2>1, <2>2, <4>1, TwoParts
    <3>2. ASSUME NEW m \in k..n, Spells(w, m, n, <<">">>) PROVE m = n - 1 /\ w[n - 1] = ">"
      <4>1. m # n
        <5> SUFFICES ASSUME m = n PROVE FALSE
          OBVIOUS
        <5>1. Spells(w, m, n, <<>>)
          BY <1>1, EmptyPart DEF Spells
        <5>2. QED
          BY <3>2, <5>1 DEF Spells
      <4>2. m \in 1..Len(w) /\ n \in (m + 1)..(Len(w) + 1)
        BY <1>1, <1>4, <4>1
      <4>3. n = m + 1 /\ w[m] = ">"
        BY <3>2, <4>2, OneCharacter
      <4>4. QED
        BY <1>1, <4>2, <4>3
    <3>3. ASSUME w[n - 1] = ">" PROVE n - 1 \in k..n /\ Spells(w, n - 1, n, <<">">>)
      <4>1. n - 1 \in 1..Len(w) /\ n \in ((n - 1) + 1)..(Len(w) + 1) /\ n = (n - 1) + 1
        BY <1>1, <1>4
      <4>2. Spells(w, n - 1, n, <<">">>)
        BY <3>3, <4>1, OneCharacter
      <4>3. QED
        BY <1>1, <1>4, <4>2
    <3>4. QED
      BY <3>1, <3>2, <3>3
  <2>4. Spells(w, k, n - 1, body) <=>
            \E l \in k..(n - 1) : Spells(w, k, l, open) /\ Spells(w, l, n - 1, v)
    <3>1. n - 1 \in k..(Len(w) + 1) /\ k \in 1..(Len(w) + 1)
      BY <1>1, <1>4
    <3>2. QED
      BY <2>1, <2>2, <3>1, TwoParts DEF body
  <2>5. ASSUME NEW l \in k..(n - 1)
        PROVE  Spells(w, k, l, open) <=>
                 l - 1 \in (k + 1)..(n - 2) /\ w[l - 1] = "<" /\ Spells(w, k, l - 1, head)
    <3>1. Spells(w, k, l, open) <=> \E m \in k..l : Spells(w, k, m, head) /\ Spells(w, m, l, <<"<">>)
      <4>1. l \in k..(Len(w) + 1) /\ k \in 1..(Len(w) + 1)
        BY <1>1, <1>4
      <4>2. QED
        BY <2>1, <2>2, <4>1, TwoParts DEF open
    <3>2. ASSUME NEW m \in k..l, Spells(w, m, l, <<"<">>), Spells(w, k, m, head)
          PROVE  m = l - 1 /\ w[l - 1] = "<" /\ l - 1 \in (k + 1)..(n - 2)
      <4>1. m # l
        <5> SUFFICES ASSUME m = l PROVE FALSE
          OBVIOUS
        <5>1. Spells(w, m, l, <<>>)
          BY <1>1, EmptyPart DEF Spells
        <5>2. QED
          BY <3>2, <5>1 DEF Spells
      <4>2. m \in 1..Len(w) /\ l \in (m + 1)..(Len(w) + 1)
        BY <1>1, <1>4, <4>1
      <4>3. l = m + 1 /\ w[m] = "<"
        BY <3>2, <4>2, OneCharacter
      <4>4. m # k
        <5> SUFFICES ASSUME m = k PROVE FALSE
          OBVIOUS
        <5>1. Spells(w, k, m, <<>>)
          BY <1>1, EmptyPart DEF Spells
        <5>2. head # <<>>
          <6>1. Len(<<":">>) = 1 /\ Len(t) \in Nat /\ Len(<<>>) = 0
            BY <1>3
          <6>2. Len(head) = 1 + Len(t)
            BY <2>1, <6>1, ConcatProperties DEF head
          <6>3. QED
            BY <6>1, <6>2
        <5>3. QED
          BY <3>2, <5>1, <5>2 DEF Spells
      <4>5. QED
        BY <1>1, <1>4, <4>2, <4>3, <4>4
    <3>3. ASSUME w[l - 1] = "<", l - 1 \in (k + 1)..(n - 2)
          PROVE  l - 1 \in k..l /\ Spells(w, l - 1, l, <<"<">>)
      <4>1. l - 1 \in 1..Len(w) /\ l \in ((l - 1) + 1)..(Len(w) + 1) /\ l = (l - 1) + 1
        BY <1>1, <1>4, <3>3
      <4>2. Spells(w, l - 1, l, <<"<">>)
        BY <3>3, <4>1, OneCharacter
      <4>3. QED
        BY <1>1, <1>4, <3>3, <4>2
    <3>4. QED
      BY <3>1, <3>2, <3>3
  <2>6. ASSUME NEW m \in (k + 1)..(n - 2)
        PROVE  Spells(w, k, m, head) <=> w[k] = ":" /\ Spells(w, k + 1, m, t)
    <3>1. m \in (k + 1)..(Len(w) + 1)
      BY <1>1, <1>4
    <3>2. QED
      BY <1>3, <3>1, NamedText DEF head
  <2>7. Spells(w, k, n, body \o <<">">>) <=>
            \E m \in (k + 1)..(n - 2) :
                /\ w[k] = ":" /\ Spells(w, k + 1, m, t) /\ w[m] = "<"
                /\ Spells(w, m + 1, n - 1, v) /\ w[n - 1] = ">"
    <3>1. ASSUME Spells(w, k, n, body \o <<">">>)
          PROVE  \E m \in (k + 1)..(n - 2) :
                    /\ w[k] = ":" /\ Spells(w, k + 1, m, t) /\ w[m] = "<"
                    /\ Spells(w, m + 1, n - 1, v) /\ w[n - 1] = ">"
      <4>1. PICK l \in k..(n - 1) : Spells(w, k, l, open) /\ Spells(w, l, n - 1, v)
        BY <2>3, <2>4, <3>1
      <4>2. l - 1 \in (k + 1)..(n - 2) /\ w[l - 1] = "<" /\ Spells(w, k, l - 1, head)
        BY <2>5, <4>1
      <4>3. w[k] = ":" /\ Spells(w, k + 1, l - 1, t)
        BY <2>6, <4>2
      <4>4. (l - 1) + 1 = l /\ (n - 1) - 1 = n - 2
        BY <1>1, <1>4
      <4>5. QED
        BY <2>3, <3>1, <4>1, <4>2, <4>3, <4>4
    <3>2. ASSUME NEW m \in (k + 1)..(n - 2),
                 w[k] = ":", Spells(w, k + 1, m, t), w[m] = "<",
                 Spells(w, m + 1, n - 1, v), w[n - 1] = ">"
          PROVE  Spells(w, k, n, body \o <<">">>)
      <4>1. m + 1 \in k..(n - 1) /\ (m + 1) - 1 = m /\ (n - 1) - 1 = n - 2
        BY <1>1, <1>4
      <4>2. Spells(w, k, (m + 1) - 1, head)
        BY <2>6, <3>2, <4>1
      <4>3. Spells(w, k, m + 1, open)
        BY <2>5, <3>2, <4>1, <4>2
      <4>4. QED
        BY <2>3, <2>4, <3>2, <4>1, <4>3
    <3>3. QED
      BY <3>1, <3>2
  <2>8. QED
    BY <2>7 DEF body, open, head, Bracketed
<1>9. Token(r, w, k, Param(t), n) <=> form \in Forms(r, Param(t)) /\ reads
  BY <1>2, <1>4 DEF Token
<1>10. form \in Forms(r, Param(t)) <=>
            \/ Spells(w, k, n, <<":">> \o t)
            \/ r = "fiber" /\ \E v \in Constraints(r) : Spells(w, k, n, Bracketed(t, v))
  <2>1. /\ form = <<":">> \o t <=> Spells(w, k, n, <<":">> \o t)
        /\ \A v : form = Bracketed(t, v) <=> Spells(w, k, n, Bracketed(t, v))
    BY DEF Spells
  <2> HIDE DEF form
  <2>2. form \in Forms(r, Param(t)) <=>
            \/ form = <<":">> \o t
            \/ r = "fiber" /\ \E v \in Constraints(r) : form = Bracketed(t, v)
    BY ParamForms
  <2>3. QED
    BY <2>1, <2>2
<1> HIDE DEF form, reads
<1>11. ASSUME Token(r, w, k, Param(t), n)
       PROVE  w[k] = ":" /\ (PlainParam(r, w, k, t, n) \/ \E m : BoundParam(r, w, k, t, m, n))
  <2>1. CASE Spells(w, k, n, <<":">> \o t)
    BY <1>6, <1>7, <1>9, <1>11, <2>1 DEF PlainParam
  <2>2. ASSUME r = "fiber", NEW v \in Constraints(r), Spells(w, k, n, Bracketed(t, v))
        PROVE  w[k] = ":" /\ \E m : BoundParam(r, w, k, t, m, n)
    <3>1. PICK m \in (k + 1)..(n - 2) :
                /\ w[k] = ":" /\ Spells(w, k + 1, m, t) /\ w[m] = "<"
                /\ Spells(w, m + 1, n - 1, v) /\ w[n - 1] = ">"
      BY <1>8, <2>2
    <3>2. CharAt(w, n) \in {End, "/", "-", ".", "\\"}
      BY <1>6, <1>9, <1>11, <2>2
    <3>3. Part(w, m + 1, n - 1) \in Constraints(r)
      BY <3>1 DEF Spells
    <3>4. BoundParam(r, w, k, t, m, n)
      BY <2>2, <3>1, <3>2, <3>3 DEF BoundParam
    <3>5. QED
      BY <3>1, <3>4
  <2>3. QED
    BY <1>9, <1>10, <1>11, <2>1, <2>2
<1>12. ASSUME w[k] = ":", PlainParam(r, w, k, t, n) PROVE Token(r, w, k, Param(t), n)
  BY <1>6, <1>7, <1>9, <1>10, <1>12 DEF PlainParam
<1>13. ASSUME w[k] = ":", NEW m, BoundParam(r, w, k, t, m, n) PROVE Token(r, w, k, Param(t), n)
  <2>1. /\ r = "fiber" /\ m \in (k + 1)..(n - 2) /\ Spells(w, k + 1, m, t) /\ w[m] = "<"
        /\ Part(w, m + 1, n - 1) \in Constraints(r) /\ w[n - 1] = ">"
        /\ CharAt(w, n) \in {End, "/", "-", ".", "\\"}
    BY <1>13 DEF BoundParam
  <2> DEFINE v == Part(w, m + 1, n - 1)
  <2>2. v \in Constraints(r) /\ Spells(w, m + 1, n - 1, v)
    BY <2>1 DEF Spells
  <2> HIDE DEF v
  <2>3. Spells(w, k, n, Bracketed(t, v))
    BY <1>8, <1>13, <2>1, <2>2
  <2>4. reads
    BY <1>6, <2>1
  <2>5. QED
    BY <1>9, <1>10, <2>1, <2>2, <2>3, <2>4
<1>14. QED
  BY <1>11, <1>12, <1>13

LEMMA RestToken ==
    ASSUME NEW r \in Routers, NEW w \in Seq(Alphabet[r]), NEW k \in 1..Len(w), NEW t, NEW n
    PROVE  /\ r = "gin" /\ t \in Texts(r) =>
                (Token(r, w, k, CatchAll(t), n) <=>
                    n = Len(w) + 1 /\ w[k] = "*" /\ Spells(w, k + 1, n, t))
           /\ r # "gin" /\ CatchAll(t) \in Pieces(r) /\ (\E c : t = <<c>>) =>
                (Token(r, w, k, CatchAll(t), n) <=>
                    n = k + 1 /\ t = <<w[k]>> /\ (r = "fiber" \/ n = Len(w) + 1))
<1>1. Len(w) \in Nat /\ k \in Nat /\ Len(w) + 1 \in (k + 1)..(Len(w) + 1) /\ k + 1 \in (k + 1)..(Len(w) + 1)
  BY PathsAssumption
<1>2. ASSUME NEW m \in (k + 1)..(Len(w) + 1) PROVE From(w, m) = <<>> <=> m = Len(w) + 1
  <2>1. m \in 1..(Len(w) + 1)
    BY <1>1
  <2>2. From(w, m) \in Seq(Alphabet[r]) /\ Len(From(w, m)) = Len(w) + 1 - m
    BY <2>1, FromShape
  <2>3. From(w, m) = <<>> <=> Len(From(w, m)) = 0
    BY <2>2
  <2>4. QED
    BY <1>1, <2>2, <2>3
<1>3. Token(r, w, k, CatchAll(t), n) <=>
        /\ n \in (k + 1)..(Len(w) + 1) /\ CatchAll(t) \in Pieces(r)
        /\ IF r = "gin" THEN Spells(w, k, n, <<"*">> \o t) ELSE Spells(w, k, n, <<Head(t)>>)
        /\ r = "fiber" \/ n = Len(w) + 1
  <2> DEFINE form == Part(w, k, n)
  <2>1. form \in Forms(r, CatchAll(t)) <=> form = IF r = "gin" THEN <<"*">> \o t ELSE <<Head(t)>>
    BY RestForms
  <2>2. (form = <<"*">> \o t <=> Spells(w, k, n, <<"*">> \o t)) /\ (form = <<Head(t)>> <=> Spells(w, k, n, <<Head(t)>>))
    BY DEF Spells
  <2>3. Reads(r, CatchAll(t), form, From(w, n)) <=> r = "fiber" \/ From(w, n) = <<>>
    BY RestReads
  <2> HIDE DEF form
  <2>4. Token(r, w, k, CatchAll(t), n) <=>
            /\ n \in (k + 1)..(Len(w) + 1) /\ CatchAll(t) \in Pieces(r)
            /\ form \in Forms(r, CatchAll(t)) /\ Reads(r, CatchAll(t), form, From(w, n))
    BY DEF Token, form
  <2>5. QED
    BY <1>2, <2>1, <2>2, <2>3, <2>4
<1>4. ASSUME r = "gin", t \in Texts(r)
      PROVE  Token(r, w, k, CatchAll(t), n) <=>
                n = Len(w) + 1 /\ w[k] = "*" /\ Spells(w, k + 1, n, t)
  <2>1. CatchAll(t) \in Pieces(r)
    BY <1>4, PieceKinds
  <2>2. t \in Seq(Letters(r))
    BY <1>4, TextShape
  <2>3. ASSUME NEW m \in (k + 1)..(Len(w) + 1)
        PROVE  Spells(w, k, m, <<"*">> \o t) <=> w[k] = "*" /\ Spells(w, k + 1, m, t)
    BY <2>2, NamedText
  <2>4. QED
    BY <1>1, <1>3, <1>4, <2>1, <2>3
<1>5. ASSUME r # "gin", CatchAll(t) \in Pieces(r), NEW c, t = <<c>>
      PROVE  Token(r, w, k, CatchAll(t), n) <=>
                n = k + 1 /\ t = <<w[k]>> /\ (r = "fiber" \/ n = Len(w) + 1)
  <2>1. Head(t) = c
    BY <1>5
  <2>2. ASSUME NEW m \in (k + 1)..(Len(w) + 1)
        PROVE  Spells(w, k, m, <<c>>) <=> m = k + 1 /\ w[k] = c
    BY OneCharacter
  <2>3. t = <<w[k]>> <=> w[k] = c
    BY <1>5
  <2>4. QED
    BY <1>1, <1>3, <1>5, <2>1, <2>2, <2>3
<1>6. QED
  BY <1>4, <1>5

(***************************************************************************)
(* A turn of a scanner: it ends where every token ends, or there is none.  *)
(***************************************************************************)

Only(r, w, k, piece, n) == Token(r, w, k, piece, n) /\ \A q, m : Token(r, w, k, q, m) => m = n
None(r, w, k) == \A q, m : ~Token(r, w, k, q, m)

\* What a token that ends at m says of the word.
LiteralEnd(r, w, k, m) == \E c \in Alphabet[r] : LiteralAt(r, w, k, c, m)
ParamEnd(r, w, k, m) ==
    \E t \in Texts(r) :
        /\ m \in (k + 1)..(Len(w) + 1) /\ w[k] = ":"
        /\ PlainParam(r, w, k, t, m) \/ \E l : BoundParam(r, w, k, t, l, m)
RestEnd(r, w, k, m) ==
    \/ r = "gin" /\ m = Len(w) + 1 /\ w[k] = "*" /\ Part(w, k + 1, m) \in Texts(r)
    \/ r = "echo" /\ m = Len(w) + 1 /\ w[k] = "*" /\ m = k + 1
    \/ r = "fiber" /\ m = k + 1 /\ w[k] \in {"*", "+"}

LEMMA TokenEnds ==
    ASSUME NEW r \in Routers, NEW w \in Seq(Alphabet[r]), NEW k \in 1..Len(w), NEW q, NEW m,
           Token(r, w, k, q, m)
    PROVE  LiteralEnd(r, w, k, m) \/ ParamEnd(r, w, k, m) \/ RestEnd(r, w, k, m)
<1>1. q \in Pieces(r)
  BY DEF Token
<1>2. ASSUME NEW c \in Alphabet[r], q = Literal(c) PROVE LiteralEnd(r, w, k, m)
  <2>1. Token(r, w, k, Literal(c), m)
    BY <1>2
  <2>2. LiteralAt(r, w, k, c, m)
    BY <2>1, LiteralToken
  <2>3. QED
    BY <2>2 DEF LiteralEnd
<1>3. ASSUME NEW t \in Texts(r), q = Param(t) PROVE ParamEnd(r, w, k, m)
  <2>1. Token(r, w, k, Param(t), m)
    BY <1>3
  <2>2. /\ m \in (k + 1)..(Len(w) + 1) /\ w[k] = ":"
        /\ PlainParam(r, w, k, t, m) \/ \E l : BoundParam(r, w, k, t, l, m)
    BY <2>1, ParamToken
  <2>3. QED
    BY <2>2 DEF ParamEnd
<1>4. ASSUME r = "gin", NEW t \in Texts(r), q = CatchAll(t) PROVE RestEnd(r, w, k, m)
  <2>1. Token(r, w, k, CatchAll(t), m)
    BY <1>4
  <2>2. m = Len(w) + 1 /\ w[k] = "*" /\ Spells(w, k + 1, m, t)
    BY <1>4, <2>1, RestToken
  <2>3. QED
    BY <1>4, <2>2 DEF RestEnd, Spells
<1>5. ASSUME r = "echo" \/ r = "fiber", NEW c \in {"*", "+"}, r = "echo" => c = "*", q = CatchAll(<<c>>)
      PROVE  RestEnd(r, w, k, m)
  <2> DEFINE t == <<c>>
  <2>1. r # "gin" /\ CatchAll(t) \in Pieces(r) /\ (\E d : t = <<d>>) /\ Token(r, w, k, CatchAll(t), m)
    BY <1>1, <1>5
  <2>2. t = <<w[k]>> <=> w[k] = c
    OBVIOUS
  <2> HIDE DEF t
  <2>3. m = k + 1 /\ t = <<w[k]>> /\ (r = "fiber" \/ m = Len(w) + 1)
    BY <2>1, RestToken
  <2>4. w[k] = c
    BY <2>2, <2>3
  <2>5. QED
    BY <1>5, <2>3, <2>4 DEF RestEnd
<1>6. CASE \E c \in Alphabet[r] : q = Literal(c)
  BY <1>2, <1>6
<1>7. CASE \E t \in Texts(r) : q = Param(t)
  BY <1>3, <1>7
<1>8. CASE r = "gin" /\ \E t \in Texts(r) : q = CatchAll(t)
  BY <1>4, <1>8
<1>9. CASE r = "echo" /\ q = CatchAll(<<"*">>)
  BY <1>5, <1>9
<1>10. CASE r = "fiber" /\ \E c \in {"*", "+"} \cap Alphabet[r] : q = CatchAll(<<c>>)
  <2>1. PICK c \in {"*", "+"} : q = CatchAll(<<c>>)
    BY <1>10
  <2>2. QED
    BY <1>5, <1>10, <2>1
<1>11. QED
  BY <1>1, <1>6, <1>7, <1>8, <1>9, <1>10, PieceKinds

\* Within a segment, the good names of Gin and Echo are the texts.
LEMMA GoodPart ==
    ASSUME NEW r \in Routers, r # "fiber", NEW w \in Seq(Alphabet[r]), Len(w) <= Longest(r),
           NEW k \in 2..(Len(w) + 1), NEW n \in k..(Len(w) + 1), \A j \in k..(n - 1) : w[j] # "/"
    PROVE  GoodName(Part(w, k, n)) <=> Part(w, k, n) \in Texts(r)
<1> DEFINE s == Part(w, k, n)
<1>1. Len(w) \in Nat /\ s \in Seq(Alphabet[r]) /\ Len(s) = n - k /\ \A j \in 1..(n - k) : s[j] = w[k + j - 1]
  <2>1. Len(w) \in Nat
    OBVIOUS
  <2>2. k \in 1..(Len(w) + 1) /\ n \in k..(Len(w) + 1)
    BY <2>1
  <2>3. s \in Seq(Alphabet[r]) /\ Len(s) = n - k
    BY <2>2, PartShape DEF Part
  <2>4. \A j \in 1..(n - k) : s[j] = w[k + j - 1]
    BY <2>2, PartShape DEF Part
  <2>5. QED
    BY <2>1, <2>3, <2>4
<1>2. s \in Texts(r) <=> n > k /\ \A j \in k..(n - 1) : w[j] \in Letters(r)
  BY TextPart
<1>3. \A j \in k..(n - 1) : w[j] \in Letters(r) <=> w[j] \notin {":", "*", "\\"} \cup Braces
  <2> TAKE j \in k..(n - 1)
  <2>1. w[j] \in Alphabet[r] /\ w[j] # "/"
    BY <1>1
  <2>2. QED
    BY <2>1 DEF Letters
<1> HIDE DEF s
<1>4. GoodName(s) <=> n > k /\ \A j \in k..(n - 1) : w[j] \notin {":", "*", "\\"} \cup Braces
  <2>1. DOMAIN s = 1..(n - k) /\ (s # <<>> <=> n > k)
    BY <1>1
  <2>2. ASSUME GoodName(s), NEW j \in k..(n - 1) PROVE w[j] \notin {":", "*", "\\"} \cup Braces
    <3>1. j - k + 1 \in DOMAIN s /\ k + (j - k + 1) - 1 = j /\ j - k + 1 \in 1..(n - k)
      BY <1>1, <2>1
    <3>2. s[j - k + 1] \notin {":", "*", "\\"} \cup Braces
      BY <2>2, <3>1 DEF GoodName
    <3>3. QED
      BY <1>1, <3>1, <3>2
  <2>3. ASSUME \A j \in k..(n - 1) : w[j] \notin {":", "*", "\\"} \cup Braces, NEW j \in DOMAIN s
        PROVE  s[j] \notin {":", "*", "\\"} \cup Braces
    <3>1. k + j - 1 \in k..(n - 1) /\ j \in 1..(n - k)
      BY <1>1, <2>1
    <3>2. QED
      BY <1>1, <2>3, <3>1
  <2>4. QED
    BY <2>1, <2>2, <2>3 DEF GoodName
<1>5. QED
  BY <1>2, <1>3, <1>4 DEF s

\* One turn of the Gin adapter, at a character that is not a wildcard.
LEMMA GinText ==
    ASSUME "gin" \in Routers, NEW w \in Seq(Alphabet["gin"]), NEW k \in 1..Len(w)
    PROVE  /\ w[k] = "\\" /\ EscapedColon(w, k) => Only("gin", w, k, Literal(":"), k + 2)
           /\ w[k] = "\\" /\ ~EscapedColon(w, k) => None("gin", w, k)
           /\ w[k] \in Braces => None("gin", w, k)
           /\ w[k] \notin {"\\", ":", "*"} \cup Braces => Only("gin", w, k, Literal(w[k]), k + 1)
<1> DEFINE r == "gin"
<1>1. Len(w) \in Nat /\ End \notin Alphabet[r] /\ w[k] \in Alphabet[r] /\ r # "echo" /\ r # "fiber" /\ r \in Routers
  BY PathsAssumption
<1>2. /\ k + 1 <= Len(w) => CharAt(w, k + 1) = w[k + 1] /\ w[k + 1] \in Alphabet[r]
      /\ k + 1 > Len(w) => CharAt(w, k + 1) = End
      /\ CharAt(w, k) = w[k]
  BY <1>1, CharIn
<1>3. ":" # "\\" /\ ":" # "*" /\ "\\" # "*" /\ ":" # End /\ "\\" \notin Braces /\ ":" \notin Braces /\ "*" \notin Braces
  BY BracesApart
<1>4. EscapedColon(w, k) <=> w[k] = "\\" /\ CharAt(w, k + 1) = ":"
  BY <1>2 DEF EscapedColon
<1> HIDE DEF r
<1>5. ASSUME NEW m, LiteralEnd(r, w, k, m)
      PROVE  \/ m = k + 1 /\ w[k] \notin {":", "\\", "*"} \cup Braces
             \/ m = k + 2 /\ EscapedColon(w, k)
  BY <1>1, <1>4, <1>5 DEF LiteralEnd, LiteralAt
<1>6. ASSUME w[k] \notin {":", "*"}, NEW q, NEW m, Token(r, w, k, q, m)
      PROVE  \/ m = k + 1 /\ w[k] \notin {":", "\\", "*"} \cup Braces
             \/ m = k + 2 /\ EscapedColon(w, k)
  <2>1. LiteralEnd(r, w, k, m) \/ ParamEnd(r, w, k, m) \/ RestEnd(r, w, k, m)
    BY <1>1, <1>6, TokenEnds DEF r
  <2>2. ~ParamEnd(r, w, k, m) /\ ~RestEnd(r, w, k, m)
    BY <1>1, <1>6 DEF ParamEnd, RestEnd
  <2>3. QED
    BY <1>5, <2>1, <2>2
<1>7. ASSUME w[k] = "\\", EscapedColon(w, k) PROVE Only(r, w, k, Literal(":"), k + 2)
  <2>1. ":" \in Alphabet[r]
    BY <1>2, <1>3, <1>4, <1>7
  <2>2. LiteralAt(r, w, k, ":", k + 2)
    BY <1>3, <1>4, <1>7 DEF LiteralAt
  <2>3. Token(r, w, k, Literal(":"), k + 2)
    BY <1>1, <2>1, <2>2, LiteralToken DEF r
  <2>4. QED
    BY <1>3, <1>6, <1>7, <2>3 DEF Only
<1>8. ASSUME w[k] = "\\", ~EscapedColon(w, k) PROVE None(r, w, k)
  BY <1>3, <1>6, <1>8 DEF None
<1>9. ASSUME w[k] \in Braces PROVE None(r, w, k)
  BY <1>3, <1>4, <1>6, <1>9 DEF None
<1>10. ASSUME w[k] \notin {"\\", ":", "*"} \cup Braces PROVE Only(r, w, k, Literal(w[k]), k + 1)
  <2>1. LiteralAt(r, w, k, w[k], k + 1)
    BY <1>1, <1>10 DEF LiteralAt
  <2>2. Token(r, w, k, Literal(w[k]), k + 1)
    BY <1>1, <2>1, LiteralToken DEF r
  <2>3. QED
    BY <1>4, <1>6, <1>10, <2>2 DEF Only
<1>11. QED
  BY <1>7, <1>8, <1>9, <1>10 DEF r

\* A text and the end of its segment bound each other.
LEMMA TextEnd ==
    ASSUME NEW r \in Routers, r # "fiber", NEW w \in Seq(Alphabet[r]), Len(w) <= Longest(r),
           NEW k \in 1..Len(w), w[k] # "/", NEW m \in (k + 1)..(Len(w) + 1),
           Part(w, k + 1, m) \in Texts(r), CharAt(w, m) \in {End, "/"}
    PROVE  m = SegmentEnd(w, k) /\ m = SegmentEnd(w, k + 1) /\ GoodName(Part(w, k + 1, m))
<1>1. Len(w) \in Nat /\ End \notin Alphabet[r] /\ k + 1 \in 2..(Len(w) + 1) /\ k + 1 \in 1..(Len(w) + 1)
      /\ k \in 1..(Len(w) + 1) /\ m \in Nat \ {0} /\ m <= Len(w) + 1
  BY PathsAssumption
<1>2. \A j \in (k + 1)..(m - 1) : w[j] \in Letters(r) /\ w[j] # "/"
  <2>1. \A j \in (k + 1)..(m - 1) : w[j] \in Letters(r)
    BY <1>1, TextPart
  <2>2. QED
    BY <2>1, CharsType
<1>3. m = Len(w) + 1 \/ w[m] \in {"/"}
  BY <1>1, CharIn
<1>4. Bounds(w, k + 1, {"/"}, m) /\ Bounds(w, k, {"/"}, m)
  BY <1>1, <1>2, <1>3 DEF Bounds
<1>5. m = SegmentEnd(w, k) /\ m = SegmentEnd(w, k + 1)
  BY <1>1, <1>4, FirstOfBounds DEF SegmentEnd
<1>6. GoodName(Part(w, k + 1, m))
  BY <1>1, <1>2, GoodPart
<1>7. QED
  BY <1>5, <1>6

\* One turn of the Gin adapter, at a wildcard.
LEMMA GinName ==
    ASSUME "gin" \in Routers, NEW w \in Seq(Alphabet["gin"]), Len(w) <= Longest("gin"), NEW k \in 1..Len(w),
           w[k] \in {":", "*"}, NEW end, end = SegmentEnd(w, k), NEW name, name = Part(w, k + 1, end)
    PROVE  IF ~GoodName(name) \/ (w[k] = "*" /\ end <= Len(w)) THEN None("gin", w, k)
           ELSE /\ w[k] = ":" => Only("gin", w, k, Param(name), end)
                /\ w[k] = "*" => Only("gin", w, k, CatchAll(name), end)
<1> DEFINE r == "gin"
<1>1. Len(w) \in Nat /\ End \notin Alphabet[r] /\ w[k] \in Alphabet[r] /\ r # "echo" /\ r # "fiber" /\ r \in Routers
      /\ k \in Nat /\ k >= 1 /\ k <= Len(w)
  BY PathsAssumption
<1>2. w[k] # "/" /\ w[k] # "\\" /\ (w[k] = ":" => w[k] # "*")
  OBVIOUS
<1>3. Bounds(w, k, {"/"}, end)
  BY <1>1, FirstOfBounds DEF SegmentEnd
<1>4. end \in (k + 1)..(Len(w) + 1) /\ (end = Len(w) + 1 \/ w[end] = "/") /\ \A j \in k..(end - 1) : w[j] # "/"
  BY <1>1, <1>2, <1>3 DEF Bounds
<1>5. CharAt(w, end) \in {End, "/"}
  <2>1. end \in Nat \ {0} /\ (end <= Len(w) \/ end > Len(w))
    BY <1>1, <1>4
  <2>2. QED
    BY <1>1, <1>4, <2>1, CharIn
<1>6. Len(w) <= Longest(r) /\ w \in Seq(Alphabet[r])
  OBVIOUS
<1> HIDE DEF r
<1>7. GoodName(name) <=> name \in Texts(r)
  <2>1. k + 1 \in 2..(Len(w) + 1) /\ end \in (k + 1)..(Len(w) + 1) /\ \A j \in (k + 1)..(end - 1) : w[j] # "/"
    BY <1>1, <1>4
  <2>2. QED
    BY <1>1, <1>6, <2>1, GoodPart
<1>8. ASSUME NEW q, NEW m, Token(r, w, k, q, m)
      PROVE  m = end /\ GoodName(name) /\ (w[k] = "*" => end = Len(w) + 1)
  <2>1. LiteralEnd(r, w, k, m) \/ ParamEnd(r, w, k, m) \/ RestEnd(r, w, k, m)
    BY <1>1, <1>6, <1>8, TokenEnds
  <2>2. ~LiteralEnd(r, w, k, m)
    BY <1>1, <1>2 DEF LiteralEnd, LiteralAt
  <2>3. CASE ParamEnd(r, w, k, m)
    <3>1. PICK t \in Texts(r) : /\ m \in (k + 1)..(Len(w) + 1) /\ w[k] = ":"
                                /\ PlainParam(r, w, k, t, m) \/ \E l : BoundParam(r, w, k, t, l, m)
      BY <2>3 DEF ParamEnd
    <3>2. Part(w, k + 1, m) \in Texts(r) /\ CharAt(w, m) \in {End, "/"}
      BY <1>1, <3>1 DEF PlainParam, BoundParam, Spells
    <3>3. m = SegmentEnd(w, k) /\ GoodName(Part(w, k + 1, m))
      BY <1>1, <1>2, <1>6, <3>1, <3>2, TextEnd
    <3>4. QED
      BY <1>2, <3>1, <3>3
  <2>4. CASE RestEnd(r, w, k, m)
    <3>1. m = Len(w) + 1 /\ w[k] = "*" /\ Part(w, k + 1, m) \in Texts(r)
      BY <1>1, <2>4 DEF RestEnd
    <3>2. m \in (k + 1)..(Len(w) + 1) /\ CharAt(w, m) \in {End, "/"}
      <4>1. m \in (k + 1)..(Len(w) + 1) /\ m \in Nat \ {0} /\ m > Len(w)
        BY <1>1, <3>1
      <4>2. CharAt(w, m) = End
        BY <1>1, <1>6, <4>1, CharIn
      <4>3. QED
        BY <4>1, <4>2
    <3>3. m = SegmentEnd(w, k) /\ GoodName(Part(w, k + 1, m))
      BY <1>1, <1>2, <1>6, <3>1, <3>2, TextEnd
    <3>4. QED
      BY <3>1, <3>3
  <2>5. QED
    BY <2>1, <2>2, <2>3, <2>4
<1>9. CASE ~GoodName(name) \/ (w[k] = "*" /\ end <= Len(w))
  <2>1. None(r, w, k)
    BY <1>1, <1>8, <1>9 DEF None
  <2>2. QED
    BY <1>9, <2>1 DEF r
<1>10. CASE GoodName(name) /\ w[k] = ":"
  <2>1. PlainParam(r, w, k, name, end)
    BY <1>5 DEF PlainParam, Spells
  <2>2. Token(r, w, k, Param(name), end)
    BY <1>1, <1>4, <1>6, <1>7, <1>10, <2>1, ParamToken
  <2>3. Only(r, w, k, Param(name), end)
    BY <1>8, <2>2 DEF Only
  <2>4. QED
    BY <1>2, <1>10, <2>3 DEF r
<1>11. CASE GoodName(name) /\ w[k] = "*" /\ end > Len(w)
  <2>1. end = Len(w) + 1 /\ Spells(w, k + 1, end, name) /\ name \in Texts(r)
    BY <1>1, <1>4, <1>7, <1>11 DEF Spells
  <2>2. Token(r, w, k, CatchAll(name), end)
    BY <1>1, <1>6, <1>11, <2>1, RestToken DEF r
  <2>3. Only(r, w, k, CatchAll(name), end)
    BY <1>8, <2>2 DEF Only
  <2>4. QED
    BY <1>1, <1>11, <2>1, <2>3 DEF r
<1>12. QED
  BY <1>1, <1>4, <1>9, <1>10, <1>11

(***************************************************************************)
(* Echo: names that end before an inline verb, and paths cut after their   *)
(* wildcard.                                                               *)
(***************************************************************************)

\* The first stop from k on is also the first one from any position before it.
LEMMA BoundsFrom ==
    ASSUME NEW p, Len(p) \in Nat, NEW k \in 1..(Len(p) + 1), NEW C, NEW e, Bounds(p, k, C, e), NEW l \in k..e
    PROVE  FirstOf(p, l, C) = e /\ l \in 1..(Len(p) + 1) /\ Bounds(p, l, C, e)
<1>1. e \in k..(Len(p) + 1) /\ (e = Len(p) + 1 \/ p[e] \in C) /\ \A j \in k..(e - 1) : p[j] \notin C
  BY DEF Bounds
<1>2. l \in 1..(Len(p) + 1) /\ e \in l..(Len(p) + 1) /\ \A j \in l..(e - 1) : j \in k..(e - 1)
  BY <1>1
<1>3. Bounds(p, l, C, e)
  BY <1>1, <1>2 DEF Bounds
<1>4. QED
  BY <1>2, <1>3, FirstOfBounds

\* Text up to e without wildcards, its colons escaped.
Static(p, k, e) == \A j \in k..(e - 1) : p[j] # "*" /\ (p[j] = ":" => j > k /\ p[j - 1] = "\\")

LEMMA StaticFrom ==
    ASSUME NEW T, NEW w \in Seq(T), NEW n \in 1..(Len(w) + 1), NEW e, Bounds(w, n, {"/"}, e)
    PROVE  StaticSegment(From(w, n)) <=> Static(w, n, e)
<1> DEFINE s == From(w, n)
<1>1. Len(w) \in Nat /\ Len(s) \in Nat /\ Len(s) = Len(w) + 1 - n /\ \A j \in 1..(Len(w) + 1 - n) : s[j] = w[n + j - 1]
  BY FromShape
<1> HIDE DEF s
<1>2. e \in n..(Len(w) + 1) /\ (e = Len(w) + 1 \/ w[e] \in {"/"}) /\ \A j \in n..(e - 1) : w[j] \notin {"/"}
  BY DEF Bounds
<1> DEFINE d == e - n + 1
<1>3. d \in 1..(Len(s) + 1) /\ 1 \in 1..(Len(s) + 1)
  BY <1>1, <1>2
<1>4. Bounds(s, 1, {"/"}, d)
  <2>1. d = Len(s) + 1 \/ s[d] \in {"/"}
    <3>1. CASE e = Len(w) + 1
      BY <1>1, <3>1
    <3>2. CASE e <= Len(w)
      <4>1. d \in 1..(Len(w) + 1 - n) /\ n + d - 1 = e /\ w[e] \in {"/"}
        BY <1>1, <1>2, <3>2
      <4>2. QED
        BY <1>1, <4>1
    <3>3. QED
      BY <1>1, <1>2, <3>1, <3>2
  <2>2. ASSUME NEW j \in 1..(d - 1) PROVE s[j] \notin {"/"}
    <3>1. j \in 1..(Len(w) + 1 - n) /\ n + j - 1 \in n..(e - 1)
      BY <1>1, <1>2
    <3>2. QED
      BY <1>1, <1>2, <3>1
  <2>3. QED
    BY <1>3, <2>1, <2>2 DEF Bounds
<1>5. SegmentEnd(s, 1) = d
  BY <1>1, <1>3, <1>4, FirstOfBounds DEF SegmentEnd
<1>6. ASSUME StaticSegment(s) PROVE Static(w, n, e)
  <2> SUFFICES ASSUME NEW j \in n..(e - 1) PROVE w[j] # "*" /\ (w[j] = ":" => j > n /\ w[j - 1] = "\\")
    BY DEF Static
  <2>1. /\ j - n + 1 \in 1..(d - 1) /\ j - n + 1 \in 1..(Len(w) + 1 - n) /\ n + (j - n + 1) - 1 = j
        /\ j > n => j - n + 1 > 1 /\ (j - n + 1) - 1 \in 1..(Len(w) + 1 - n) /\ n + ((j - n + 1) - 1) - 1 = j - 1
        /\ j - n + 1 > 1 => j > n
    BY <1>1, <1>2
  <2>2. s[j - n + 1] # "*" /\ (s[j - n + 1] = ":" => j - n + 1 > 1 /\ s[(j - n + 1) - 1] = "\\")
    <3> DEFINE l == j - n + 1
    <3>1. \A x \in 1..(d - 1) : s[x] # "*" /\ (s[x] = ":" => x > 1 /\ s[x - 1] = "\\")
      BY <1>5, <1>6 DEF StaticSegment
    <3>2. l \in 1..(d - 1)
      BY <2>1
    <3> HIDE DEF l, d
    <3>3. s[l] # "*" /\ (s[l] = ":" => l > 1 /\ s[l - 1] = "\\")
      BY <3>1, <3>2
    <3>4. QED
      BY <3>3 DEF l
  <2>3. QED
    BY <1>1, <2>1, <2>2
<1>7. ASSUME Static(w, n, e) PROVE StaticSegment(s)
  <2> SUFFICES ASSUME NEW l \in 1..(d - 1) PROVE s[l] # "*" /\ (s[l] = ":" => l > 1 /\ s[l - 1] = "\\")
    BY <1>5 DEF StaticSegment
  <2>1. /\ l \in 1..(Len(w) + 1 - n) /\ n + l - 1 \in n..(e - 1) /\ (n + l - 1 > n => l > 1)
        /\ l > 1 => l - 1 \in 1..(Len(w) + 1 - n) /\ n + (l - 1) - 1 = (n + l - 1) - 1
    BY <1>1, <1>2
  <2>2. w[n + l - 1] # "*" /\ (w[n + l - 1] = ":" => n + l - 1 > n /\ w[(n + l - 1) - 1] = "\\")
    BY <1>7, <2>1 DEF Static
  <2>3. QED
    BY <1>1, <2>1, <2>2
<1>8. QED
  BY <1>6, <1>7 DEF s

\* An inline verb starts at n, in the segment from k on that ends at e.
Verb(p, k, e, n) ==
    /\ n \in k..(e - 1) /\ EscapedColon(p, n) /\ Static(p, n + 2, e)
    /\ \A j \in k..(n - 1) : p[j] \notin {":", "*"} /\ ~EscapedColon(p, j)

LEMMA EscapedInside ==
    ASSUME NEW T, End \notin T, NEW p \in Seq(T), NEW k \in 1..(Len(p) + 1), NEW e, Bounds(p, k, {"/"}, e),
           NEW n \in k..(e - 1), EscapedColon(p, n)
    PROVE  n + 1 <= e - 1 /\ e \in Nat /\ e <= Len(p) + 1 /\ p[n] = "\\" /\ p[n + 1] = ":"
<1>1. Len(p) \in Nat /\ e \in k..(Len(p) + 1) /\ (e = Len(p) + 1 \/ p[e] = "/")
  BY DEF Bounds
<1>2. CharAt(p, n) = "\\" /\ CharAt(p, n + 1) = ":"
  BY DEF EscapedColon
<1>3. n + 1 \in Nat \ {0} /\ n \in Nat \ {0} /\ n <= Len(p)
  BY <1>1
<1>4. n + 1 <= Len(p) /\ p[n + 1] = ":" /\ p[n] = "\\"
  <2>1. End # ":"
    BY BracesApart
  <2>2. QED
    BY <1>2, <1>3, <2>1, CharIn
<1>5. n + 1 # e
  BY <1>1, <1>4
<1>6. QED
  BY <1>1, <1>3, <1>4, <1>5

LEMMA EchoEndShape ==
    ASSUME NEW T, End \notin T, NEW p \in Seq(T), NEW k \in 1..(Len(p) + 1), NEW e, Bounds(p, k, {"/"}, e)
    PROVE  /\ \A n : Verb(p, k, e, n) => EchoEnd(p, k) = n
           /\ (\A n : ~Verb(p, k, e, n)) => EchoEnd(p, k) = e
<1> DEFINE colons == {j \in k..(e - 1) : EscapedColon(p, j)}
           first == CHOOSE j \in colons : \A l \in colons : j <= l
<1>1. Len(p) \in Nat /\ SegmentEnd(p, k) = e /\ e \in k..(Len(p) + 1)
  <2>1. Len(p) \in Nat
    OBVIOUS
  <2>2. QED
    BY <2>1, FirstOfBounds DEF SegmentEnd, Bounds
<1>2. EchoEnd(p, k) =
        IF /\ colons # {} /\ InlineVerb(p, first + 2)
           /\ \A j \in k..(first - 1) : p[j] \notin {":", "*"}
        THEN first ELSE e
  BY <1>1 DEF EchoEnd
<1>3. ASSUME NEW n \in colons PROVE InlineVerb(p, n + 2) <=> Static(p, n + 2, e)
  <2>1. n \in k..(e - 1) /\ n + 1 <= e - 1
    BY EscapedInside
  <2>2. n + 2 \in k..e
    BY <1>1, <2>1
  <2>3. SegmentEnd(p, n + 2) = e
    BY <1>1, <2>2, BoundsFrom DEF SegmentEnd
  <2>4. QED
    BY <2>3 DEF InlineVerb, Static
<1>4. colons # {} => first \in colons /\ \A l \in colons : first <= l
  <2> SUFFICES ASSUME colons # {} PROVE first \in colons /\ \A l \in colons : first <= l
    OBVIOUS
  <2>1. colons \in SUBSET Nat
    BY <1>1
  <2> HIDE DEF colons
  <2>2. \E j \in colons : \A l \in colons : j <= l
    BY <2>1, LeastNumber
  <2>3. QED
    BY <2>2
<1>5. ASSUME NEW n, Verb(p, k, e, n) PROVE EchoEnd(p, k) = n
  <2>1. n \in colons /\ Static(p, n + 2, e) /\ \A j \in k..(n - 1) : p[j] \notin {":", "*"} /\ ~EscapedColon(p, j)
    BY <1>5 DEF Verb
  <2>2. first \in colons /\ first <= n
    BY <1>4, <2>1
  <2> HIDE DEF first
  <2>3. first = n
    BY <1>1, <2>1, <2>2
  <2>4. QED
    BY <1>2, <1>3, <2>1, <2>3
<1>6. ASSUME \A n : ~Verb(p, k, e, n) PROVE EchoEnd(p, k) = e
  <2> SUFFICES ASSUME colons # {}, InlineVerb(p, first + 2), \A j \in k..(first - 1) : p[j] \notin {":", "*"}
               PROVE  FALSE
    BY <1>2
  <2>1. first \in colons /\ \A l \in colons : first <= l
    BY <1>4
  <2> HIDE DEF first
  <2>2. Static(p, first + 2, e)
    BY <1>3, <2>1
  <2>3. ASSUME NEW j \in k..(first - 1) PROVE ~EscapedColon(p, j)
    BY <1>1, <2>1
  <2>4. Verb(p, k, e, first)
    BY <2>1, <2>2, <2>3 DEF Verb
  <2>5. QED
    BY <1>6, <2>4
<1>7. QED
  BY <1>5, <1>6

\* w is the path p up to its wildcard.
Cut(p, w) ==
    /\ Len(w) <= Len(p) /\ \A j \in 1..Len(w) : w[j] = p[j]
    /\ \A j \in 1..(Len(w) - 1) : w[j] # "*"
    /\ Len(w) = Len(p) \/ w[Len(w)] = "*"

LEMMA CutColon ==
    ASSUME NEW T, End \notin T, NEW p \in Seq(T), NEW w \in Seq(T), Cut(p, w), NEW k \in 1..Len(w)
    PROVE  /\ EscapedColon(p, k) <=> EscapedColon(w, k)
           /\ EscapedColon(w, k) <=> w[k] = "\\" /\ k + 1 <= Len(w) /\ w[k + 1] = ":"
<1>1. /\ Len(w) \in Nat /\ Len(p) \in Nat /\ k \in Nat \ {0} /\ k + 1 \in Nat \ {0} /\ Len(w) <= Len(p)
      /\ k <= Len(w) /\ k <= Len(p) /\ w[k] = p[k] /\ (k + 1 <= Len(w) => w[k + 1] = p[k + 1])
      /\ Len(w) = Len(p) \/ w[Len(w)] = "*"
  BY DEF Cut
<1>2. CharAt(w, k) = w[k] /\ CharAt(p, k) = w[k]
  BY <1>1, CharIn
<1>3. End # ":"
  BY BracesApart
<1>4. CASE k + 1 <= Len(w)
  <2>1. CharAt(w, k + 1) = w[k + 1] /\ CharAt(p, k + 1) = w[k + 1]
    BY <1>1, <1>4, CharIn
  <2>2. QED
    BY <1>2, <1>4, <2>1 DEF EscapedColon
<1>5. CASE k + 1 > Len(w)
  <2>1. CharAt(w, k + 1) = End /\ ~(k + 1 <= Len(w))
    BY <1>1, <1>5, CharIn
  <2>2. ASSUME EscapedColon(p, k) PROVE FALSE
    <3>1. k = Len(w) /\ w[k] = "\\"
      BY <1>1, <1>2, <1>5, <2>2 DEF EscapedColon
    <3>2. Len(w) = Len(p)
      BY <1>1, <3>1
    <3>3. CharAt(p, k + 1) = End
      BY <1>1, <1>5, <3>2, CharIn
    <3>4. QED
      BY <1>3, <2>2, <3>3 DEF EscapedColon
  <2>3. QED
    BY <1>3, <2>1, <2>2 DEF EscapedColon
<1>6. QED
  BY <1>1, <1>4, <1>5

\* One turn of echopath, at a character that is not a colon.
LEMMA EchoText ==
    ASSUME "echo" \in Routers, NEW p \in Seq(Alphabet["echo"]), NEW w \in Seq(Alphabet["echo"]),
           Cut(p, w), NEW k \in 1..Len(w), w[k] # ":"
    PROVE  /\ EscapedColon(p, k) => Only("echo", w, k, Literal(":"), k + 2)
           /\ w[k] = "*" => Only("echo", w, k, CatchAll(<<"*">>), k + 1) /\ k = Len(w)
           /\ w[k] \in Braces => None("echo", w, k)
           /\ ~EscapedColon(p, k) /\ w[k] \notin {":", "*"} \cup Braces => Only("echo", w, k, Literal(w[k]), k + 1)
<1> DEFINE r == "echo"
<1>1. Len(w) \in Nat /\ End \notin Alphabet[r] /\ w[k] \in Alphabet[r] /\ r # "gin" /\ r # "fiber" /\ r \in Routers
      /\ p \in Seq(Alphabet[r]) /\ w \in Seq(Alphabet[r])
  BY PathsAssumption
<1>2. /\ k + 1 \in Nat \ {0}
      /\ k + 1 <= Len(w) => CharAt(w, k + 1) = w[k + 1] /\ w[k + 1] \in Alphabet[r]
      /\ k + 1 > Len(w) => CharAt(w, k + 1) = End
  BY <1>1, CharIn
<1>3. ":" # "\\" /\ ":" # "*" /\ "\\" # "*" /\ ":" # End /\ "\\" \notin Braces /\ ":" \notin Braces /\ "*" \notin Braces
  BY BracesApart
<1>4. (EscapedColon(p, k) <=> EscapedColon(w, k)) /\ (EscapedColon(w, k) <=> w[k] = "\\" /\ CharAt(w, k + 1) = ":")
  <2>1. /\ EscapedColon(p, k) <=> EscapedColon(w, k)
        /\ EscapedColon(w, k) <=> w[k] = "\\" /\ k + 1 <= Len(w) /\ w[k + 1] = ":"
    BY <1>1, CutColon
  <2>2. k + 1 <= Len(w) \/ k + 1 > Len(w)
    BY <1>1
  <2>3. QED
    BY <1>1, <1>2, <1>3, <2>1, <2>2
<1> HIDE DEF r
<1>5. ASSUME NEW q, NEW m, Token(r, w, k, q, m)
      PROVE  \/ m = k + 1 /\ w[k] \notin Braces /\ ~EscapedColon(w, k)
             \/ m = k + 2 /\ EscapedColon(w, k)
  <2>1. LiteralEnd(r, w, k, m) \/ ParamEnd(r, w, k, m) \/ RestEnd(r, w, k, m)
    BY <1>1, <1>5, TokenEnds
  <2>2. ~ParamEnd(r, w, k, m)
    BY DEF ParamEnd
  <2>3. RestEnd(r, w, k, m) => m = k + 1 /\ w[k] = "*"
    BY <1>1 DEF RestEnd
  <2>4. LiteralEnd(r, w, k, m) => \/ m = k + 1 /\ w[k] \notin Braces /\ ~EscapedColon(w, k)
                                  \/ m = k + 2 /\ EscapedColon(w, k)
    BY <1>1, <1>3, <1>4 DEF LiteralEnd, LiteralAt
  <2>5. QED
    BY <1>3, <1>4, <2>1, <2>2, <2>3, <2>4
<1>6. ASSUME EscapedColon(p, k) PROVE Only(r, w, k, Literal(":"), k + 2)
  <2>1. ":" \in Alphabet[r] /\ EscapedColon(w, k) /\ w[k] = "\\" /\ CharAt(w, k + 1) = ":"
    BY <1>1, <1>2, <1>3, <1>4, <1>6
  <2>2. LiteralAt(r, w, k, ":", k + 2)
    BY <1>3, <2>1 DEF LiteralAt
  <2>3. Token(r, w, k, Literal(":"), k + 2)
    BY <1>1, <2>1, <2>2, LiteralToken
  <2>4. QED
    BY <1>5, <2>1, <2>3 DEF Only
<1>7. ASSUME w[k] = "*" PROVE Only(r, w, k, CatchAll(<<"*">>), k + 1) /\ k = Len(w)
  <2>1. k = Len(w)
    BY <1>1, <1>7 DEF Cut
  <2> DEFINE t == <<"*">>
  <2>2. CatchAll(t) \in Pieces(r) /\ (\E c : t = <<c>>) /\ t = <<w[k]>>
    BY <1>1, <1>7, PieceKinds DEF r
  <2> HIDE DEF t
  <2>3. Token(r, w, k, CatchAll(t), k + 1)
    BY <1>1, <2>1, <2>2, RestToken
  <2>4. ~EscapedColon(w, k)
    BY <1>3, <1>4, <1>7
  <2>5. QED
    BY <1>5, <2>1, <2>3, <2>4 DEF Only, t
<1>8. ASSUME w[k] \in Braces PROVE None(r, w, k)
  BY <1>3, <1>4, <1>5, <1>8 DEF None
<1>9. ASSUME ~EscapedColon(p, k), w[k] \notin {":", "*"} \cup Braces PROVE Only(r, w, k, Literal(w[k]), k + 1)
  <2>1. LiteralAt(r, w, k, w[k], k + 1)
    BY <1>1, <1>3, <1>4, <1>9 DEF LiteralAt, r
  <2>2. Token(r, w, k, Literal(w[k]), k + 1)
    BY <1>1, <2>1, LiteralToken
  <2>3. QED
    BY <1>4, <1>5, <1>9, <2>2 DEF Only
<1>10. QED
  BY <1>6, <1>7, <1>8, <1>9 DEF r

LEMMA SamePart ==
    ASSUME NEW T, NEW p \in Seq(T), NEW w \in Seq(T), Len(w) <= Len(p), \A j \in 1..Len(w) : w[j] = p[j],
           NEW k \in 1..(Len(w) + 1), NEW n \in k..(Len(w) + 1)
    PROVE  Part(p, k, n) = Part(w, k, n)
<1>1. Len(w) \in Nat /\ Len(p) \in Nat /\ k \in Nat /\ n \in Nat /\ k <= n /\ n <= Len(w) + 1
  OBVIOUS
<1>2. k \in 1..(Len(p) + 1) /\ n \in k..(Len(p) + 1) /\ k \in 1..(Len(w) + 1) /\ n \in k..(Len(w) + 1)
  BY <1>1
<1> DEFINE s == Part(p, k, n)
           t == Part(w, k, n)
<1>3. s \in Seq(T) /\ Len(s) = n - k /\ \A j \in 1..(n - k) : s[j] = p[k + j - 1]
  BY <1>2, PartShape DEF Part
<1>4. t \in Seq(T) /\ Len(t) = n - k /\ \A j \in 1..(n - k) : t[j] = w[k + j - 1]
  BY <1>2, PartShape DEF Part
<1> HIDE DEF s, t
<1>5. ASSUME NEW j \in 1..(n - k) PROVE s[j] = t[j]
  <2>1. k + j - 1 \in 1..Len(w)
    BY <1>1
  <2>2. QED
    BY <1>3, <1>4, <2>1
<1>6. s = t
  BY <1>3, <1>4, <1>5, SeqEqual
<1>7. QED
  BY <1>6 DEF s, t

\* The text of an inline verb, with or without the escaped colon before it.
LEMMA StaticEscaped ==
    ASSUME NEW w, NEW n \in Nat, NEW e \in Nat, n + 1 <= e - 1, w[n] = "\\", w[n + 1] = ":"
    PROVE  Static(w, n, e) <=> Static(w, n + 2, e)
<1>1. ASSUME Static(w, n, e), NEW j \in (n + 2)..(e - 1)
      PROVE  w[j] # "*" /\ (w[j] = ":" => j > n + 2 /\ w[j - 1] = "\\")
  <2>1. j \in n..(e - 1) /\ j > n /\ (j = n + 2 => j - 1 = n + 1)
    OBVIOUS
  <2>2. w[j] # "*" /\ (w[j] = ":" => w[j - 1] = "\\")
    BY <1>1, <2>1 DEF Static
  <2>3. w[j] = ":" => j # n + 2
    BY <2>1, <2>2
  <2>4. QED
    BY <2>2, <2>3
<1>2. ASSUME Static(w, n + 2, e), NEW j \in n..(e - 1)
      PROVE  w[j] # "*" /\ (w[j] = ":" => j > n /\ w[j - 1] = "\\")
  <2>1. CASE j = n
    BY <2>1
  <2>2. CASE j = n + 1
    <3>1. j - 1 = n /\ j > n
      BY <2>2
    <3>2. QED
      BY <2>2, <3>1
  <2>3. CASE j >= n + 2
    <3>1. j \in (n + 2)..(e - 1) /\ j > n
      BY <2>3
    <3>2. QED
      BY <1>2, <3>1 DEF Static
  <2>4. j = n \/ j = n + 1 \/ j >= n + 2
    OBVIOUS
  <2>5. QED
    BY <2>1, <2>2, <2>3, <2>4
<1>3. QED
  BY <1>1, <1>2 DEF Static

\* One turn of echopath, at a colon.
LEMMA EchoName ==
    ASSUME "echo" \in Routers, NEW p \in Seq(Alphabet["echo"]), Len(p) <= Longest("echo"),
           NEW w \in Seq(Alphabet["echo"]), Cut(p, w), NEW k \in 1..Len(w), w[k] = ":",
           NEW end, end = EchoEnd(p, k + 1), NEW name, name = Part(p, k + 1, end)
    PROVE  IF GoodName(name) THEN Only("echo", w, k, Param(name), end) ELSE None("echo", w, k)
<1> DEFINE r == "echo"
           e == SegmentEnd(p, k + 1)
<1>1. /\ Len(w) \in Nat /\ Len(p) \in Nat /\ End \notin Alphabet[r] /\ r # "gin" /\ r # "fiber" /\ r \in Routers
      /\ p \in Seq(Alphabet[r]) /\ w \in Seq(Alphabet[r]) /\ Len(p) <= Longest(r) /\ Len(w) <= Longest(r)
      /\ Len(w) <= Len(p) /\ k \in Nat /\ k >= 1 /\ k <= Len(w) /\ w[k] # "/" /\ Longest(r) \in Nat
  <2>1. Len(w) \in Nat /\ Len(p) \in Nat /\ Longest(r) \in Nat /\ Len(w) <= Len(p) /\ Len(p) <= Longest(r)
    BY LongestType DEF Cut
  <2>2. QED
    BY <2>1, PathsAssumption
<1>2. /\ \A j \in 1..Len(w) : w[j] = p[j]
      /\ \A j \in 1..(Len(w) - 1) : w[j] # "*"
      /\ Len(w) = Len(p) \/ w[Len(w)] = "*"
  BY DEF Cut
<1>3. /\ k + 1 \in 1..(Len(p) + 1) /\ k + 1 \in 2..(Len(w) + 1) /\ k + 1 \in 2..(Len(p) + 1)
      /\ Bounds(p, k + 1, {"/"}, e)
  <2>1. k + 1 \in 1..(Len(p) + 1) /\ k + 1 \in 2..(Len(w) + 1) /\ k + 1 \in 2..(Len(p) + 1)
    BY <1>1
  <2>2. QED
    BY <1>1, <2>1, FirstOfBounds DEF SegmentEnd
<1> HIDE DEF r, e
<1>4. e \in (k + 1)..(Len(p) + 1) /\ e \in Nat /\ (e = Len(p) + 1 \/ p[e] = "/") /\ \A j \in (k + 1)..(e - 1) : p[j] # "/"
  BY <1>1, <1>3 DEF Bounds
<1>5. /\ \A n : Verb(p, k + 1, e, n) => end = n
      /\ (\A n : ~Verb(p, k + 1, e, n)) => end = e
  BY <1>1, <1>3, EchoEndShape
<1>6. \A n : Verb(p, k + 1, e, n) =>
            n \in (k + 1)..(e - 1) /\ n + 1 <= e - 1 /\ p[n] = "\\" /\ p[n + 1] = ":" /\ Static(p, n + 2, e)
  <2> SUFFICES ASSUME NEW n, Verb(p, k + 1, e, n)
               PROVE  n \in (k + 1)..(e - 1) /\ n + 1 <= e - 1 /\ p[n] = "\\" /\ p[n + 1] = ":" /\ Static(p, n + 2, e)
    OBVIOUS
  <2>1. n \in (k + 1)..(e - 1) /\ EscapedColon(p, n) /\ Static(p, n + 2, e)
    BY DEF Verb
  <2>2. QED
    BY <1>1, <1>3, <2>1, EscapedInside
<1>7. end \in (k + 1)..e /\ (end = e \/ Verb(p, k + 1, e, end))
  BY <1>4, <1>5, <1>6
<1>8. GoodName(name) <=> name \in Texts(r)
  <2>1. end \in (k + 1)..(Len(p) + 1) /\ \A j \in (k + 1)..(end - 1) : p[j] # "/"
    BY <1>4, <1>7
  <2>2. QED
    BY <1>1, <1>3, <2>1, GoodPart
<1>9. name \in Texts(r) => \A j \in (k + 1)..(end - 1) : p[j] \in Letters(r)
  <2>1. end \in (k + 1)..(Len(p) + 1)
    BY <1>4, <1>7
  <2>2. QED
    BY <1>1, <1>3, <2>1, TextPart
\* What a token at this colon is.
<1>10. ASSUME NEW q, NEW m, Token(r, w, k, q, m)
       PROVE  /\ m \in (k + 1)..(Len(w) + 1) /\ Part(w, k + 1, m) \in Texts(r)
              /\ \A j \in (k + 1)..(m - 1) : w[j] \in Letters(r) /\ w[j] \notin {"/", ":", "*", "\\"}
              /\ \/ CharAt(w, m) \in {End, "/"}
                 \/ m + 1 <= Len(w) /\ w[m] = "\\" /\ w[m + 1] = ":" /\ StaticSegment(From(w, m))
  <2>1. LiteralEnd(r, w, k, m) \/ ParamEnd(r, w, k, m) \/ RestEnd(r, w, k, m)
    BY <1>1, <1>10, TokenEnds
  <2>2. ~LiteralEnd(r, w, k, m) /\ ~RestEnd(r, w, k, m)
    BY <1>1 DEF LiteralEnd, LiteralAt, RestEnd
  <2>3. PICK t \in Texts(r) : /\ m \in (k + 1)..(Len(w) + 1) /\ w[k] = ":"
                              /\ PlainParam(r, w, k, t, m) \/ \E l : BoundParam(r, w, k, t, l, m)
    BY <2>1, <2>2 DEF ParamEnd
  <2>4. /\ Part(w, k + 1, m) \in Texts(r)
        /\ CharAt(w, m) \in {End, "/"} \/ (EscapedColon(From(w, m), 1) /\ StaticSegment(From(w, m)))
    BY <1>1, <2>3 DEF PlainParam, BoundParam, Spells
  <2>5. \A j \in (k + 1)..(m - 1) : w[j] \in Letters(r)
    BY <1>1, <1>3, <2>3, <2>4, TextPart
  <2>6. \A c \in Letters(r) : c \notin {"/", ":", "*", "\\"}
    BY <1>1, CharsType
  <2>7. ASSUME EscapedColon(From(w, m), 1) PROVE m + 1 <= Len(w) /\ w[m] = "\\" /\ w[m + 1] = ":"
    <3>1. m \in 1..(Len(w) + 1) /\ m + 1 - 1 = m /\ m + 2 - 1 = m + 1 /\ m \in Nat \ {0} /\ m + 1 \in Nat \ {0}
      BY <1>1, <2>3
    <3>2. CharAt(From(w, m), 1) = CharAt(w, m + 1 - 1) /\ CharAt(From(w, m), 2) = CharAt(w, m + 2 - 1)
      BY <1>1, <3>1, CharAfter
    <3>3. CharAt(w, m) = "\\" /\ CharAt(w, m + 1) = ":"
      BY <2>7, <3>1, <3>2 DEF EscapedColon
    <3>4. End # ":"
      BY BracesApart
    <3>5. m + 1 <= Len(w) /\ CharAt(w, m + 1) = w[m + 1]
      BY <1>1, <3>1, <3>3, <3>4, CharIn
    <3>6. m <= Len(w)
      BY <1>1, <3>1, <3>5
    <3>7. CharAt(w, m) = w[m]
      BY <1>1, <3>1, <3>6, CharIn
    <3>8. QED
      BY <3>3, <3>5, <3>7
  <2>8. QED
    BY <2>3, <2>4, <2>5, <2>6, <2>7
<1>11. CASE w[Len(w)] = "*" /\ Len(w) < e
  <2> DEFINE s == Len(w)
  <2>1. s \in Nat /\ s \in (k + 1)..(e - 1) /\ p[s] = "*" /\ w[s] = "*" /\ s = Len(w)
    <3>1. s \in 1..Len(w) /\ k # s
      BY <1>1, <1>11
    <3>2. s \in Nat /\ s \in (k + 1)..(e - 1)
      BY <1>1, <1>4, <1>11, <3>1
    <3>3. w[s] = p[s]
      BY <1>2, <3>1
    <3>4. QED
      BY <1>11, <3>2, <3>3
  <2> HIDE DEF s
  <2>2. \A n : ~Verb(p, k + 1, e, n)
    <3> SUFFICES ASSUME NEW n, Verb(p, k + 1, e, n) PROVE FALSE
      OBVIOUS
    <3>1. n \in (k + 1)..(e - 1) /\ n + 1 <= e - 1 /\ p[n] = "\\" /\ p[n + 1] = ":" /\ Static(p, n + 2, e)
      BY <1>6
    <3>2. \A j \in (k + 1)..(n - 1) : p[j] \notin {":", "*"}
      BY DEF Verb
    <3>3. ~(s < n) /\ s # n /\ s # n + 1
      BY <2>1, <3>1, <3>2
    <3>4. s \in (n + 2)..(e - 1)
      BY <1>1, <2>1, <3>1, <3>3
    <3>5. QED
      BY <2>1, <3>1, <3>4 DEF Static
  <2>3. ~GoodName(name)
    <3>1. "*" \notin Letters(r)
      BY <1>1, CharsType
    <3>2. QED
      BY <1>5, <1>8, <1>9, <2>1, <2>2, <3>1
  <2>4. ASSUME NEW q, NEW m, Token(r, w, k, q, m) PROVE FALSE
    <3>1. /\ m \in (k + 1)..(Len(w) + 1)
          /\ \A j \in (k + 1)..(m - 1) : w[j] \in Letters(r) /\ w[j] \notin {"/", ":", "*", "\\"}
          /\ \/ CharAt(w, m) \in {End, "/"}
             \/ m + 1 <= Len(w) /\ w[m] = "\\" /\ w[m + 1] = ":" /\ StaticSegment(From(w, m))
      BY <1>10, <2>4
    <3>2. m \in (k + 1)..s /\ m \in 1..Len(w) /\ m \in Nat \ {0}
      <4>1. m # s + 1
        BY <1>1, <2>1, <3>1
      <4>2. QED
        BY <1>1, <3>1, <4>1 DEF s
    <3>3. CharAt(w, m) = w[m] /\ w[m] = p[m] /\ w[m] # End
      <4>1. m <= Len(w)
        BY <3>2
      <4>2. QED
        BY <1>1, <1>2, <3>2, <4>1, CharIn
    <3>4. p[m] # "/"
      BY <1>4, <2>1, <3>2
    <3>5. StaticSegment(From(w, m))
      BY <3>1, <3>3, <3>4
    <3>6. Bounds(w, m, {"/"}, s + 1)
      <4>1. s + 1 \in m..(Len(w) + 1) /\ s + 1 = Len(w) + 1
        BY <1>1, <3>2 DEF s
      <4>2. ASSUME NEW j \in m..((s + 1) - 1) PROVE w[j] \notin {"/"}
        <5>1. j \in (k + 1)..(e - 1) /\ j \in 1..Len(w)
          BY <1>1, <1>4, <2>1, <3>2
        <5>2. QED
          BY <1>2, <1>4, <5>1
      <4>3. QED
        BY <4>1, <4>2 DEF Bounds
    <3>7. Static(w, m, s + 1)
      <4>1. m \in 1..(Len(w) + 1)
        BY <3>2
      <4>2. QED
        BY <1>1, <3>5, <3>6, <4>1, StaticFrom
    <3>8. s \in m..((s + 1) - 1)
      BY <2>1, <3>2
    <3>9. QED
      BY <2>1, <3>7, <3>8 DEF Static
  <2>5. None(r, w, k)
    BY <2>4 DEF None
  <2>6. QED
    BY <2>3, <2>5 DEF r
<1>12. CASE ~(w[Len(w)] = "*" /\ Len(w) < e)
  <2>1. /\ e \in (k + 1)..(Len(w) + 1) /\ (\A j \in 1..(e - 1) : w[j] = p[j])
        /\ (e = Len(w) + 1 \/ w[e] = "/") /\ (\A j \in (k + 1)..(e - 1) : w[j] # "/")
        /\ k + 1 \in 1..(Len(w) + 1)
    <3>1. CASE Len(w) < e
      <4>1. Len(w) = Len(p) /\ e = Len(w) + 1
        BY <1>1, <1>2, <1>4, <1>12, <3>1
      <4>2. QED
        BY <1>1, <1>2, <1>4, <4>1
    <3>2. CASE e <= Len(w)
      <4>1. e \in 1..Len(w) /\ e # Len(p) + 1
        BY <1>1, <1>4, <3>2
      <4>2. w[e] = "/"
        BY <1>2, <1>4, <4>1
      <4>3. ASSUME NEW j \in 1..(e - 1) PROVE w[j] = p[j]
        BY <1>1, <1>2, <1>4, <4>1
      <4>4. \A j \in (k + 1)..(e - 1) : w[j] # "/"
        BY <1>1, <1>4, <4>3
      <4>5. e \in (k + 1)..(Len(w) + 1) /\ k + 1 \in 1..(Len(w) + 1)
        BY <1>1, <1>4, <4>1
      <4>6. QED
        BY <4>2, <4>3, <4>4, <4>5
    <3>3. QED
      BY <1>1, <1>4, <3>1, <3>2
  <2>2. Bounds(w, k + 1, {"/"}, e)
    BY <2>1 DEF Bounds
  <2>3. ASSUME NEW n \in (k + 1)..(e - 1), p[n] = "\\", p[n + 1] = ":", n + 1 <= e - 1
        PROVE  /\ StaticSegment(From(w, n)) <=> Static(p, n + 2, e)
               /\ EscapedColon(From(w, n), 1) /\ EscapedColon(p, n)
    <3>1. n \in 1..(Len(w) + 1) /\ n \in (k + 1)..e /\ n \in Nat \ {0} /\ n + 1 \in Nat \ {0} /\ n + 1 <= Len(w) /\ n <= Len(w)
      <4>1. Len(w) \in Nat /\ k \in Nat /\ e \in Nat /\ e <= Len(w) + 1
        BY <1>1, <1>4, <2>1
      <4>2. n \in (k + 1)..(e - 1) /\ n + 1 <= e - 1
        BY <2>3
      <4>3. QED
        BY <4>1, <4>2
    <3>2. w[n] = "\\" /\ w[n + 1] = ":"
      BY <1>1, <2>1, <2>3, <3>1
    <3>3. Bounds(w, n, {"/"}, e)
      BY <1>1, <2>1, <2>2, <3>1, BoundsFrom
    <3>4. StaticSegment(From(w, n)) <=> Static(w, n, e)
      BY <1>1, <3>1, <3>3, StaticFrom
    <3>5. Static(w, n, e) <=> Static(w, n + 2, e)
      BY <1>4, <2>3, <3>1, <3>2, StaticEscaped
    <3>6. Static(w, n + 2, e) <=> Static(p, n + 2, e)
      <4>1. \A j \in (n + 2)..(e - 1) : w[j] = p[j] /\ w[j - 1] = p[j - 1]
        BY <1>1, <1>4, <2>1, <3>1
      <4>2. QED
        BY <4>1 DEF Static
    <3>7. CharAt(w, n) = "\\" /\ CharAt(w, n + 1) = ":" /\ CharAt(p, n) = "\\" /\ CharAt(p, n + 1) = ":"
      <4>1. CharAt(w, n) = w[n] /\ CharAt(w, n + 1) = w[n + 1]
        BY <1>1, <3>1, CharIn
      <4>2. n <= Len(p) /\ n + 1 <= Len(p)
        BY <1>1, <3>1
      <4>3. CharAt(p, n) = p[n] /\ CharAt(p, n + 1) = p[n + 1]
        BY <1>1, <3>1, <4>2, CharIn
      <4>4. QED
        BY <2>3, <3>2, <4>1, <4>3
    <3>8. CharAt(From(w, n), 1) = CharAt(w, n) /\ CharAt(From(w, n), 2) = CharAt(w, n + 1)
      <4>1. \A j \in Nat \ {0} : CharAt(From(w, n), j) = CharAt(w, n + j - 1)
        BY <1>1, <3>1, CharAfter
      <4>2. n + 1 - 1 = n /\ n + 2 - 1 = n + 1
        BY <3>1
      <4>3. QED
        BY <4>1, <4>2
    <3>9. QED
      BY <3>4, <3>5, <3>6, <3>7, <3>8 DEF EscapedColon
  <2>4. ASSUME NEW q, NEW m, Token(r, w, k, q, m) PROVE m = end /\ GoodName(name)
    <3>1. /\ m \in (k + 1)..(Len(w) + 1) /\ Part(w, k + 1, m) \in Texts(r)
          /\ \A j \in (k + 1)..(m - 1) : w[j] \in Letters(r) /\ w[j] \notin {"/", ":", "*", "\\"}
          /\ \/ CharAt(w, m) \in {End, "/"}
             \/ m + 1 <= Len(w) /\ w[m] = "\\" /\ w[m + 1] = ":" /\ StaticSegment(From(w, m))
      BY <1>10, <2>4
    <3>2. m \in (k + 1)..e
      <4>1. ~(e < m)
        BY <1>1, <1>4, <2>1, <3>1
      <4>2. QED
        BY <1>1, <1>4, <3>1, <4>1
    <3>3. m = end
      <4>1. CASE CharAt(w, m) \in {End, "/"}
        <5>1. m = e
          <6>1. m = SegmentEnd(w, k + 1)
            <7>1. r \in Routers /\ r # "fiber" /\ w \in Seq(Alphabet[r]) /\ Len(w) <= Longest(r) /\ w[k] # "/"
              BY <1>1
            <7>2. QED
              BY <3>1, <4>1, <7>1, TextEnd
          <6>2. SegmentEnd(w, k + 1) = e
            BY <1>1, <2>1, <2>2, FirstOfBounds DEF SegmentEnd
          <6>3. QED
            BY <6>1, <6>2
        <5>2. \A n : ~Verb(p, k + 1, e, n)
          <6> SUFFICES ASSUME NEW n, Verb(p, k + 1, e, n) PROVE FALSE
            OBVIOUS
          <6>1. n \in (k + 1)..(e - 1) /\ p[n] = "\\"
            BY <1>6
          <6>2. w[n] = p[n]
            BY <1>1, <2>1, <6>1
          <6>3. QED
            BY <3>1, <5>1, <6>1, <6>2
        <5>3. QED
          BY <1>5, <5>1, <5>2
      <4>2. CASE m + 1 <= Len(w) /\ w[m] = "\\" /\ w[m + 1] = ":" /\ StaticSegment(From(w, m))
        <5>1. m # e /\ m + 1 # e
          BY <1>1, <2>1, <3>1, <4>2
        <5>2. m \in (k + 1)..(e - 1) /\ m + 1 <= e - 1
          BY <1>1, <1>4, <3>2, <5>1
        <5>3. p[m] = "\\" /\ p[m + 1] = ":"
          <6>1. m \in 1..Len(w) /\ m + 1 \in 1..Len(w)
            BY <1>1, <3>1, <4>2
          <6>2. p[m] = w[m] /\ p[m + 1] = w[m + 1]
            BY <1>2, <6>1
          <6>3. QED
            BY <4>2, <6>2
        <5>4. Static(p, m + 2, e) /\ EscapedColon(p, m)
          BY <2>3, <4>2, <5>2, <5>3
        <5>5. ASSUME NEW j \in (k + 1)..(m - 1) PROVE p[j] \notin {":", "*"} /\ ~EscapedColon(p, j)
          <6>1. w[j] \notin {":", "*", "\\"} /\ w[j] = p[j] /\ j \in Nat \ {0} /\ j <= Len(p)
            BY <1>1, <1>4, <2>1, <3>1, <3>2
          <6>2. CharAt(p, j) = p[j]
            BY <1>1, <6>1, CharIn
          <6>3. QED
            BY <6>1, <6>2 DEF EscapedColon
        <5>6. Verb(p, k + 1, e, m)
          BY <5>2, <5>4, <5>5 DEF Verb
        <5>7. QED
          BY <1>5, <5>6
      <4>3. QED
        BY <3>1, <4>1, <4>2
    <3>4. name = Part(w, k + 1, m)
      <4>1. Part(p, k + 1, m) = Part(w, k + 1, m)
        <5>1. Len(w) <= Len(p) /\ k + 1 \in 1..(Len(w) + 1) /\ m \in (k + 1)..(Len(w) + 1)
          BY <1>1, <2>1, <3>1
        <5>2. \A j \in 1..Len(w) : w[j] = p[j]
          BY <1>2
        <5>3. QED
          BY <5>1, <5>2, SamePart
      <4>2. QED
        BY <3>3, <4>1
    <3>5. QED
      BY <1>8, <3>1, <3>3, <3>4
  <2>5. CASE ~GoodName(name)
    <3>1. None(r, w, k)
      BY <2>4, <2>5 DEF None
    <3>2. QED
      BY <2>5, <3>1 DEF r
  <2>6. CASE GoodName(name)
    <3>1. end \in (k + 1)..(Len(w) + 1)
      BY <1>1, <1>4, <1>7, <2>1
    <3>2. name = Part(w, k + 1, end) /\ name \in Texts(r)
      <4>1. Part(p, k + 1, end) = Part(w, k + 1, end)
        <5>1. Len(w) <= Len(p) /\ k + 1 \in 1..(Len(w) + 1) /\ end \in (k + 1)..(Len(w) + 1)
          BY <1>1, <3>1
        <5>2. \A j \in 1..Len(w) : w[j] = p[j]
          BY <1>2
        <5>3. QED
          BY <5>1, <5>2, SamePart
      <4>2. QED
        BY <1>8, <2>6, <4>1
    <3>3. PlainParam(r, w, k, name, end)
      <4>1. CASE end = e
        <5>1. end \in Nat \ {0} /\ (end > Len(w) \/ (end <= Len(w) /\ w[end] = "/"))
          BY <1>1, <1>4, <2>1, <4>1
        <5>2. CharAt(w, end) \in {End, "/"}
          BY <1>1, <5>1, CharIn
        <5>3. QED
          BY <3>2, <5>2 DEF PlainParam, Spells
      <4>2. CASE Verb(p, k + 1, e, end)
        <5>1. end \in (k + 1)..(e - 1) /\ end + 1 <= e - 1 /\ p[end] = "\\" /\ p[end + 1] = ":" /\ Static(p, end + 2, e)
          BY <1>6, <4>2
        <5>2. StaticSegment(From(w, end)) /\ EscapedColon(From(w, end), 1)
          BY <2>3, <5>1
        <5>3. QED
          BY <3>2, <5>2 DEF PlainParam, Spells, r
      <4>3. QED
        BY <1>7, <4>1, <4>2
    <3>4. Token(r, w, k, Param(name), end)
      BY <1>1, <3>1, <3>2, <3>3, ParamToken
    <3>5. Only(r, w, k, Param(name), end)
      BY <2>4, <3>4 DEF Only
    <3>6. QED
      BY <2>6, <3>5 DEF r
  <2>7. QED
    BY <2>5, <2>6
<1>13. QED
  BY <1>11, <1>12

(***************************************************************************)
(* Fiber: constraints, whose end is scanned for and whose grammar says     *)
(* which of their backslashes escape something.                            *)
(***************************************************************************)

EndStep(p, f, j) ==
    IF j > Len(p) THEN 0
    ELSE IF p[j] = ">" THEN j
    ELSE IF p[j] = "\\" THEN f[j + 2] ELSE f[j + 1]

EndsFrom(p, k, f) == f = [j \in k..(Len(p) + 2) |-> EndStep(p, f, j)]

LEMMA EndsExist ==
    ASSUME NEW p, Len(p) \in Nat, NEW k \in 1..(Len(p) + 2)
    PROVE  \E f : EndsFrom(p, k, f)
<1> DEFINE top == Len(p) + 2
           bad == {d \in Nat : d < top /\ ~\E f : EndsFrom(p, top - d, f)}
<1>1. top \in Nat /\ top - k \in Nat /\ top - k < top /\ top - (top - k) = k
  OBVIOUS
<1> SUFFICES ASSUME bad # {} PROVE FALSE
  BY <1>1
<1>2. PICK b \in bad : \A d \in bad : b <= d
  BY LeastNumber
<1> DEFINE a == top - b
<1>3. b # 0
  <2> SUFFICES ASSUME b = 0 PROVE FALSE
    OBVIOUS
  <2> DEFINE f == [j \in top..top |-> 0]
  <2>1. top - b = top
    BY <1>1
  <2>2. f = [j \in top..(Len(p) + 2) |-> EndStep(p, f, j)]
    BY <1>1 DEF EndStep
  <2>3. EndsFrom(p, top - b, f)
    BY <2>1, <2>2 DEF EndsFrom
  <2>4. QED
    BY <1>2, <2>3
<1>4. b - 1 \in Nat /\ b - 1 \notin bad /\ b - 1 < top /\ top - (b - 1) = a + 1 /\ a \in Nat /\ a + 1 <= top
  BY <1>1, <1>2, <1>3
<1>5. PICK f : EndsFrom(p, a + 1, f)
  BY <1>4
<1> DEFINE g == [j \in a..top |-> IF j = a THEN EndStep(p, f, a) ELSE f[j]]
<1> HIDE DEF a
<1>6. ASSUME NEW j \in a..top PROVE g[j] = EndStep(p, g, j)
  <2>1. \A l \in (a + 1)..top : g[l] = f[l]
    BY <1>4
  <2>2. EndStep(p, g, j) = EndStep(p, f, j)
    <3>1. CASE j > Len(p)
      BY <3>1 DEF EndStep
    <3>2. CASE j <= Len(p)
      <4>1. j + 1 \in (a + 1)..top /\ j + 2 \in (a + 1)..top
        BY <1>4, <3>2
      <4>2. g[j + 1] = f[j + 1] /\ g[j + 2] = f[j + 2]
        BY <2>1, <4>1
      <4> HIDE DEF g
      <4>3. QED
        BY <4>2 DEF EndStep
    <3>3. QED
      BY <1>1, <1>4, <3>1, <3>2
  <2>3. g[j] = EndStep(p, f, j)
    <3>1. CASE j = a
      BY <3>1
    <3>2. CASE j # a
      <4>1. j \in (a + 1)..(Len(p) + 2)
        BY <1>4, <3>2
      <4>2. f[j] = EndStep(p, f, j)
        BY <1>5, <4>1 DEF EndsFrom
      <4>3. QED
        BY <3>2, <4>2
    <3>3. QED
      BY <3>1, <3>2
  <2>4. QED
    BY <2>2, <2>3
<1>7. EndsFrom(p, a, g)
  BY <1>6 DEF EndsFrom
<1>8. QED
  BY <1>2, <1>7 DEF a

LEMMA ConstraintEndEquation ==
    ASSUME NEW p, Len(p) \in Nat, NEW k \in 1..(Len(p) + 2)
    PROVE  \E f : /\ ConstraintEnd(p, k) = f[k]
                  /\ \A j \in k..(Len(p) + 2) : f[j] = EndStep(p, f, j)
<1> DEFINE end == CHOOSE f : f = [j \in k..(Len(p) + 2) |-> EndStep(p, f, j)]
<1>1. \E f : f = [j \in k..(Len(p) + 2) |-> EndStep(p, f, j)]
  BY EndsExist DEF EndsFrom
<1>2. end = [j \in k..(Len(p) + 2) |-> EndStep(p, end, j)]
  BY <1>1
<1>3. ConstraintEnd(p, k) = end[k]
  BY DEF ConstraintEnd, EndStep
<1> HIDE DEF end
<1>4. \A j \in k..(Len(p) + 2) : end[j] = EndStep(p, end, j)
  BY <1>2
<1>5. QED
  BY <1>3, <1>4

\* From a to before b, the positions in E hold backslashes that escape what follows them.
Brackets(p, a, b, E) ==
    /\ E \subseteq a..(b - 1)
    /\ \A m \in a..(b - 1) :
         IF m \in E THEN p[m] = "\\" /\ m + 1 \in (a..(b - 1)) \ E
         ELSE m - 1 \in E \/ p[m] \notin {">", "\\"}

\* What constraintEnd finds closes a bracket, and it finds what does.
LEMMA ConstraintFound ==
    ASSUME NEW T, NEW p \in Seq(T), NEW k \in 1..(Len(p) + 1), NEW close, close = ConstraintEnd(p, k)
    PROVE  /\ close # 0 => /\ close \in k..Len(p) /\ p[close] = ">"
                           /\ \E E : Brackets(p, k, close, E)
           /\ \A b \in k..Len(p) : \A E : p[b] = ">" /\ Brackets(p, k, b, E) => close = b
<1> DEFINE N == Len(p)
<1>1. N \in Nat /\ k \in Nat /\ k >= 1 /\ k <= N + 1 /\ k \in 1..(N + 2) /\ k \in k..(N + 2)
  OBVIOUS
<1>2. PICK f : close = f[k] /\ \A j \in k..(N + 2) : f[j] = EndStep(p, f, j)
  BY <1>1, ConstraintEndEquation
<1> HIDE DEF N
<1>3. \A j \in k..(N + 2) : /\ j > N => f[j] = 0
                            /\ j <= N /\ p[j] = ">" => f[j] = j
                            /\ j <= N /\ p[j] = "\\" => f[j] = f[j + 2]
                            /\ j <= N /\ p[j] \notin {">", "\\"} => f[j] = f[j + 1]
  <2> SUFFICES ASSUME NEW j \in k..(N + 2)
               PROVE  /\ j > N => f[j] = 0
                      /\ j <= N /\ p[j] = ">" => f[j] = j
                      /\ j <= N /\ p[j] = "\\" => f[j] = f[j + 2]
                      /\ j <= N /\ p[j] \notin {">", "\\"} => f[j] = f[j + 1]
    OBVIOUS
  <2>1. f[j] = IF j > N THEN 0 ELSE IF p[j] = ">" THEN j ELSE IF p[j] = "\\" THEN f[j + 2] ELSE f[j + 1]
    BY <1>2 DEF EndStep, N
  <2>2. j \in Int /\ ">" # "\\"
    BY <1>1
  <2>3. QED
    BY <1>1, <2>1, <2>2
<1> DEFINE Sound(j) == f[j] # 0 => /\ f[j] \in j..N /\ p[f[j]] = ">"
                                   /\ \E E : Brackets(p, j, f[j], E)
           worse == {d \in Nat : d <= N + 2 - k /\ ~Sound(N + 2 - d)}
<1>4. worse = {}
  <2> SUFFICES ASSUME worse # {} PROVE FALSE
    OBVIOUS
  <2>1. PICK d \in worse : \A x \in worse : d <= x
    BY LeastNumber
  <2> DEFINE j == N + 2 - d
  <2>2. j \in k..(N + 2) /\ d \in Nat /\ d <= N + 2 - k /\ ~Sound(j)
    BY <1>1, <2>1
  <2>3. \A l \in (j + 1)..(N + 2) : Sound(l)
    <3> SUFFICES ASSUME NEW l \in (j + 1)..(N + 2) PROVE Sound(l)
      OBVIOUS
    <3>1. N + 2 - l \in Nat /\ N + 2 - l < d /\ N + 2 - l <= N + 2 - k /\ N + 2 - (N + 2 - l) = l
      BY <1>1, <2>2
    <3> HIDE DEF Sound
    <3>2. N + 2 - l \notin worse
      BY <2>1, <2>2, <3>1
    <3>3. QED
      BY <3>1, <3>2
  <2> HIDE DEF j, worse
  <2>4. f[j] # 0 /\ j <= N /\ j \in Nat
    BY <1>1, <1>3, <2>2
  <2>5. CASE p[j] = ">"
    <3>1. f[j] = j
      BY <1>3, <2>2, <2>4, <2>5
    <3>2. Brackets(p, j, j, {})
      BY <2>4 DEF Brackets
    <3>3. QED
      BY <2>2, <2>4, <2>5, <3>1, <3>2
  <2>6. CASE p[j] = "\\"
    <3>1. f[j] = f[j + 2] /\ j + 2 \in (j + 1)..(N + 2)
      BY <1>1, <1>3, <2>2, <2>4, <2>6
    <3>2. Sound(j + 2)
      BY <2>3, <3>1
    <3>3. f[j] \in (j + 2)..N /\ p[f[j]] = ">" /\ \E E : Brackets(p, j + 2, f[j], E)
      BY <2>4, <3>1, <3>2
    <3>4. PICK E : Brackets(p, j + 2, f[j], E)
      BY <3>3
    <3>5. Brackets(p, j, f[j], E \cup {j})
      <4> DEFINE b == f[j]
      <4>1. b \in Int /\ b >= j + 2 /\ E \subseteq (j + 2)..(b - 1)
        BY <1>1, <2>4, <3>3, <3>4 DEF Brackets
      <4>2. \A m \in (j + 2)..(b - 1) :
              IF m \in E THEN p[m] = "\\" /\ m + 1 \in ((j + 2)..(b - 1)) \ E
              ELSE m - 1 \in E \/ p[m] \notin {">", "\\"}
        BY <3>4 DEF Brackets
      <4> HIDE DEF b
      <4> DEFINE F == E \cup {j}
      <4>3. F \subseteq j..(b - 1)
        BY <2>4, <4>1
      <4>4. ASSUME NEW m \in j..(b - 1)
            PROVE  IF m \in F THEN p[m] = "\\" /\ m + 1 \in (j..(b - 1)) \ F
                   ELSE m - 1 \in F \/ p[m] \notin {">", "\\"}
        <5>1. CASE m = j
          <6>1. j + 1 \notin F /\ j + 1 \in j..(b - 1)
            BY <2>4, <4>1
          <6>2. QED
            BY <2>6, <5>1, <6>1
        <5>2. CASE m = j + 1
          <6>1. m \notin F /\ m - 1 \in F
            BY <2>4, <4>1, <5>2
          <6>2. QED
            BY <6>1
        <5>3. CASE m >= j + 2
          <6>1. m \in (j + 2)..(b - 1) /\ m # j /\ m + 1 # j /\ m \in Int
            BY <2>4, <4>1, <5>3
          <6>2. CASE m \in E
            <7>1. p[m] = "\\" /\ m + 1 \in ((j + 2)..(b - 1)) \ E
              BY <4>2, <6>1, <6>2
            <7>2. m + 1 \in j..(b - 1)
              BY <2>4, <4>1, <7>1
            <7>3. QED
              BY <6>1, <6>2, <7>1, <7>2
          <6>3. CASE m \notin E
            BY <4>2, <6>1, <6>3
          <6>4. QED
            BY <6>2, <6>3
        <5>4. QED
          BY <2>4, <4>1, <5>1, <5>2, <5>3
      <4>5. QED
        BY <4>3, <4>4 DEF Brackets, b
    <3>6. f[j] \in j..N
      BY <1>1, <2>4, <3>3
    <3>7. QED
      BY <2>2, <3>3, <3>5, <3>6
  <2>7. CASE p[j] \notin {">", "\\"}
    <3>1. f[j] = f[j + 1] /\ j + 1 \in (j + 1)..(N + 2)
      BY <1>1, <1>3, <2>2, <2>4, <2>7
    <3>2. Sound(j + 1)
      BY <2>3, <3>1
    <3>3. f[j] \in (j + 1)..N /\ p[f[j]] = ">" /\ \E E : Brackets(p, j + 1, f[j], E)
      BY <2>4, <3>1, <3>2
    <3>4. PICK E : Brackets(p, j + 1, f[j], E)
      BY <3>3
    <3>5. Brackets(p, j, f[j], E)
      <4> DEFINE b == f[j]
      <4>1. b \in Int /\ b >= j + 1 /\ E \subseteq (j + 1)..(b - 1)
        BY <1>1, <2>4, <3>3, <3>4 DEF Brackets
      <4>2. \A m \in (j + 1)..(b - 1) :
              IF m \in E THEN p[m] = "\\" /\ m + 1 \in ((j + 1)..(b - 1)) \ E
              ELSE m - 1 \in E \/ p[m] \notin {">", "\\"}
        BY <3>4 DEF Brackets
      <4> HIDE DEF b
      <4>3. E \subseteq j..(b - 1)
        BY <2>4, <4>1
      <4>4. ASSUME NEW m \in j..(b - 1)
            PROVE  IF m \in E THEN p[m] = "\\" /\ m + 1 \in (j..(b - 1)) \ E
                   ELSE m - 1 \in E \/ p[m] \notin {">", "\\"}
        <5>1. CASE m = j
          <6>1. m \notin E
            BY <2>4, <4>1, <5>1
          <6>2. QED
            BY <2>7, <5>1, <6>1
        <5>2. CASE m # j
          <6>1. m \in (j + 1)..(b - 1) /\ m \in Int
            BY <2>4, <4>1, <5>2
          <6>2. CASE m \in E
            <7>1. p[m] = "\\" /\ m + 1 \in ((j + 1)..(b - 1)) \ E
              BY <4>2, <6>1, <6>2
            <7>2. m + 1 \in j..(b - 1)
              BY <2>4, <4>1, <7>1
            <7>3. QED
              BY <6>2, <7>1, <7>2
          <6>3. CASE m \notin E
            BY <4>2, <6>1, <6>3
          <6>4. QED
            BY <6>2, <6>3
        <5>3. QED
          BY <5>1, <5>2
      <4>5. QED
        BY <4>3, <4>4 DEF Brackets, b
    <3>6. f[j] \in j..N
      BY <1>1, <2>4, <3>3
    <3>7. QED
      BY <2>2, <3>3, <3>5, <3>6
  <2>8. QED
    BY <2>5, <2>6, <2>7
<1>5. Sound(k)
  <2>1. N + 2 - k \in Nat /\ N + 2 - (N + 2 - k) = k
    BY <1>1
  <2> HIDE DEF Sound
  <2>2. QED
    BY <1>4, <2>1
<1>6. ASSUME NEW b \in k..N, NEW E, p[b] = ">", Brackets(p, k, b, E) PROVE close = b
  <2> DEFINE off == {d \in Nat : d <= b - k /\ b - d - 1 \notin E /\ f[b - d] # b}
  <2>1. b \in Nat /\ b <= N /\ k <= b /\ E \subseteq k..(b - 1)
    BY <1>1, <1>6 DEF Brackets
  <2>2. \A m \in k..(b - 1) : IF m \in E THEN p[m] = "\\" /\ m + 1 \in (k..(b - 1)) \ E
                              ELSE m - 1 \in E \/ p[m] \notin {">", "\\"}
    BY <1>6 DEF Brackets
  <2>3. off = {}
    <3> SUFFICES ASSUME off # {} PROVE FALSE
      OBVIOUS
    <3>1. PICK d \in off : \A x \in off : d <= x
      BY LeastNumber
    <3> DEFINE j == b - d
    <3>2. /\ d \in Nat /\ d <= b - k /\ j \in k..b /\ j - 1 \notin E /\ f[j] # b /\ j \in k..(N + 2) /\ j <= N
          /\ j = b - d
      BY <1>1, <2>1, <3>1
    <3>3. ASSUME NEW l \in (j + 1)..b, l - 1 \notin E PROVE f[l] = b
      <4>1. b - l \in Nat /\ b - l < d /\ b - l <= b - k /\ b - (b - l) = l /\ b - (b - l) - 1 = l - 1
        BY <2>1, <3>2
      <4>2. b - l \notin off
        <5> HIDE DEF off
        <5>1. \A x \in off : d <= x
          BY <3>1
        <5>2. QED
          BY <3>2, <4>1, <5>1
      <4> DEFINE e == b - l
      <4>3. e \in Nat /\ e <= b - k /\ b - e = l /\ b - e - 1 = l - 1 /\ e \notin off
        BY <4>1, <4>2
      <4> HIDE DEF e
      <4>4. QED
        BY <3>3, <4>3
    <3> HIDE DEF j, off
    <3>4. j # b
      BY <1>3, <1>6, <3>2
    <3>5. j \in k..(b - 1)
      BY <2>1, <3>2, <3>4
    <3>6. CASE j \in E
      <4>1. p[j] = "\\" /\ j + 1 \in (k..(b - 1)) \ E
        BY <2>2, <3>5, <3>6
      <4>2. j + 2 \in (j + 1)..b /\ (j + 2) - 1 = j + 1
        BY <2>1, <3>5, <4>1
      <4>3. f[j + 2] = b
        BY <3>3, <4>1, <4>2
      <4>4. f[j] = f[j + 2]
        BY <1>3, <3>2, <4>1
      <4>5. QED
        BY <3>2, <4>3, <4>4
    <3>7. CASE j \notin E
      <4>1. p[j] \notin {">", "\\"}
        BY <2>2, <3>2, <3>5, <3>7
      <4>2. j + 1 \in (j + 1)..b /\ (j + 1) - 1 = j
        BY <2>1, <3>5
      <4>3. f[j + 1] = b
        BY <3>3, <3>7, <4>2
      <4>4. f[j] = f[j + 1]
        BY <1>3, <3>2, <4>1
      <4>5. QED
        BY <3>2, <4>3, <4>4
    <3>8. QED
      BY <3>6, <3>7
  <2>4. b - k \in Nat /\ b - (b - k) = k /\ b - (b - k) - 1 = k - 1 /\ k - 1 \notin E
    BY <1>1, <2>1
  <2>5. f[k] = b
    <3> DEFINE d == b - k
    <3>1. d \in Nat /\ d <= b - k /\ b - d = k /\ b - d - 1 = k - 1 /\ k - 1 \notin E
      BY <2>1, <2>4
    <3>3. d \notin off
      <4> HIDE DEF d, off
      <4>1. QED
        BY <2>3
    <3> HIDE DEF d
    <3>4. QED
      BY <3>1, <3>3
  <2>6. QED
    BY <1>2, <2>5
<1>7. QED
  BY <1>2, <1>5, <1>6 DEF N

\* The positions in E of a word hold backslashes that escape what follows them.
Escaping(w, E) ==
    \A k \in DOMAIN w :
        IF k \in E THEN w[k] = "\\" /\ k + 1 \in DOMAIN w \ E
        ELSE k - 1 \in E \/ w[k] \notin {">", "\\"}

\* The part of a path between brackets that match is a constraint, if short enough.
LEMMA ConstraintPart ==
    ASSUME NEW r \in Routers, NEW w \in Seq(Alphabet[r]), NEW k \in 1..(Len(w) + 1), NEW b \in k..(Len(w) + 1)
    PROVE  Part(w, k, b) \in Constraints(r) <=>
                b - k <= MaxLength[r] - 4 /\ \E E : Brackets(w, k, b, E)
<1> DEFINE v == Part(w, k, b)
<1>1. /\ Len(w) \in Nat /\ v \in Seq(Alphabet[r]) /\ Len(v) = b - k /\ MaxLength[r] \in Nat
      /\ \A j \in 1..(b - k) : v[j] = w[k + j - 1]
      /\ k \in Nat /\ k >= 1 /\ b \in Nat /\ k <= b
  <2>1. Len(w) \in Nat /\ MaxLength[r] \in Nat
    BY LongestType
  <2>2. v \in Seq(Alphabet[r]) /\ Len(v) = b - k /\ \A j \in 1..(b - k) : v[j] = w[k + j - 1]
    BY PartShape DEF Part
  <2>3. k \in Nat /\ k >= 1 /\ b \in Nat /\ k <= b
    BY <2>1
  <2> HIDE DEF v
  <2>4. QED
    BY <2>1, <2>2, <2>3
<1> HIDE DEF v
<1>2. DOMAIN v = 1..(b - k) /\ v \in [1..(b - k) -> Alphabet[r]]
  BY <1>1
<1>3. v \in Constraints(r) <=>
        /\ v \in UNION {[1..n -> Alphabet[r]] : n \in 0..(MaxLength[r] - 4)}
        /\ \E E \in SUBSET DOMAIN v : Escaping(v, E)
  BY DEF Constraints, Escaping
<1>4. v \in UNION {[1..n -> Alphabet[r]] : n \in 0..(MaxLength[r] - 4)} <=> b - k <= MaxLength[r] - 4
  <2>1. ASSUME NEW n \in 0..(MaxLength[r] - 4), v \in [1..n -> Alphabet[r]] PROVE b - k <= MaxLength[r] - 4
    <3>1. n \in Nat /\ Len(v) = n
      BY <1>1, <2>1
    <3>2. QED
      BY <1>1, <3>1
  <2>2. ASSUME b - k <= MaxLength[r] - 4
        PROVE  v \in UNION {[1..n -> Alphabet[r]] : n \in 0..(MaxLength[r] - 4)}
    <3> DEFINE l == b - k
    <3>1. l \in 0..(MaxLength[r] - 4) /\ v \in [1..l -> Alphabet[r]]
      BY <1>1, <1>2, <2>2
    <3> HIDE DEF l
    <3>2. QED
      BY <3>1
  <2>3. ASSUME v \in UNION {[1..n -> Alphabet[r]] : n \in 0..(MaxLength[r] - 4)}
        PROVE  b - k <= MaxLength[r] - 4
    <3>1. PICK n \in 0..(MaxLength[r] - 4) : v \in [1..n -> Alphabet[r]]
      BY <2>3
    <3>2. QED
      BY <2>1, <3>1
  <2>4. QED
    BY <2>2, <2>3
<1>5. k \in Nat /\ k >= 1 /\ b \in Nat /\ k <= b
  BY <1>1
<1>6. ASSUME NEW E \in SUBSET DOMAIN v, Escaping(v, E) PROVE \E F : Brackets(w, k, b, F)
  <2> DEFINE F == {m \in k..(b - 1) : m - k + 1 \in E}
  <2>1. ASSUME NEW m \in k..(b - 1)
        PROVE  IF m \in F THEN w[m] = "\\" /\ m + 1 \in (k..(b - 1)) \ F
               ELSE m - 1 \in F \/ w[m] \notin {">", "\\"}
    <3> DEFINE j == m - k + 1
    <3>1. j \in DOMAIN v /\ v[j] = w[m] /\ (m + 1) - k + 1 = j + 1 /\ (m - 1) - k + 1 = j - 1 /\ j \in Nat /\ j = m - k + 1
      <4>1. j \in 1..(b - k) /\ k + j - 1 = m /\ (m + 1) - k + 1 = j + 1 /\ (m - 1) - k + 1 = j - 1 /\ j \in Nat
        BY <1>1
      <4> HIDE DEF j
      <4>2. v[j] = w[k + j - 1] /\ j \in DOMAIN v
        BY <1>1, <1>2, <4>1
      <4>3. QED
        BY <4>1, <4>2 DEF j
    <3> HIDE DEF j
    <3>2. (m \in F <=> j \in E) /\ (m + 1 \in F => j + 1 \in E)
      BY <1>1, <3>1
    <3>3. j - 1 \in E => m - 1 \in F
      <4>1. j - 1 \in E => j - 1 \in 1..(b - k)
        BY <1>2
      <4>2. j - 1 \in 1..(b - k) => m - 1 \in k..(b - 1)
        BY <1>1, <3>1
      <4>3. QED
        BY <3>1, <4>1, <4>2
    <3>4. j + 1 \in DOMAIN v => m + 1 \in k..(b - 1)
      BY <1>1, <1>2, <3>1
    <3>5. IF j \in E THEN v[j] = "\\" /\ j + 1 \in DOMAIN v \ E ELSE j - 1 \in E \/ v[j] \notin {">", "\\"}
      BY <1>6, <3>1 DEF Escaping
    <3> HIDE DEF F
    <3>6. QED
      BY <3>1, <3>2, <3>3, <3>4, <3>5
  <2>2. F \subseteq k..(b - 1)
    OBVIOUS
  <2> HIDE DEF F
  <2>3. Brackets(w, k, b, F)
    BY <2>1, <2>2 DEF Brackets
  <2>4. QED
    BY <2>3
<1>7. ASSUME NEW F, Brackets(w, k, b, F) PROVE \E E \in SUBSET DOMAIN v : Escaping(v, E)
  <2> DEFINE E == {j \in 1..(b - k) : j + k - 1 \in F}
  <2>1. F \subseteq k..(b - 1) /\ \A m \in k..(b - 1) :
            IF m \in F THEN w[m] = "\\" /\ m + 1 \in (k..(b - 1)) \ F
            ELSE m - 1 \in F \/ w[m] \notin {">", "\\"}
    BY <1>7 DEF Brackets
  <2>2. ASSUME NEW j \in DOMAIN v
        PROVE  IF j \in E THEN v[j] = "\\" /\ j + 1 \in DOMAIN v \ E ELSE j - 1 \in E \/ v[j] \notin {">", "\\"}
    <3> DEFINE m == j + k - 1
    <3>1. j \in 1..(b - k) /\ j \in Nat /\ j >= 1 /\ j <= b - k
      <4>1. j \in 1..(b - k)
        BY <1>2
      <4>2. QED
        BY <1>1, <4>1
    <3> HIDE DEF E
    <3>2. m \in k..(b - 1) /\ v[j] = w[m] /\ (j + 1) + k - 1 = m + 1 /\ (j - 1) + k - 1 = m - 1 /\ m \in Nat /\ m = j + k - 1
      <4>1. m \in k..(b - 1) /\ k + j - 1 = m /\ (j + 1) + k - 1 = m + 1 /\ (j - 1) + k - 1 = m - 1 /\ m \in Nat
        BY <1>5, <3>1
      <4>2. v[j] = w[k + j - 1]
        BY <1>1, <3>1
      <4>3. QED
        BY <4>1, <4>2
    <3>3. m \in Int /\ m = j + k - 1
      BY <3>2
    <3> HIDE DEF m
    <3>4. (j \in E <=> m \in F) /\ (j + 1 \in E => m + 1 \in F)
      BY <3>1, <3>2 DEF E
    <3>5. m - 1 \in F => j - 1 \in E
      <4>1. m - 1 \in F => m - 1 \in k..(b - 1)
        BY <2>1
      <4>2. m - 1 \in k..(b - 1) => j - 1 \in 1..(b - k)
        <5>1. j \in Int /\ k \in Int /\ b \in Int /\ m = j + k - 1 /\ j <= b - k
          BY <1>5, <3>1, <3>3
        <5>2. QED
          BY <5>1
      <4>3. QED
        BY <3>2, <4>1, <4>2 DEF E
    <3>6. m + 1 \in k..(b - 1) => j + 1 \in DOMAIN v
      <4>1. m + 1 \in k..(b - 1) => j + 1 \in 1..(b - k)
        BY <1>5, <3>1, <3>3
      <4>2. QED
        BY <1>2, <4>1
    <3>7. IF m \in F THEN w[m] = "\\" /\ m + 1 \in (k..(b - 1)) \ F ELSE m - 1 \in F \/ w[m] \notin {">", "\\"}
      BY <2>1, <3>2
    <3>8. QED
      BY <3>2, <3>4, <3>5, <3>6, <3>7
  <2>3. E \in SUBSET DOMAIN v
    BY <1>2
  <2> HIDE DEF E
  <2>4. Escaping(v, E)
    BY <2>2 DEF Escaping
  <2>5. QED
    BY <2>3, <2>4
<1>8. QED
  BY <1>3, <1>4, <1>6, <1>7 DEF v

\* A parameter has a letter after its colon.
LEMMA ParamLetter ==
    ASSUME NEW r \in Routers, NEW w \in Seq(Alphabet[r]), Len(w) <= Longest(r), NEW k \in 1..Len(w), NEW m,
           ParamEnd(r, w, k, m)
    PROVE  w[k] = ":" /\ CharAt(w, k + 1) # ":"
<1>1. Len(w) \in Nat /\ End \notin Alphabet[r] /\ k + 1 \in 2..(Len(w) + 1) /\ k + 1 \in Nat \ {0}
  BY PathsAssumption
<1>2. PICK t \in Texts(r) : /\ m \in (k + 1)..(Len(w) + 1) /\ w[k] = ":"
                            /\ PlainParam(r, w, k, t, m) \/ \E l : BoundParam(r, w, k, t, l, m)
  BY DEF ParamEnd
<1>3. \E n \in (k + 1)..(Len(w) + 1) : Spells(w, k + 1, n, t)
  <2>1. CASE PlainParam(r, w, k, t, m)
    BY <1>2, <2>1 DEF PlainParam
  <2>2. ASSUME NEW l, BoundParam(r, w, k, t, l, m) PROVE \E n \in (k + 1)..(Len(w) + 1) : Spells(w, k + 1, n, t)
    <3>1. l \in (k + 1)..(m - 2) /\ Spells(w, k + 1, l, t)
      BY <2>2 DEF BoundParam
    <3>2. l \in (k + 1)..(Len(w) + 1)
      BY <1>1, <1>2, <3>1
    <3>3. QED
      BY <3>1, <3>2
  <2>3. QED
    BY <1>2, <2>1, <2>2
<1>4. PICK n \in (k + 1)..(Len(w) + 1) : Spells(w, k + 1, n, t)
  BY <1>3
<1>5. Part(w, k + 1, n) \in Texts(r)
  BY <1>4 DEF Spells
<1>6. n > k + 1 /\ \A j \in (k + 1)..(n - 1) : w[j] \in Letters(r)
  BY <1>1, <1>5, TextPart
<1>7. k + 1 \in (k + 1)..(n - 1) /\ k + 1 <= Len(w)
  BY <1>1, <1>6
<1>8. w[k + 1] \in Letters(r)
  BY <1>6, <1>7
<1>9. CharAt(w, k + 1) = w[k + 1]
  BY <1>1, <1>7, CharIn
<1>10. QED
  BY <1>2, <1>8, <1>9, CharsType

\* One turn of Fiber's translator, at a character that starts no parameter.
LEMMA FiberText ==
    ASSUME "fiber" \in Routers, NEW w \in Seq(Alphabet["fiber"]), Len(w) <= Longest("fiber"), NEW k \in 1..Len(w)
    PROVE  LET c == w[k]
               next == CharAt(w, k + 1)
           IN  /\ c = "\\" /\ next \in {End} \cup Braces => None("fiber", w, k)
               /\ c = "\\" /\ next \notin {End} \cup Braces => Only("fiber", w, k, Literal(w[k + 1]), k + 2)
               /\ c = ":" /\ next = ":" => Only("fiber", w, k, Literal(":"), k + 1)
               /\ c \in {"*", "+"} => Only("fiber", w, k, CatchAll(<<c>>), k + 1)
               /\ c \in Braces => None("fiber", w, k)
               /\ c \notin {"\\", ":", "*", "+"} \cup Braces => Only("fiber", w, k, Literal(c), k + 1)
<1> DEFINE r == "fiber"
           c == w[k]
           next == CharAt(w, k + 1)
<1>1. Len(w) \in Nat /\ End \notin Alphabet[r] /\ c \in Alphabet[r] /\ r # "echo" /\ r # "gin" /\ r \in Routers
      /\ w \in Seq(Alphabet[r]) /\ Len(w) <= Longest(r) /\ r = "fiber"
  BY PathsAssumption
<1>2. /\ k + 1 <= Len(w) => next = w[k + 1] /\ w[k + 1] \in Alphabet[r]
      /\ k + 1 > Len(w) => next = End
  BY <1>1, CharIn
<1>3. \A d \in {"\\", ":", "*", "+"} : d \notin Braces /\ d # End
  BY BracesApart
<1>4. k + 1 \in (k + 1)..(Len(w) + 1) /\ k + 1 # k + 2 /\ (next # End => k + 1 <= Len(w))
  BY <1>1, <1>2
<1> HIDE DEF r
<1>5. ASSUME NEW q, NEW m, Token(r, w, k, q, m), ~(c = ":" /\ next # ":")
      PROVE  \/ m = k + 1 /\ c \notin {"\\"} \cup Braces
             \/ m = k + 2 /\ c = "\\" /\ next \notin {End} \cup Braces
  <2>1. LiteralEnd(r, w, k, m) \/ ParamEnd(r, w, k, m) \/ RestEnd(r, w, k, m)
    BY <1>1, <1>5, TokenEnds
  <2>2. ~ParamEnd(r, w, k, m)
    BY <1>1, <1>5, ParamLetter
  <2>3. CASE LiteralEnd(r, w, k, m)
    <3>1. PICK d \in Alphabet[r] : LiteralAt(r, w, k, d, m)
      BY <2>3 DEF LiteralEnd
    <3>2. d # End
      BY <1>1, <3>1
    <3>3. QED
      BY <1>1, <3>1, <3>2 DEF LiteralAt
  <2>4. CASE RestEnd(r, w, k, m)
    BY <1>1, <1>3, <2>4 DEF RestEnd
  <2>5. QED
    BY <2>1, <2>2, <2>3, <2>4
<1>6. ASSUME c = "\\", next \in {End} \cup Braces PROVE None(r, w, k)
  BY <1>3, <1>5, <1>6 DEF None
<1>7. ASSUME c = "\\", next \notin {End} \cup Braces PROVE Only(r, w, k, Literal(w[k + 1]), k + 2)
  <2>1. next = w[k + 1] /\ w[k + 1] \in Alphabet[r]
    BY <1>1, <1>2, <1>4, <1>7
  <2>2. LiteralAt(r, w, k, w[k + 1], k + 2)
    BY <1>1, <1>7, <2>1 DEF LiteralAt
  <2>3. Token(r, w, k, Literal(w[k + 1]), k + 2)
    BY <1>1, <2>1, <2>2, LiteralToken
  <2>4. \A q, m : Token(r, w, k, q, m) => m = k + 2
    BY <1>5, <1>7
  <2>5. QED
    BY <2>3, <2>4 DEF Only
<1>8. ASSUME c = ":", next = ":" PROVE Only(r, w, k, Literal(":"), k + 1)
  <2>1. LiteralAt(r, w, k, ":", k + 1)
    BY <1>1, <1>3, <1>8 DEF LiteralAt
  <2>2. Token(r, w, k, Literal(":"), k + 1)
    BY <1>1, <1>8, <2>1, LiteralToken
  <2>3. \A q, m : Token(r, w, k, q, m) => m = k + 1
    BY <1>5, <1>8
  <2>4. QED
    BY <2>2, <2>3 DEF Only
<1>9. ASSUME c \in {"*", "+"} PROVE Only(r, w, k, CatchAll(<<c>>), k + 1)
  <2>1. CatchAll(<<c>>) \in Pieces(r)
    BY <1>1, <1>9, PieceKinds
  <2>2. Token(r, w, k, CatchAll(<<c>>), k + 1)
    BY <1>1, <2>1, RestToken
  <2>3. \A q, m : Token(r, w, k, q, m) => m = k + 1
    BY <1>5, <1>9
  <2>4. QED
    BY <2>2, <2>3 DEF Only
<1>10. ASSUME c \in Braces PROVE None(r, w, k)
  BY <1>3, <1>5, <1>10 DEF None
<1>11. ASSUME c \notin {"\\", ":", "*", "+"} \cup Braces PROVE Only(r, w, k, Literal(c), k + 1)
  <2>1. LiteralAt(r, w, k, c, k + 1)
    BY <1>1, <1>11 DEF LiteralAt
  <2>2. Token(r, w, k, Literal(c), k + 1)
    BY <1>1, <2>1, LiteralToken
  <2>3. \A q, m : Token(r, w, k, q, m) => m = k + 1
    BY <1>5, <1>11
  <2>4. QED
    BY <2>2, <2>3 DEF Only
<1>12. QED
  BY <1>6, <1>7, <1>8, <1>9, <1>10, <1>11 DEF r

\* What may come after a name, or after the constraint of one.
Followers == {End, "/", "-", ".", "\\"}

\* A name with a constraint in brackets behind it is the token of a parameter.
LEMMA BracketsToken ==
    ASSUME "fiber" \in Routers, NEW w \in Seq(Alphabet["fiber"]), Len(w) <= MaxLength["fiber"],
           NEW k \in 1..Len(w), w[k] = ":",
           NEW open \in (k + 2)..Len(w), w[open] = "<", Part(w, k + 1, open) \in Texts("fiber"),
           NEW close \in (open + 1)..Len(w), w[close] = ">", \E E : Brackets(w, open + 1, close, E),
           CharAt(w, close + 1) \in Followers
    PROVE  Token("fiber", w, k, Param(Part(w, k + 1, open)), close + 1)
<1> DEFINE r == "fiber"
<1>1. r \in Routers /\ r = "fiber" /\ w \in Seq(Alphabet[r]) /\ MaxLength[r] \in Nat /\ Part(w, k + 1, open) \in Texts(r)
  BY PathsAssumption
<1>2. Len(w) \in Nat /\ k \in Nat /\ open \in Nat /\ close \in Nat
  OBVIOUS
<1>3. k >= 1 /\ open >= k + 2 /\ close >= open + 1 /\ close <= Len(w) /\ Len(w) <= MaxLength[r]
  BY <1>2
<1> HIDE DEF r
\* Room for the colon, a letter and the two brackets.
<1>4. close - (open + 1) <= MaxLength[r] - 4
  BY <1>1, <1>2, <1>3
<1>5. open + 1 \in 1..(Len(w) + 1) /\ close \in (open + 1)..(Len(w) + 1)
  BY <1>2, <1>3
<1>6. close + 1 \in (k + 1)..(Len(w) + 1) /\ open \in (k + 1)..((close + 1) - 2) /\ (close + 1) - 1 = close
  BY <1>2, <1>3
<1>7. Part(w, open + 1, close) \in Constraints(r)
  BY <1>1, <1>4, <1>5, ConstraintPart
<1>8. BoundParam(r, w, k, Part(w, k + 1, open), open, close + 1)
  BY <1>1, <1>6, <1>7 DEF BoundParam, Spells, Followers
<1>9. Token(r, w, k, Param(Part(w, k + 1, open)), close + 1)
  BY <1>1, <1>6, <1>8, ParamToken
<1>10. QED
  BY <1>9 DEF r

\* One turn of Fiber's translator, at a parameter.
LEMMA FiberName ==
    ASSUME "fiber" \in Routers, NEW w \in Seq(Alphabet["fiber"]), Len(w) <= Longest("fiber"),
           NEW k \in 1..Len(w), w[k] = ":", CharAt(w, k + 1) # ":",
           NEW nameEnd, nameEnd = FirstOf(w, k + 1, NameEnds), NEW name, name = Part(w, k + 1, nameEnd),
           NEW constrained, constrained = (CharAt(w, nameEnd) = "<"),
           NEW close, close = IF constrained THEN ConstraintEnd(w, nameEnd + 1) ELSE nameEnd,
           NEW end, end = IF constrained THEN close + 1 ELSE nameEnd
    PROVE  IF name = <<>> \/ close = 0 \/ ~Follower(CharAt(w, end), constrained) THEN None("fiber", w, k)
           ELSE Only("fiber", w, k, Param(name), end)
<1> DEFINE r == "fiber"
           after == CharAt(w, nameEnd)
<1>1. Len(w) \in Nat /\ End \notin Alphabet[r] /\ r # "echo" /\ r # "gin" /\ r \in Routers /\ r = "fiber"
      /\ k \in Nat /\ k >= 1 /\ k + 1 \in 1..(Len(w) + 1) /\ k + 1 \in 2..(Len(w) + 1)
  BY PathsAssumption
<1>2. w \in Seq(Alphabet[r]) /\ Len(w) <= Longest(r) /\ Longest(r) = MaxLength[r] /\ MaxLength[r] \in Nat
  <2>1. MaxLength[r] \in Nat /\ Longest(r) = MaxLength[r]
    BY <1>1, PathsAssumption DEF Longest
  <2>2. QED
    BY <2>1
<1> HIDE DEF r
<1>3. Bounds(w, k + 1, NameEnds, nameEnd) /\ \A n : Bounds(w, k + 1, NameEnds, n) => n = nameEnd
  BY <1>1, FirstOfBounds
<1>4. /\ nameEnd \in (k + 1)..(Len(w) + 1) /\ nameEnd \in Nat \ {0}
      /\ nameEnd = Len(w) + 1 \/ w[nameEnd] \in NameEnds
      /\ \A j \in (k + 1)..(nameEnd - 1) : w[j] \notin NameEnds
  BY <1>1, <1>3 DEF Bounds
<1>5. (name # <<>> <=> nameEnd > k + 1) /\ (name # <<>> => name \in Texts(r))
  <2>1. name \in Seq(Alphabet[r]) /\ Len(name) = nameEnd - (k + 1)
    <3>1. w \in Seq(Alphabet[r]) /\ k + 1 \in 1..(Len(w) + 1) /\ nameEnd \in (k + 1)..(Len(w) + 1)
      BY <1>1, <1>2, <1>4
    <3>2. Part(w, k + 1, nameEnd) \in Seq(Alphabet[r]) /\ Len(Part(w, k + 1, nameEnd)) = nameEnd - (k + 1)
      BY <3>1, PartShape DEF Part
    <3>3. QED
      BY <3>2
  <2>2. \A j \in (k + 1)..(nameEnd - 1) : w[j] \in Letters(r)
    <3> TAKE j \in (k + 1)..(nameEnd - 1)
    <3>1. j \in 1..Len(w)
      BY <1>1, <1>4
    <3>2. w[j] \in Alphabet[r] /\ w[j] \notin NameEnds
      BY <1>2, <1>4, <3>1
    <3>3. QED
      BY <1>1, <3>2 DEF Letters
  <2>3. name \in Texts(r) <=> nameEnd > k + 1 /\ \A j \in (k + 1)..(nameEnd - 1) : w[j] \in Letters(r)
    BY <1>1, <1>2, <1>4, TextPart
  <2>4. name # <<>> <=> Len(name) # 0
    BY <2>1
  <2>5. QED
    BY <1>1, <1>4, <2>1, <2>2, <2>3, <2>4
<1>6. ASSUME NEW l \in (k + 1)..(Len(w) + 1), Part(w, k + 1, l) \in Texts(r), CharAt(w, l) \in Followers \cup {"<"}
      PROVE  l = nameEnd /\ name # <<>>
  <2>1. l > k + 1 /\ \A j \in (k + 1)..(l - 1) : w[j] \in Letters(r)
    BY <1>1, <1>2, <1>6, TextPart
  <2>2. \A j \in (k + 1)..(l - 1) : w[j] \notin NameEnds
    BY <1>1, <2>1, CharsType
  <2>3. l \in Nat \ {0} /\ l <= Len(w) + 1
    BY <1>1, <1>6
  <2>4. l = Len(w) + 1 \/ w[l] \in NameEnds
    <3>1. CASE l > Len(w)
      BY <1>1, <2>3, <3>1
    <3>2. CASE l <= Len(w)
      <4>1. CharAt(w, l) = w[l] /\ w[l] # End
        BY <1>1, <1>2, <2>3, <3>2, CharIn
      <4>2. QED
        BY <1>6, <4>1 DEF Followers, NameEnds
    <3>3. QED
      BY <1>1, <2>3, <3>1, <3>2
  <2>5. Bounds(w, k + 1, NameEnds, l)
    BY <1>6, <2>2, <2>4 DEF Bounds
  <2>6. QED
    BY <1>3, <1>5, <2>1, <2>5
<1>7. after \in NameEnds \cup {End}
  <2>1. nameEnd <= Len(w) \/ nameEnd > Len(w)
    BY <1>1, <1>4
  <2>2. QED
    BY <1>1, <1>2, <1>4, <2>1, CharIn
<1>8. \A c : Follower(c, TRUE) <=> c \in Followers
  BY BracesApart DEF Follower, Followers
<1>9. after # "<" => (Follower(after, FALSE) <=> after \in Followers)
  BY <1>7, BracesApart DEF Follower, Followers, NameEnds
<1> HIDE DEF after
<1>10. constrained \in BOOLEAN /\ (constrained <=> after = "<")
  BY DEF after
<1>11. ASSUME NEW q, NEW m, Token(r, w, k, q, m)
       PROVE  name # <<>> /\ close # 0 /\ m = end /\ Follower(CharAt(w, end), constrained)
  <2>1. LiteralEnd(r, w, k, m) \/ ParamEnd(r, w, k, m) \/ RestEnd(r, w, k, m)
    BY <1>1, <1>2, <1>11, TokenEnds
  <2>2. ~LiteralEnd(r, w, k, m) /\ ~RestEnd(r, w, k, m)
    <3>1. ASSUME NEW c, LiteralAt(r, w, k, c, m) PROVE FALSE
      <4>1. CASE m = k + 1 /\ w[k] = c /\ (c = ":" => CharAt(w, m) = ":")
        BY <4>1
      <4>2. QED
        BY <3>1, <4>1 DEF LiteralAt
    <3>2. QED
      BY <1>1, <3>1 DEF LiteralEnd, RestEnd
  <2>3. PICK t \in Texts(r) : /\ m \in (k + 1)..(Len(w) + 1) /\ w[k] = ":"
                              /\ PlainParam(r, w, k, t, m) \/ \E l : BoundParam(r, w, k, t, l, m)
    BY <2>1, <2>2 DEF ParamEnd
  <2>4. CASE PlainParam(r, w, k, t, m)
    <3>1. Part(w, k + 1, m) \in Texts(r) /\ CharAt(w, m) \in Followers
      BY <1>1, <2>4 DEF PlainParam, Spells, Followers
    <3>2. m = nameEnd /\ name # <<>>
      BY <1>6, <2>3, <3>1
    <3>3. after \in Followers /\ after # "<"
      <4>1. after = CharAt(w, m)
        BY <3>2 DEF after
      <4>2. "<" \notin Followers
        BY BracesApart DEF Followers
      <4>3. QED
        BY <3>1, <4>1, <4>2
    <3>4. constrained = FALSE /\ close = nameEnd /\ end = nameEnd
      BY <1>10, <3>3
    <3>5. CharAt(w, end) = after
      BY <3>4 DEF after
    <3>6. Follower(CharAt(w, end), constrained)
      BY <1>9, <3>3, <3>4, <3>5
    <3>7. QED
      BY <1>4, <3>2, <3>4, <3>6
  <2>5. ASSUME NEW l, BoundParam(r, w, k, t, l, m)
        PROVE  name # <<>> /\ close # 0 /\ m = end /\ Follower(CharAt(w, end), constrained)
    <3>1. /\ l \in (k + 1)..(m - 2) /\ Part(w, k + 1, l) \in Texts(r) /\ w[l] = "<"
          /\ Part(w, l + 1, m - 1) \in Constraints(r) /\ w[m - 1] = ">" /\ CharAt(w, m) \in Followers
      BY <2>5 DEF BoundParam, Spells, Followers
    <3>2. /\ l \in (k + 1)..(Len(w) + 1) /\ l \in Nat \ {0} /\ l <= Len(w)
          /\ l + 1 \in 1..(Len(w) + 1) /\ m - 1 \in (l + 1)..(Len(w) + 1) /\ m - 1 \in (l + 1)..Len(w)
          /\ m \in Nat /\ m - 1 # 0 /\ (m - 1) + 1 = m
      BY <1>1, <2>3, <3>1
    <3>3. CharAt(w, l) = "<"
      BY <1>1, <1>2, <3>1, <3>2, CharIn
    <3>4. l = nameEnd /\ name # <<>>
      BY <1>6, <3>1, <3>2, <3>3
    <3>5. constrained = TRUE
      BY <1>10, <3>3, <3>4 DEF after
    <3>6. PICK E : Brackets(w, l + 1, m - 1, E)
      BY <1>1, <1>2, <3>1, <3>2, ConstraintPart
    <3>7. close = ConstraintEnd(w, l + 1)
      BY <3>4, <3>5
    <3>8. close = m - 1
      <4>1. m - 1 \in (l + 1)..Len(w) /\ l + 1 \in 1..(Len(w) + 1) /\ w[m - 1] = ">"
        BY <3>1, <3>2
      <4>2. \A b \in (l + 1)..Len(w) : \A F : w[b] = ">" /\ Brackets(w, l + 1, b, F) => close = b
        BY <1>2, <3>7, <4>1, ConstraintFound
      <4>3. QED
        BY <3>6, <4>1, <4>2
    <3>9. end = m
      BY <3>2, <3>5, <3>8
    <3>10. Follower(CharAt(w, end), constrained)
      BY <1>8, <3>1, <3>5, <3>9
    <3>11. QED
      BY <3>2, <3>4, <3>8, <3>9, <3>10
  <2>6. QED
    BY <2>3, <2>4, <2>5
<1>12. ASSUME name # <<>>, close # 0, Follower(CharAt(w, end), constrained)
       PROVE  Token(r, w, k, Param(name), end)
  <2>1. name \in Texts(r) /\ nameEnd > k + 1
    BY <1>5, <1>12
  <2>2. CASE constrained = FALSE
    <3>1. end = nameEnd /\ CharAt(w, end) = after /\ after # "<"
      BY <1>10, <2>2 DEF after
    <3>2. after \in Followers
      BY <1>9, <1>12, <2>2, <3>1
    <3>3. PlainParam(r, w, k, name, nameEnd)
      BY <1>1, <3>1, <3>2 DEF PlainParam, Spells, Followers
    <3>4. QED
      BY <1>1, <1>2, <1>4, <2>1, <3>1, <3>3, ParamToken
  <2>3. CASE constrained = TRUE
    <3>1. close = ConstraintEnd(w, nameEnd + 1) /\ end = close + 1 /\ after = "<"
      BY <1>10, <2>3
    <3>2. nameEnd <= Len(w) /\ w[nameEnd] = "<"
      <4>1. nameEnd > Len(w) => after = End
        BY <1>1, <1>2, <1>4, CharIn DEF after
      <4>2. nameEnd <= Len(w) => after = w[nameEnd]
        BY <1>1, <1>2, <1>4, CharIn DEF after
      <4>3. "<" # End
        BY BracesApart
      <4>4. QED
        BY <1>1, <1>4, <3>1, <4>1, <4>2, <4>3
    <3>3. nameEnd + 1 \in 1..(Len(w) + 1)
      BY <1>1, <1>4, <3>2
    <3>4. close \in (nameEnd + 1)..Len(w) /\ w[close] = ">" /\ \E E : Brackets(w, nameEnd + 1, close, E)
      BY <1>2, <1>12, <3>1, <3>3, ConstraintFound
    <3>5. nameEnd \in (k + 2)..Len(w)
      BY <1>1, <1>4, <2>1, <3>2
    <3>6. CharAt(w, close + 1) \in Followers
      BY <1>8, <1>12, <2>3, <3>1
    <3>7. Token(r, w, k, Param(name), close + 1)
      BY <1>1, <1>2, <2>1, <3>2, <3>4, <3>5, <3>6, BracketsToken
    <3>8. QED
      BY <3>1, <3>7
  <2>4. QED
    BY <1>10, <2>2, <2>3
<1>13. CASE name = <<>> \/ close = 0 \/ ~Follower(CharAt(w, end), constrained)
  <2>1. None(r, w, k)
    BY <1>11, <1>13 DEF None
  <2>2. QED
    BY <1>13, <2>1 DEF r
<1>14. CASE ~(name = <<>> \/ close = 0 \/ ~Follower(CharAt(w, end), constrained))
  <2>1. Only(r, w, k, Param(name), end)
    BY <1>11, <1>12, <1>14 DEF Only
  <2>2. QED
    BY <1>14, <2>1 DEF r
<1>15. QED
  BY <1>13, <1>14

(***************************************************************************)
(* The states of the translators.                                          *)
(***************************************************************************)

\* A piece as the grammar has it.
PlainPiece(r, p) == IF r = "fiber" /\ p.is = "rest" THEN CatchAll(<<Head(p.text)>>) ELSE p

\* What a translator appends: Fiber's wildcards have numbers.
Emitted(r) ==
    IF r = "fiber"
    THEN {p \in Pieces(r) : p.is # "rest"} \cup {CatchAll(<<c, n>>) : c \in {"*", "+"} \cap Alphabet[r], n \in Nat}
    ELSE Pieces(r)

\* What is left to be read.
Rest == From(Read, i)

\* Echo does not stop between its wildcard and the end of the path.
TypeInv ==
    /\ router \in Routers /\ path \in Seq(Alphabet[router]) /\ Len(path) <= Longest(router)
    /\ i \in 1..(Len(path) + 1) /\ failed \in BOOLEAN /\ pieces \in Seq(Emitted(router))
    /\ router = "echo" /\ ~failed => i = Len(path) + 1 \/ i <= Len(Read)

LEMMA PlainKinds ==
    ASSUME NEW r \in Routers
    PROVE  /\ \A p \in Emitted(r) : PlainPiece(r, p) \in Pieces(r)
           /\ \A p \in Pieces(r) : r # "fiber" \/ p.is # "rest" => p \in Emitted(r) /\ PlainPiece(r, p) = p
           /\ r = "fiber" => \A c \in {"*", "+"} \cap Alphabet[r] : \A n \in Nat :
                /\ CatchAll(<<c, n>>) \in Emitted(r)
                /\ PlainPiece(r, CatchAll(<<c, n>>)) = CatchAll(<<c>>)
<1>1. ASSUME NEW c, NEW n PROVE CatchAll(<<c, n>>).is = "rest" /\ Head(CatchAll(<<c, n>>).text) = c
  BY DEF CatchAll
<1>2. ASSUME NEW c, NEW n, r = "fiber" PROVE PlainPiece(r, CatchAll(<<c, n>>)) = CatchAll(<<c>>)
  BY <1>1, <1>2 DEF PlainPiece
<1>3. ASSUME r = "fiber", NEW c \in {"*", "+"} \cap Alphabet[r] PROVE CatchAll(<<c>>) \in Pieces(r)
  BY <1>3, PieceKinds
<1>4. \A p \in Pieces(r) : r # "fiber" \/ p.is # "rest" => p \in Emitted(r) /\ PlainPiece(r, p) = p
  BY DEF Emitted, PlainPiece
<1>5. ASSUME NEW p \in Emitted(r) PROVE PlainPiece(r, p) \in Pieces(r)
  <2>1. CASE r # "fiber"
    BY <1>5, <2>1 DEF Emitted, PlainPiece
  <2>2. CASE r = "fiber" /\ p \in Pieces(r) /\ p.is # "rest"
    BY <2>2 DEF PlainPiece
  <2>3. CASE r = "fiber" /\ \E c \in {"*", "+"} \cap Alphabet[r] : \E n \in Nat : p = CatchAll(<<c, n>>)
    <3>1. PICK c \in {"*", "+"} \cap Alphabet[r] : \E n \in Nat : p = CatchAll(<<c, n>>)
      BY <2>3
    <3>2. PICK n \in Nat : p = CatchAll(<<c, n>>)
      BY <3>1
    <3>3. PlainPiece(r, p) = CatchAll(<<c>>)
      BY <1>2, <2>3, <3>2
    <3>4. QED
      BY <1>3, <2>3, <3>3
  <2>4. QED
    BY <1>5, <2>1, <2>2, <2>3 DEF Emitted
<1>6. ASSUME r = "fiber", NEW c \in {"*", "+"} \cap Alphabet[r], NEW n \in Nat PROVE CatchAll(<<c, n>>) \in Emitted(r)
  BY <1>6 DEF Emitted
<1>7. QED
  BY <1>2, <1>4, <1>5, <1>6

PlainOf(r, ps) == [k \in DOMAIN ps |-> PlainPiece(r, ps[k])]

LEMMA PlainAppend ==
    ASSUME NEW r \in Routers, NEW ps \in Seq(Emitted(r)), NEW p \in Emitted(r)
    PROVE  /\ PlainOf(r, ps) \in Seq(Pieces(r))
           /\ PlainOf(r, Append(ps, p)) = Append(PlainOf(r, ps), PlainPiece(r, p))
<1> DEFINE n == Len(ps)
           s == PlainOf(r, ps)
           t == PlainOf(r, Append(ps, p))
           u == Append(s, PlainPiece(r, p))
<1>1. n \in Nat /\ DOMAIN ps = 1..n /\ DOMAIN Append(ps, p) = 1..(n + 1)
      /\ (\A k \in 1..n : ps[k] \in Emitted(r) /\ Append(ps, p)[k] = ps[k]) /\ Append(ps, p)[n + 1] = p
  OBVIOUS
<1> HIDE DEF n
<1>2. \A q \in Emitted(r) : PlainPiece(r, q) \in Pieces(r)
  BY PlainKinds
<1>3. s = [k \in 1..n |-> PlainPiece(r, ps[k])] /\ \A k \in 1..n : PlainPiece(r, ps[k]) \in Pieces(r)
  BY <1>1, <1>2 DEF PlainOf
<1>4. s \in [1..n -> Pieces(r)]
  BY <1>3
<1>5. s \in Seq(Pieces(r)) /\ Len(s) = n
  BY <1>1, <1>4
<1>6. t = [k \in 1..(n + 1) |-> PlainPiece(r, Append(ps, p)[k])]
  BY <1>1 DEF PlainOf
<1> HIDE DEF s, t
<1>7. u = [k \in 1..(n + 1) |-> IF k <= n THEN s[k] ELSE PlainPiece(r, p)]
  <2>1. PlainPiece(r, p) \in Pieces(r)
    BY <1>2
  <2>2. u \in Seq(Pieces(r)) /\ Len(u) = n + 1 /\ (\A k \in 1..n : u[k] = s[k]) /\ u[n + 1] = PlainPiece(r, p)
    BY <1>1, <1>5, <2>1, AppendProperties
  <2> HIDE DEF u
  <2>3. DOMAIN u = 1..(n + 1) /\ u = [k \in DOMAIN u |-> u[k]]
    BY <1>1, <2>2
  <2>4. \A k \in 1..(n + 1) : u[k] = IF k <= n THEN s[k] ELSE PlainPiece(r, p)
    BY <1>1, <2>2
  <2>5. QED
    BY <2>3, <2>4
<1>8. \A k \in 1..(n + 1) : PlainPiece(r, Append(ps, p)[k]) = IF k <= n THEN s[k] ELSE PlainPiece(r, p)
  <2> TAKE k \in 1..(n + 1)
  <2>1. CASE k <= n
    <3>1. k \in 1..n
      BY <1>1, <2>1
    <3>2. QED
      BY <1>1, <1>3, <2>1, <3>1
  <2>2. CASE ~(k <= n)
    <3>1. k = n + 1
      BY <1>1, <2>2
    <3>2. QED
      BY <1>1, <2>2, <3>1
  <2>3. QED
    BY <2>1, <2>2
<1>9. t = u
  BY <1>6, <1>7, <1>8
<1>10. QED
  BY <1>5, <1>9 DEF s, t, u

LEMMA Regroup ==
    ASSUME NEW T, NEW s \in Seq(T), NEW q \in T, NEW t \in Seq(T)
    PROVE  Append(s, q) \o t = s \o (<<q>> \o t)
<1>1. <<q>> \in Seq(T)
  OBVIOUS
<1>2. Append(s, q) = s \o <<q>>
  BY AppendIsConcat
<1>3. QED
  BY <1>1, <1>2, ConcatAssociative

\* What the router reads of the path.
LEMMA ReadShape ==
    ASSUME TypeInv
    PROVE  /\ Read \in Seq(Alphabet[router]) /\ Len(Read) <= Len(path) /\ Len(Read) <= Longest(router)
           /\ router # "echo" => Read = path
           /\ router = "echo" => Cut(path, Read)
           /\ Len(Read) \in Nat /\ Len(path) \in Nat
<1> DEFINE star == FirstOf(path, 1, {"*"})
<1>1. path \in Seq(Alphabet[router]) /\ Len(path) \in Nat /\ Longest(router) \in Nat /\ Len(path) <= Longest(router)
  BY LongestType DEF TypeInv
<1>2. Bounds(path, 1, {"*"}, star)
  BY <1>1, FirstOfBounds
<1>3. Read = IF router = "echo" /\ star <= Len(path) THEN SubSeq(path, 1, star) ELSE path
  BY DEF Read
<1> HIDE DEF star
<1>4. star \in 1..(Len(path) + 1) /\ (star = Len(path) + 1 \/ path[star] = "*")
      /\ \A j \in 1..(star - 1) : path[j] # "*"
  BY <1>1, <1>2 DEF Bounds
<1>5. CASE router = "echo" /\ star <= Len(path)
  <2>1. Read = SubSeq(path, 1, star)
    BY <1>3, <1>5
  <2>2. star \in Nat /\ star \in 1..Len(path)
    BY <1>1, <1>4, <1>5
  <2>3. /\ Read \in Seq(Alphabet[router]) /\ Len(Read) = star
        /\ \A j \in 1..star : Read[j] = path[j]
    <3>1. Part(path, 1, star + 1) = Read
      BY <2>1, <2>2 DEF Part
    <3>2. star + 1 \in 1..(Len(path) + 1) /\ (star + 1) - 1 = star /\ 1 \in 1..(Len(path) + 1)
      BY <1>1, <2>2
    <3>3. /\ Part(path, 1, star + 1) \in Seq(Alphabet[router]) /\ Len(Part(path, 1, star + 1)) = (star + 1) - 1
          /\ \A j \in 1..((star + 1) - 1) : Part(path, 1, star + 1)[j] = path[1 + j - 1]
      BY <1>1, <3>2, PartShape DEF Part
    <3>4. \A j \in 1..star : 1 + j - 1 = j
      BY <2>2
    <3>5. QED
      BY <3>1, <3>2, <3>3, <3>4
  <2>4. Cut(path, Read)
    BY <1>4, <1>5, <2>2, <2>3 DEF Cut
  <2>5. QED
    BY <1>1, <1>5, <2>2, <2>3, <2>4
<1>6. CASE router = "echo" /\ star = Len(path) + 1
  <2>1. Read = path
    BY <1>1, <1>3, <1>6
  <2>2. Cut(path, path)
    BY <1>1, <1>4, <1>6 DEF Cut
  <2>3. QED
    BY <1>1, <1>6, <2>1, <2>2
<1>7. CASE router # "echo"
  BY <1>1, <1>3, <1>7
<1>8. QED
  BY <1>1, <1>4, <1>5, <1>6, <1>7

(***************************************************************************)
(* Every turn of a loop reads what every token reads, or there is none.    *)
(***************************************************************************)

\* The piece that a turn appends is read up to n, where the next one starts;
\* Echo's wildcard is the last, wherever the path ends.
Turn(piece, next) ==
    /\ piece \in Emitted(router)
    /\ \E n : /\ Only(router, Read, i, PlainPiece(router, piece), n)
              /\ IF router = "echo" /\ path[i] = "*" THEN n = Len(Read) + 1 /\ next = Len(path) + 1
                 ELSE next = n

Turned ==
    \/ \E piece, next : Emit(piece, next) /\ Turn(piece, next)
    \/ Fail /\ None(router, Read, i)

LEMMA TurnRead ==
    ASSUME TypeInv, NEW piece, NEW n, Only(router, Read, i, piece, n),
           router # "fiber" \/ piece.is # "rest", ~(router = "echo" /\ path[i] = "*")
    PROVE  Turn(piece, n)
<1>1. router \in Routers /\ piece \in Pieces(router)
  BY DEF TypeInv, Only, Token
<1>2. piece \in Emitted(router) /\ PlainPiece(router, piece) = piece
  BY <1>1, PlainKinds
<1>3. QED
  BY <1>2 DEF Turn

LEMMA GinTurn ==
    ASSUME TypeInv, router = "gin", i <= Len(path), Gin(path[i])
    PROVE  Turned
<1> DEFINE c == path[i]
<1>1. /\ "gin" \in Routers /\ path \in Seq(Alphabet["gin"]) /\ Len(path) <= Longest("gin")
      /\ i \in 1..Len(path) /\ Read = path
  BY ReadShape DEF TypeInv
<1>2. ASSUME NEW piece, NEW next, Emit(piece, next), Only("gin", path, i, piece, next) PROVE Turned
  <2>1. Turn(piece, next)
    BY <1>1, <1>2, TurnRead
  <2>2. QED
    BY <1>2, <2>1 DEF Turned
<1>3. ASSUME Fail, None("gin", path, i) PROVE Turned
  BY <1>1, <1>3 DEF Turned
<1>4. \A d \in {"\\", ":", "*"} : d \notin Braces
  BY BracesApart
<1>5. /\ c = "\\" /\ EscapedColon(path, i) => Only("gin", path, i, Literal(":"), i + 2)
      /\ c = "\\" /\ ~EscapedColon(path, i) => None("gin", path, i)
      /\ c \in Braces => None("gin", path, i)
      /\ c \notin {"\\", ":", "*"} \cup Braces => Only("gin", path, i, Literal(c), i + 1)
  BY <1>1, GinText
<1>6. Gin(c)
  OBVIOUS
<1> HIDE DEF c
<1>7. CASE c = "\\"
  <2>1. IF EscapedColon(path, i) THEN Emit(Literal(":"), i + 2) ELSE Fail
    BY <1>4, <1>6, <1>7 DEF Gin
  <2>2. QED
    BY <1>2, <1>3, <1>5, <1>7, <2>1
<1>8. CASE c \in {":", "*"}
  <2> DEFINE end == SegmentEnd(path, i)
             name == Part(path, i + 1, end)
  <2>1. GinWildcard(c)
    BY <1>4, <1>6, <1>8 DEF Gin
  <2>2. IF ~GoodName(name) \/ (c = "*" /\ end <= Len(path)) THEN Fail
        ELSE Emit(IF c = "*" THEN CatchAll(name) ELSE Param(name), end)
    BY <2>1 DEF GinWildcard, Part
  <2>3. c = path[i]
    BY DEF c
  <2>4. IF ~GoodName(name) \/ (c = "*" /\ end <= Len(path)) THEN None("gin", path, i)
        ELSE /\ c = ":" => Only("gin", path, i, Param(name), end)
             /\ c = "*" => Only("gin", path, i, CatchAll(name), end)
    BY <1>1, <1>8, <2>3, GinName
  <2> HIDE DEF end, name
  <2>5. CASE ~GoodName(name) \/ (c = "*" /\ end <= Len(path))
    BY <1>3, <2>2, <2>4, <2>5
  <2>6. CASE ~(~GoodName(name) \/ (c = "*" /\ end <= Len(path)))
    <3>1. CASE c = ":"
      BY <1>2, <2>2, <2>4, <2>6, <3>1
    <3>2. CASE c = "*"
      BY <1>2, <2>2, <2>4, <2>6, <3>2
    <3>3. QED
      BY <1>8, <3>1, <3>2
  <2>7. QED
    BY <2>5, <2>6
<1>9. CASE c \in Braces
  <2>1. Fail
    BY <1>4, <1>6, <1>9 DEF Gin
  <2>2. QED
    BY <1>3, <1>5, <1>9, <2>1
<1>10. CASE c \notin {"\\", ":", "*"} \cup Braces
  <2>1. Emit(Literal(c), i + 1)
    BY <1>6, <1>10 DEF Gin
  <2>2. QED
    BY <1>2, <1>5, <1>10, <2>1
<1>11. QED
  BY <1>7, <1>8, <1>9, <1>10

LEMMA EchoTurn ==
    ASSUME TypeInv, router = "echo", i <= Len(path), ~failed, Echo(path[i])
    PROVE  Turned
<1> DEFINE c == path[i]
           w == Read
<1>1. /\ "echo" \in Routers /\ path \in Seq(Alphabet["echo"]) /\ Len(path) <= Longest("echo")
      /\ w \in Seq(Alphabet["echo"]) /\ Cut(path, w)
  BY ReadShape DEF TypeInv
<1>2. i \in 1..Len(w) /\ w[i] = c
  <2>1. Len(w) \in Nat /\ Len(path) \in Nat
    BY ReadShape
  <2>2. i \in 1..Len(w)
    BY <2>1 DEF TypeInv
  <2>3. QED
    BY <1>1, <2>2 DEF Cut
<1>3. ASSUME NEW piece, NEW next, Emit(piece, next), Only("echo", w, i, piece, next), c # "*" PROVE Turned
  <2>1. Turn(piece, next)
    BY <1>3, TurnRead
  <2>2. QED
    BY <1>3, <2>1 DEF Turned
<1>4. ASSUME Fail, None("echo", w, i) PROVE Turned
  BY <1>4 DEF Turned
<1>5. \A d \in {"\\", ":", "*"} : d \notin Braces
  BY BracesApart
<1>6. c # ":" =>
      /\ EscapedColon(path, i) => Only("echo", w, i, Literal(":"), i + 2)
      /\ c = "*" => Only("echo", w, i, CatchAll(<<"*">>), i + 1) /\ i = Len(w)
      /\ c \in Braces => None("echo", w, i)
      /\ ~EscapedColon(path, i) /\ c \notin {":", "*"} \cup Braces => Only("echo", w, i, Literal(c), i + 1)
  <2> HIDE DEF w
  <2>1. QED
    BY <1>1, <1>2, EchoText
<1>7. Echo(c)
  OBVIOUS
<1>8. EscapedColon(path, i) => c = "\\"
  <2>1. i \in DOMAIN path
    BY DEF TypeInv
  <2>2. QED
    BY <2>1 DEF EscapedColon, CharAt
<1> HIDE DEF c, w
<1>9. CASE EscapedColon(path, i)
  <2>1. Emit(Literal(":"), i + 2)
    BY <1>5, <1>7, <1>8, <1>9 DEF Echo
  <2>2. c = "\\"
    BY <1>8, <1>9
  <2>3. QED
    BY <1>3, <1>6, <1>9, <2>1, <2>2
<1>10. CASE ~EscapedColon(path, i) /\ c = ":"
  <2> DEFINE end == EchoEnd(path, i + 1)
             name == Part(path, i + 1, end)
  <2>1. IF GoodName(name) THEN Emit(Param(name), end) ELSE Fail
    BY <1>5, <1>7, <1>10 DEF Echo, Part
  <2>2. IF GoodName(name) THEN Only("echo", w, i, Param(name), end) ELSE None("echo", w, i)
    BY <1>1, <1>2, <1>10, EchoName
  <2> HIDE DEF end, name
  <2>3. QED
    BY <1>3, <1>4, <1>10, <2>1, <2>2
<1>11. CASE ~EscapedColon(path, i) /\ c = "*"
  <2> DEFINE piece == CatchAll(<<"*">>)
  <2>1. Emit(piece, Len(path) + 1)
    BY <1>5, <1>7, <1>11 DEF Echo
  <2>2. Only(router, Read, i, piece, Len(w) + 1)
    BY <1>6, <1>11 DEF w
  <2>3. piece \in Emitted(router) /\ PlainPiece(router, piece) = piece
    <3>1. piece \in Pieces(router)
      BY <2>2 DEF Only, Token
    <3>2. QED
      BY <1>1, <3>1, PlainKinds
  <2> HIDE DEF piece
  <2>4. Turn(piece, Len(path) + 1)
    BY <1>11, <2>2, <2>3 DEF Turn, c, w
  <2>5. QED
    BY <2>1, <2>4 DEF Turned
<1>12. CASE ~EscapedColon(path, i) /\ c \in Braces
  <2>1. Fail
    BY <1>5, <1>7, <1>12 DEF Echo
  <2>2. QED
    BY <1>4, <1>5, <1>6, <1>12, <2>1
<1>13. CASE ~EscapedColon(path, i) /\ c \notin {":", "*"} \cup Braces
  <2>1. Emit(Literal(c), i + 1)
    BY <1>7, <1>13 DEF Echo
  <2>2. QED
    BY <1>3, <1>6, <1>13, <2>1
<1>14. QED
  BY <1>9, <1>10, <1>11, <1>12, <1>13

LEMMA FiberTurn ==
    ASSUME TypeInv, router = "fiber", i <= Len(path), Fiber(path[i])
    PROVE  Turned
<1> DEFINE c == path[i]
           next == CharAt(path, i + 1)
<1>1. /\ "fiber" \in Routers /\ path \in Seq(Alphabet["fiber"]) /\ Len(path) <= Longest("fiber")
      /\ i \in 1..Len(path) /\ Read = path /\ c \in Alphabet["fiber"]
  BY ReadShape DEF TypeInv
<1>2. ASSUME NEW piece, NEW n, Emit(piece, n), Only("fiber", path, i, piece, n), piece.is # "rest" PROVE Turned
  <2>1. Turn(piece, n)
    BY <1>1, <1>2, TurnRead
  <2>2. QED
    BY <1>2, <2>1 DEF Turned
<1>3. ASSUME Fail, None("fiber", path, i) PROVE Turned
  BY <1>1, <1>3 DEF Turned
<1>4. \A d \in {"\\", ":", "*", "+"} : d \notin Braces
  BY BracesApart
<1>5. /\ c = "\\" /\ next \in {End} \cup Braces => None("fiber", path, i)
      /\ c = "\\" /\ next \notin {End} \cup Braces => Only("fiber", path, i, Literal(path[i + 1]), i + 2)
      /\ c = ":" /\ next = ":" => Only("fiber", path, i, Literal(":"), i + 1)
      /\ c \in {"*", "+"} => Only("fiber", path, i, CatchAll(<<c>>), i + 1)
      /\ c \in Braces => None("fiber", path, i)
      /\ c \notin {"\\", ":", "*", "+"} \cup Braces => Only("fiber", path, i, Literal(c), i + 1)
  BY <1>1, FiberText
<1>6. Fiber(c)
  OBVIOUS
<1>7. \A d : Literal(d).is # "rest" /\ Param(d).is # "rest"
  BY DEF Literal, Param
<1> HIDE DEF c
<1>8. CASE c = "\\"
  <2>1. IF next \in {End} \cup Braces THEN Fail ELSE Emit(Literal(path[i + 1]), i + 2)
    BY <1>4, <1>6, <1>8 DEF Fiber
  <2> HIDE DEF next
  <2>2. QED
    BY <1>2, <1>3, <1>5, <1>7, <1>8, <2>1
<1>9. CASE c = ":" /\ next = ":"
  <2>1. Emit(Literal(":"), i + 1)
    BY <1>4, <1>6, <1>9 DEF Fiber
  <2> HIDE DEF next
  <2>2. QED
    BY <1>2, <1>5, <1>7, <1>9, <2>1
<1>10. CASE c = ":" /\ next # ":"
  <2> DEFINE nameEnd == FirstOf(path, i + 1, NameEnds)
             name == Part(path, i + 1, nameEnd)
             constrained == CharAt(path, nameEnd) = "<"
             close == IF constrained THEN ConstraintEnd(path, nameEnd + 1) ELSE nameEnd
             end == IF constrained THEN close + 1 ELSE nameEnd
  <2>1. FiberParam
    BY <1>4, <1>6, <1>10 DEF Fiber
  <2>2. IF name = <<>> \/ close = 0 \/ ~Follower(CharAt(path, end), constrained) THEN Fail
        ELSE Emit(Param(name), end)
    BY <2>1 DEF FiberParam, Part
  <2>3. path[i] = ":" /\ CharAt(path, i + 1) # ":"
    BY <1>10 DEF c
  <2>4. /\ nameEnd = FirstOf(path, i + 1, NameEnds) /\ name = Part(path, i + 1, nameEnd)
        /\ constrained = (CharAt(path, nameEnd) = "<")
        /\ close = IF constrained THEN ConstraintEnd(path, nameEnd + 1) ELSE nameEnd
        /\ end = IF constrained THEN close + 1 ELSE nameEnd
    OBVIOUS
  <2> HIDE DEF nameEnd, name, constrained, close, end
  <2>5. IF name = <<>> \/ close = 0 \/ ~Follower(CharAt(path, end), constrained) THEN None("fiber", path, i)
        ELSE Only("fiber", path, i, Param(name), end)
    BY <1>1, <2>3, <2>4, FiberName
  <2>6. QED
    BY <1>2, <1>3, <1>7, <2>2, <2>5
<1>11. CASE c \in {"*", "+"}
  <2> DEFINE m == Cardinality(Wildcards(c)) + 1
             piece == CatchAll(<<c, m>>)
  <2>1. Emit(piece, i + 1)
    BY <1>4, <1>6, <1>11 DEF Fiber
  <2>2. m \in Nat
    <3>1. IsFiniteSet(1..Len(pieces)) /\ DOMAIN pieces = 1..Len(pieces)
      <4>1. Len(pieces) \in Nat /\ DOMAIN pieces = 1..Len(pieces)
        BY DEF TypeInv
      <4>2. QED
        BY <4>1, FS_Interval
    <3>2. IsFiniteSet(Wildcards(c))
      BY <3>1, FS_Subset DEF Wildcards
    <3>3. QED
      BY <3>2, FS_CardinalityType
  <2> HIDE DEF m
  <2>3. c \in {"*", "+"} \cap Alphabet["fiber"]
    BY <1>1, <1>11 DEF c
  <2>4. piece \in Emitted(router) /\ PlainPiece(router, piece) = CatchAll(<<c>>)
    BY <1>1, <2>2, <2>3, PlainKinds
  <2>5. Only(router, Read, i, CatchAll(<<c>>), i + 1)
    BY <1>1, <1>5, <1>11
  <2> HIDE DEF piece
  <2>6. Turn(piece, i + 1)
    BY <2>4, <2>5 DEF Turn
  <2>7. QED
    BY <2>1, <2>6 DEF Turned
<1>12. CASE c \in Braces
  <2>1. Fail
    BY <1>4, <1>6, <1>12 DEF Fiber
  <2>2. QED
    BY <1>3, <1>5, <1>12, <2>1
<1>13. CASE c \notin {"\\", ":", "*", "+"} \cup Braces
  <2>1. Emit(Literal(c), i + 1)
    BY <1>6, <1>13 DEF Fiber
  <2>2. QED
    BY <1>2, <1>5, <1>7, <1>13, <2>1
<1>14. QED
  BY <1>8, <1>9, <1>10, <1>11, <1>12, <1>13

\* The document path so far, with any reading of the rest, reads as the path does.
AcceptInv == ~failed => \A ps : Parse(router, ps, Rest) => Parse(router, Plain(pieces) \o ps, Read)

\* What the router can read at all it can go on reading.
RefuseInv == (\E ps : Parse(router, ps, Read)) => ~failed /\ \E ps : Parse(router, ps, Rest)

IInv == TypeInv /\ AcceptInv /\ RefuseInv

LEMMA ParseType ==
    ASSUME NEW r \in Routers, NEW w, Len(w) \in 0..Longest(r), NEW ps, Parse(r, ps, w)
    PROVE  ps \in Seq(Pieces(r))
<1> DEFINE e == <<ps, w>>
<1>1. e \in Grammar[r][Len(w) + 1] /\ e[1] = ps
  BY DEF Parse
<1> HIDE DEF e
<1>2. QED
  BY <1>1, WordShape

\* Only the wildcard reads the wildcard that cuts an Echo path.
LEMMA EchoLast ==
    ASSUME "echo" \in Routers, NEW w \in Seq(Alphabet["echo"]), Len(w) <= Longest("echo"),
           NEW k \in 1..Len(w), NEW q, NEW n, Token("echo", w, k, q, n), n = Len(w) + 1, w[Len(w)] = "*"
    PROVE  w[k] = "*"
<1> DEFINE r == "echo"
<1>1. /\ r \in Routers /\ r # "gin" /\ r # "fiber" /\ w \in Seq(Alphabet[r]) /\ Len(w) \in Nat
      /\ Len(w) <= Longest(r) /\ k + 1 \in 2..(Len(w) + 1)
  OBVIOUS
<1> HIDE DEF r
<1>2. LiteralEnd(r, w, k, n) \/ ParamEnd(r, w, k, n) \/ RestEnd(r, w, k, n)
  BY <1>1, TokenEnds DEF r
<1>3. ~LiteralEnd(r, w, k, n)
  <2>1. ASSUME NEW c, LiteralAt(r, w, k, c, n) PROVE FALSE
    <3>1. n = k + 1 => k = Len(w) /\ w[k] = "*"
      BY <1>1
    <3>2. n = k + 2 => k + 1 = Len(w) /\ w[k + 1] = "*" /\ k + 1 \in Nat \ {0}
      BY <1>1
    <3>3. k + 1 = Len(w) => CharAt(w, k + 1) = w[k + 1]
      BY <1>1 DEF CharAt
    <3>4. QED
      BY <1>1, <2>1, <3>1, <3>2, <3>3 DEF LiteralAt
  <2>2. QED
    BY <2>1 DEF LiteralEnd
<1>4. ~ParamEnd(r, w, k, n)
  <2>1. ASSUME NEW t \in Texts(r), PlainParam(r, w, k, t, n) PROVE FALSE
    <3>1. Part(w, k + 1, n) \in Texts(r)
      BY <2>1 DEF PlainParam, Spells
    <3>2. n \in (k + 1)..(Len(w) + 1)
      BY <1>1
    <3>3. n > k + 1 /\ \A j \in (k + 1)..(n - 1) : w[j] \in Letters(r)
      BY <1>1, <3>1, <3>2, TextPart
    <3>4. Len(w) \in (k + 1)..(n - 1)
      BY <1>1, <3>3
    <3>5. w[Len(w)] \in Letters(r)
      BY <3>3, <3>4
    <3>6. QED
      BY <1>1, <3>5, CharsType
  <2>2. QED
    BY <1>1, <2>1 DEF ParamEnd, BoundParam
<1>5. QED
  BY <1>1, <1>2, <1>3, <1>4 DEF RestEnd

\* Nothing is left after the end.
LEMMA RestEmpty ==
    ASSUME TypeInv, NEW k \in Nat, k > Len(Read)
    PROVE  From(Read, k) = <<>>
<1>1. Len(Read) \in Nat /\ Read \in Seq(Alphabet[router])
  BY ReadShape
<1>2. Len(SubSeq(Read, k, Len(Read))) = 0 /\ SubSeq(Read, k, Len(Read)) = <<>>
  BY <1>1
<1>3. QED
  BY <1>2 DEF From

\* A turn that appends a piece.
LEMMA TurnShape ==
    ASSUME TypeInv, i <= Len(path), ~failed, NEW piece, NEW next, Turn(piece, next)
    PROVE  \E n : /\ Only(router, Read, i, PlainPiece(router, piece), n)
                  /\ From(Read, next) = From(Read, n) /\ next \in 1..(Len(path) + 1)
                  /\ i \in 1..Len(Read)
                  /\ router = "echo" => next = Len(path) + 1 \/ next <= Len(Read)
<1>1. /\ router \in Routers /\ Read \in Seq(Alphabet[router]) /\ Len(Read) \in Nat /\ Len(path) \in Nat
      /\ Len(Read) <= Len(path) /\ Len(Read) <= Longest(router)
      /\ router # "echo" => Read = path
      /\ router = "echo" => Cut(path, Read)
  BY ReadShape DEF TypeInv
<1>2. i \in 1..Len(Read)
  BY <1>1 DEF TypeInv
<1>3. PICK n : /\ Only(router, Read, i, PlainPiece(router, piece), n)
               /\ IF router = "echo" /\ path[i] = "*" THEN n = Len(Read) + 1 /\ next = Len(path) + 1
                  ELSE next = n
  BY DEF Turn
<1>4. n \in (i + 1)..(Len(Read) + 1) /\ Token(router, Read, i, PlainPiece(router, piece), n)
  BY <1>3 DEF Only, Token
<1>5. CASE router = "echo" /\ path[i] = "*"
  <2>1. From(Read, next) = <<>> /\ From(Read, n) = <<>>
    BY <1>1, <1>3, <1>5, RestEmpty
  <2>2. next \in 1..(Len(path) + 1)
    BY <1>1, <1>3, <1>5
  <2>3. QED
    BY <1>2, <1>3, <1>5, <2>1, <2>2
<1>6. CASE ~(router = "echo" /\ path[i] = "*")
  <2>1. next = n
    BY <1>3, <1>6
  <2>2. next \in 1..(Len(path) + 1)
    BY <1>1, <1>2, <1>4, <2>1
  <2>3. ASSUME router = "echo" PROVE next = Len(path) + 1 \/ next <= Len(Read)
    <3>1. CASE n <= Len(Read)
      BY <2>1, <3>1
    <3>2. CASE n = Len(Read) + 1
      <4>1. Read[i] = path[i] /\ Read[i] # "*"
        BY <1>1, <1>2, <1>6, <2>3 DEF Cut
      <4>2. Read[Len(Read)] # "*"
        <5>1. /\ "echo" \in Routers /\ Read \in Seq(Alphabet["echo"]) /\ Len(Read) <= Longest("echo")
              /\ Token("echo", Read, i, PlainPiece(router, piece), n)
          BY <1>1, <1>4, <2>3
        <5>2. QED
          BY <1>2, <3>2, <4>1, <5>1, EchoLast
      <4>3. Len(Read) = Len(path)
        BY <1>1, <2>3, <4>2 DEF Cut
      <4>4. QED
        BY <2>1, <3>2, <4>3
    <3>3. QED
      BY <1>1, <1>4, <3>1, <3>2
  <2>4. QED
    BY <1>2, <1>3, <2>1, <2>2, <2>3
<1>7. QED
  BY <1>5, <1>6

LEMMA InitInv == Init => IInv
<1> SUFFICES ASSUME Init PROVE IInv
  OBVIOUS
<1>1. PICK p \in Words(router) : path = Rooted(router, p)
  BY DEF Init
<1>2. router \in Routers /\ i = 1 /\ pieces = <<>> /\ failed = FALSE
  BY DEF Init
<1>3. MaxLength[router] \in Nat /\ "/" \in Alphabet[router]
  BY <1>2, PathsAssumption
<1>4. p \in Seq(Alphabet[router]) /\ Len(p) \in Nat /\ Len(p) <= MaxLength[router]
  <2>1. PICK n \in 0..MaxLength[router] : p \in [1..n -> Alphabet[router]]
    BY <1>1 DEF Words
  <2>2. n \in Nat /\ n <= MaxLength[router]
    BY <1>3
  <2>3. p \in Seq(Alphabet[router]) /\ Len(p) = n
    BY <2>1, <2>2
  <2>4. QED
    BY <2>2, <2>3
<1>5. path \in Seq(Alphabet[router]) /\ Len(path) \in Nat /\ Len(path) <= Longest(router)
  <2>1. CASE path = p
    BY <1>3, <1>4, <2>1 DEF Longest
  <2>2. CASE router = "echo" /\ path = <<"/">> \o p
    <3>1. <<"/">> \in Seq(Alphabet[router]) /\ Len(<<"/">>) = 1
      BY <1>3, ShortSequences
    <3>2. path \in Seq(Alphabet[router]) /\ Len(path) = 1 + Len(p)
      BY <1>4, <2>2, <3>1, ConcatProperties
    <3>3. QED
      BY <1>3, <1>4, <2>2, <3>2 DEF Longest
  <2>3. QED
    BY <1>1, <2>1, <2>2 DEF Rooted
<1>6. TypeInv
  <2>1. router = "echo" => i = Len(path) + 1 \/ i <= Len(Read)
    <3> SUFFICES ASSUME router = "echo", path # <<>> PROVE i <= Len(Read)
      BY <1>2, <1>5
    <3> DEFINE star == FirstOf(path, 1, {"*"})
    <3>1. Bounds(path, 1, {"*"}, star)
      BY <1>5, FirstOfBounds
    <3>2. Read = IF star <= Len(path) THEN SubSeq(path, 1, star) ELSE path
      BY DEF Read
    <3> HIDE DEF star
    <3>3. star \in 1..(Len(path) + 1)
      BY <1>5, <3>1 DEF Bounds
    <3>4. CASE star <= Len(path)
      <4>1. star \in Nat /\ star >= 1
        BY <1>5, <3>3
      <4>2. Len(SubSeq(path, 1, star)) = star
        BY <1>5, <3>4, <4>1
      <4>3. QED
        BY <1>2, <3>2, <3>4, <4>1, <4>2
    <3>5. CASE ~(star <= Len(path))
      <4>1. Read = path /\ Len(path) # 0
        BY <1>5, <3>2, <3>5
      <4>2. QED
        BY <1>2, <1>5, <4>1
    <3>6. QED
      BY <3>4, <3>5
  <2>2. pieces \in Seq(Emitted(router))
    BY <1>2
  <2>3. i \in 1..(Len(path) + 1)
    BY <1>2, <1>5
  <2>4. failed \in BOOLEAN
    BY <1>2
  <2>5. QED
    BY <1>2, <1>5, <2>1, <2>2, <2>3, <2>4 DEF TypeInv
<1>7. Rest = Read /\ Len(Read) \in 0..Longest(router) /\ Len(Read) \in Nat
  <2>1. Read \in Seq(Alphabet[router]) /\ Len(Read) \in Nat /\ Len(Read) <= Longest(router) /\ Longest(router) \in Nat
    BY <1>2, <1>6, ReadShape, LongestType
  <2>2. From(Read, 1) = Read
    <3>1. 1 \in 1..(Len(Read) + 1)
      BY <2>1
    <3>2. QED
      BY <2>1, <3>1, FromShape
  <2>3. QED
    BY <1>2, <2>1, <2>2 DEF Rest
<1>8. AcceptInv
  <2> SUFFICES ASSUME NEW ps, Parse(router, ps, Rest) PROVE Parse(router, Plain(pieces) \o ps, Read)
    BY DEF AcceptInv
  <2>1. ps \in Seq(Pieces(router))
    BY <1>2, <1>7, ParseType
  <2>2. Plain(pieces) = <<>>
    BY <1>2 DEF Plain
  <2>3. <<>> \o ps = ps
    BY <2>1, ConcatEmptySeq
  <2>4. QED
    BY <1>7, <2>2, <2>3
<1>9. RefuseInv
  BY <1>2, <1>7 DEF RefuseInv
<1>10. QED
  BY <1>6, <1>8, <1>9 DEF IInv

LEMMA NextTurned ==
    ASSUME TypeInv, Next
    PROVE  Turned /\ ~failed /\ i <= Len(path) /\ router' = router /\ path' = path /\ Read' = Read
<1>1. ~failed /\ i <= Len(path) /\ router' = router /\ path' = path
  BY DEF Next
<1>2. Read' = Read
  BY <1>1 DEF Read
<1>3. router \in {"gin", "echo", "fiber"}
  BY PathsAssumption DEF TypeInv
<1>4. /\ router = "gin" => Gin(path[i])
      /\ router = "echo" => Echo(path[i])
      /\ router = "fiber" => Fiber(path[i])
  BY DEF Next
<1>5. CASE router = "gin"
  BY <1>1, <1>2, <1>4, <1>5, GinTurn
<1>6. CASE router = "echo"
  BY <1>1, <1>2, <1>4, <1>6, EchoTurn
<1>7. CASE router = "fiber"
  BY <1>1, <1>2, <1>4, <1>7, FiberTurn
<1>8. QED
  BY <1>3, <1>5, <1>6, <1>7

\* A turn that appends a piece keeps the invariant.
LEMMA EmitInv ==
    ASSUME IInv, i <= Len(path), ~failed, router' = router, path' = path, Read' = Read,
           NEW piece, NEW next, Emit(piece, next), Turn(piece, next)
    PROVE  IInv'
<1> DEFINE r == router
           w == Read
           q == PlainPiece(router, piece)
<1>1. PICK n : /\ Only(r, w, i, q, n)
               /\ From(w, next) = From(w, n) /\ next \in 1..(Len(path) + 1)
               /\ i \in 1..Len(w)
               /\ r = "echo" => next = Len(path) + 1 \/ next <= Len(w)
  BY TurnShape DEF IInv
<1>2. pieces' = Append(pieces, piece) /\ i' = next /\ failed' = failed
  BY DEF Emit
<1>3. /\ r \in Routers /\ w \in Seq(Alphabet[r]) /\ Len(w) \in Nat /\ Len(w) <= Longest(r) /\ Longest(r) \in Nat
      /\ piece \in Emitted(r) /\ pieces \in Seq(Emitted(r)) /\ failed \in BOOLEAN
  BY ReadShape, LongestType DEF IInv, TypeInv, Turn
<1>4. TypeInv'
  <2>1. Append(pieces, piece) \in Seq(Emitted(r))
    BY <1>3
  <2>2. path \in Seq(Alphabet[router]) /\ Len(path) <= Longest(router) /\ router \in Routers
    BY DEF IInv, TypeInv
  <2>3. QED
    BY <1>1, <1>2, <1>3, <2>1, <2>2 DEF TypeInv
<1>5. /\ Rest = From(w, i) /\ Rest' = From(w, n)
      /\ Read' = w /\ router' = r
  BY <1>1, <1>2 DEF Rest
<1>6. /\ Plain(pieces) = PlainOf(r, pieces)
      /\ Plain(pieces)' = PlainOf(r, Append(pieces, piece))
  <2>1. Plain(pieces) = PlainOf(r, pieces)
    BY DEF Plain, PlainOf, PlainPiece
  <2>2. Plain(pieces)' = PlainOf(r, pieces')
    BY DEF Plain, PlainOf, PlainPiece
  <2>3. QED
    BY <1>2, <2>1, <2>2
<1>7. /\ Token(r, w, i, q, n) /\ \A p, m : Token(r, w, i, p, m) => m = n
      /\ q \in Pieces(r) /\ n \in (i + 1)..(Len(w) + 1)
  BY <1>1 DEF Only, Token
<1>8. w \in Seq(Chars(r)) /\ n \in 1..(Len(w) + 1)
  <2>1. Alphabet[r] \subseteq Chars(r)
    BY <1>3, CharsType
  <2>2. w \in Seq(Chars(r))
    BY <1>3, <2>1
  <2>3. QED
    BY <1>1, <1>3, <1>7, <2>2
<1> HIDE DEF r, w, q
<1>9. AcceptInv'
  <2> SUFFICES ASSUME NEW ps, Parse(r, ps, From(w, n)) PROVE Parse(r, Plain(pieces)' \o ps, w)
    BY <1>5 DEF AcceptInv
  <2>1. ps \in Seq(Pieces(r))
    <3>1. Len(From(w, n)) = Len(w) + 1 - n
      BY <1>3, <1>8, FromShape
    <3>2. Len(From(w, n)) \in 0..Longest(r)
      BY <1>3, <1>8, <3>1
    <3>3. QED
      BY <1>3, <3>2, ParseType
  <2>2. Parse(r, <<q>> \o ps, From(w, i))
    BY <1>1, <1>3, <1>7, <1>8, TokenMore
  <2>3. Parse(r, Plain(pieces) \o (<<q>> \o ps), w)
    BY <1>5, <2>2 DEF IInv, AcceptInv, r, w
  <2>4. PlainOf(r, pieces) \in Seq(Pieces(r)) /\ PlainOf(r, Append(pieces, piece)) = Append(PlainOf(r, pieces), q)
    BY <1>3, PlainAppend DEF q, r
  <2>5. Plain(pieces)' \o ps = Plain(pieces) \o (<<q>> \o ps)
    BY <1>6, <1>7, <2>1, <2>4, Regroup
  <2>6. QED
    BY <2>3, <2>5
<1>10. RefuseInv'
  <2> SUFFICES ASSUME NEW all, Parse(r, all, w) PROVE ~failed' /\ \E ps : Parse(r, ps, From(w, n))
    BY <1>5 DEF RefuseInv
  <2>1. \E ps : Parse(r, ps, From(w, i))
    BY <1>5 DEF IInv, RefuseInv, r, w
  <2>2. PICK ps : Parse(r, ps, From(w, i))
    BY <2>1
  <2>3. \E p, m : Token(r, w, i, p, m) /\ \E qs : Parse(r, qs, From(w, m))
    BY <1>1, <1>3, <1>8, <2>2, TokenFirst
  <2>4. PICK p, m : Token(r, w, i, p, m) /\ \E qs : Parse(r, qs, From(w, m))
    BY <2>3
  <2>5. m = n
    BY <1>7, <2>4
  <2>6. QED
    BY <1>2, <2>4, <2>5
<1>11. QED
  BY <1>4, <1>9, <1>10 DEF IInv

\* A turn that refuses the path keeps it.
LEMMA FailInv ==
    ASSUME IInv, i <= Len(path), ~failed, router' = router, path' = path, Read' = Read,
           Fail, None(router, Read, i)
    PROVE  IInv'
<1>1. failed' = TRUE /\ pieces' = pieces /\ i' = i
  BY DEF Fail
<1>2. TypeInv'
  BY <1>1 DEF IInv, TypeInv
<1>3. AcceptInv'
  BY <1>1 DEF AcceptInv
<1>4. ~\E ps : Parse(router, ps, Rest)
  <2> SUFFICES ASSUME NEW ps, Parse(router, ps, From(Read, i)) PROVE FALSE
    BY DEF Rest
  <2>1. /\ router \in Routers /\ Read \in Seq(Alphabet[router]) /\ Len(Read) \in Nat /\ Len(Read) <= Longest(router)
        /\ Alphabet[router] \subseteq Chars(router)
    BY ReadShape, CharsType DEF IInv, TypeInv
  <2>2. Read \in Seq(Chars(router))
    BY <2>1
  <2>3. i \in 1..Len(Read)
    <3>1. i \in 1..(Len(path) + 1) /\ (router = "echo" => i = Len(path) + 1 \/ i <= Len(Read))
      BY DEF IInv, TypeInv
    <3>2. Len(path) \in Nat /\ (router # "echo" => Read = path)
      BY ReadShape DEF IInv
    <3>3. QED
      BY <2>1, <3>1, <3>2
  <2>4. \E p, m : Token(router, Read, i, p, m) /\ \E qs : Parse(router, qs, From(Read, m))
    BY <2>1, <2>2, <2>3, TokenFirst
  <2>5. QED
    BY <2>4 DEF None
<1>5. RefuseInv'
  BY <1>4 DEF IInv, RefuseInv
<1>6. QED
  BY <1>2, <1>3, <1>5 DEF IInv

LEMMA StepInv == IInv /\ [Next]_vars => IInv'
<1> SUFFICES ASSUME IInv, [Next]_vars PROVE IInv'
  OBVIOUS
<1>1. CASE UNCHANGED vars
  BY <1>1 DEF vars, IInv, TypeInv, AcceptInv, RefuseInv, Rest, Read, Plain
<1>2. CASE Next
  <2>1. Turned /\ ~failed /\ i <= Len(path) /\ router' = router /\ path' = path /\ Read' = Read
    BY <1>2, NextTurned DEF IInv
  <2>2. ASSUME NEW piece, NEW next, Emit(piece, next), Turn(piece, next) PROVE IInv'
    BY <2>1, <2>2, EmitInv
  <2>3. CASE Fail /\ None(router, Read, i)
    BY <2>1, <2>3, FailInv
  <2>4. QED
    BY <2>1, <2>2, <2>3 DEF Turned
<1>3. QED
  BY <1>1, <1>2

\* At the end nothing is left, so the document path is a reading of the path.
LEMMA AcceptedHolds == IInv => AcceptedAsRead
<1> SUFFICES ASSUME IInv, i > Len(path), ~failed PROVE <<Plain(pieces), Read>> \in Grammar[router][Len(Read) + 1]
  BY DEF AcceptedAsRead
<1>1. router \in Routers /\ pieces \in Seq(Emitted(router)) /\ i \in Nat /\ Len(path) \in Nat /\ Len(Read) \in Nat
      /\ i > Len(Read)
  <2>1. router \in Routers /\ pieces \in Seq(Emitted(router)) /\ i \in 1..(Len(path) + 1)
    BY DEF IInv, TypeInv
  <2>2. Len(path) \in Nat /\ Len(Read) \in Nat /\ Len(Read) <= Len(path)
    BY ReadShape DEF IInv
  <2>3. QED
    BY <2>1, <2>2
<1>2. Rest = <<>>
  BY <1>1, RestEmpty DEF IInv, Rest
<1>3. Parse(router, Plain(pieces) \o <<>>, Read)
  BY <1>1, <1>2, ParseEmpty DEF IInv, AcceptInv
<1>4. Plain(pieces) = PlainOf(router, pieces)
  BY DEF Plain, PlainOf, PlainPiece
<1>5. PlainOf(router, pieces) \in Seq(Pieces(router))
  <2>1. "/" \in Alphabet[router]
    BY <1>1, CharsType
  <2>2. Literal("/") \in Pieces(router) /\ Literal("/").is = "literal"
    BY <1>1, <2>1, PieceKinds DEF Literal
  <2>3. Literal("/") \in Emitted(router)
    BY <1>1, <2>2, PlainKinds
  <2>4. QED
    BY <1>1, <2>3, PlainAppend
<1>6. Plain(pieces) \o <<>> = Plain(pieces)
  BY <1>4, <1>5, ConcatEmptySeq
<1>7. QED
  BY <1>3, <1>6 DEF Parse

\* What the router reads is never refused.
LEMMA RefusedHolds == IInv => RefusedWhenUnread
<1> SUFFICES ASSUME IInv, failed, Read \in Spelled[router][Len(Read) + 1] PROVE FALSE
  BY DEF RefusedWhenUnread
<1> DEFINE n == Len(Read) + 1
<1>1. router \in Routers /\ Len(Read) \in 0..Longest(router)
  BY ReadShape, LongestType DEF IInv, TypeInv
<1>2. n \in DOMAIN Grammar[router]
  BY <1>1, LevelShape, LongestType
<1>3. Spelled[router][n] = {e[2] : e \in Grammar[router][n]}
  BY <1>1, <1>2 DEF Spelled
<1> HIDE DEF n
<1>4. PICK e \in Grammar[router][n] : e[2] = Read
  BY <1>3 DEF n
<1>5. e = <<e[1], Read>>
  BY <1>1, <1>4, WordShape DEF n
<1>6. Parse(router, e[1], Read)
  BY <1>4, <1>5 DEF Parse, n
<1>7. QED
  BY <1>6 DEF IInv, RefuseInv

\* What is read so far and what is left make up the path: the invariant of
\* the loops of openAPIPath, echopath and fiberpath.
THEOREM PathsInductive == Spec => []IInv
BY InitInv, StepInv, PTL DEF Spec

\* For every path over every alphabet, a translated path names the parameters
\* and the text that the router reads in it: the document never describes
\* another route (openAPIPath of Gin, OpenAPI of echopath and fiberpath).
THEOREM TranslationIsAReading == Spec => []AcceptedAsRead
BY PathsInductive, AcceptedHolds, PTL

\* For every path over every alphabet, a translator refuses a path only when
\* the router reads no document path in it (the errors of the same functions).
THEOREM RefusalIsJustified == Spec => []RefusedWhenUnread
BY PathsInductive, RefusedHolds, PTL
=============================================================================
