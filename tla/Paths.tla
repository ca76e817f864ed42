------------------------------- MODULE Paths --------------------------------
(***************************************************************************)
(* The translation of router paths into document paths: openAPIPath of the *)
(* Gin adapter, internal/echopath and internal/fiberpath.  A path is a     *)
(* sequence of characters; a document path is a sequence of pieces, each a *)
(* literal character, a parameter or a catch-all.  One step of the machine *)
(* is one turn of the loop of a translator.                                *)
(***************************************************************************)
EXTENDS Integers, Sequences, FiniteSets

CONSTANTS
    Routers,        \* of "gin", "echo", "fiber"
    Alphabet,       \* Alphabet[router]: the characters of its paths
    MaxLength       \* MaxLength[router]: bound on the length of a path

Braces == {"{", "}"}    \* what an OpenAPI path gives a meaning to
End == ""               \* no character: what is read after the last one

\* Echo adds a slash to a path.
ASSUME PathsAssumption ==
    /\ Routers \subseteq {"gin", "echo", "fiber"} /\ MaxLength \in [Routers -> Nat]
    /\ \A r \in Routers : End \notin Alphabet[r] /\ "/" \in Alphabet[r]

VARIABLES
    router, path,   \* what is translated
    i,              \* the next character
    pieces,         \* the document path so far
    failed          \* the translator returned an error

vars == <<router, path, i, pieces, failed>>

Words(r) == UNION {[1..n -> Alphabet[r]] : n \in 0..MaxLength[r]}

Literal(c) == [is |-> "literal", text |-> <<c>>]
Param(name) == [is |-> "param", text |-> name]
CatchAll(name) == [is |-> "rest", text |-> name]

\* Echo adds the leading slash of a path without one.
Rooted(r, p) == IF r = "echo" /\ (p = <<>> \/ Head(p) # "/") THEN <<"/">> \o p ELSE p

Init ==
    /\ router \in Routers
    /\ \E p \in Words(router) : path = Rooted(router, p)
    /\ i = 1 /\ pieces = <<>> /\ failed = FALSE
-----------------------------------------------------------------------------
(* What the translators read at a position of a path p. *)

CharAt(p, k) == IF k \in DOMAIN p THEN p[k] ELSE End

\* The first position from k on of a character in C, or the one after the end.
FirstOf(p, k, C) ==
    CHOOSE n \in k..(Len(p) + 1) :
        /\ n = Len(p) + 1 \/ p[n] \in C
        /\ \A j \in k..(n - 1) : p[j] \notin C

SegmentEnd(p, k) == FirstOf(p, k, {"/"})

EscapedColon(p, k) == CharAt(p, k) = "\\" /\ CharAt(p, k + 1) = ":"

\* isInlineVerb: the text from k on is static up to the end of its segment.
InlineVerb(p, k) ==
    \A j \in k..(SegmentEnd(p, k) - 1) :
        p[j] # "*" /\ (p[j] = ":" => j > k /\ p[j - 1] = "\\")

\* Fault: every escaped colon ends the name.
VerbEnd(p, k) ==
    LET E == {j \in k..(SegmentEnd(p, k) - 1) : EscapedColon(p, j)}
    IN  IF E = {} THEN SegmentEnd(p, k) ELSE CHOOSE j \in E : \A l \in E : j <= l

\* Fault: no escaped colon ends a name.
SegmentOnly(p, k) == SegmentEnd(p, k)

\* paramEnd of echopath: a name runs to the end of its segment, unless an
\* escaped colon before any other wildcard starts an inline verb.
EchoEnd(p, k) ==
    LET end == SegmentEnd(p, k)
        colons == {j \in k..(end - 1) : EscapedColon(p, j)}
        first == CHOOSE j \in colons : \A l \in colons : j <= l
    IN  IF /\ colons # {} /\ InlineVerb(p, first + 2)
           /\ \A j \in k..(first - 1) : p[j] \notin {":", "*"}
        THEN first ELSE end

\* No name in Gin and Echo is empty or holds a character with a meaning.
GoodName(name) == name # <<>> /\ \A j \in DOMAIN name : name[j] \notin {":", "*", "\\"} \cup Braces

\* constraintEnd: the > that is not escaped, or 0.
ConstraintEnd(p, k) ==
    LET end[j \in k..(Len(p) + 2)] ==
            IF j > Len(p) THEN 0
            ELSE IF p[j] = ">" THEN j
            ELSE IF p[j] = "\\" THEN end[j + 2] ELSE end[j + 1]
    IN  end[k]

NameEnds == {"/", "-", ".", ":", "\\", "?", "<", "*", "+"} \cup Braces

\* checkFollower: what may come after a parameter in Fiber.
Follower(c, constrained) ==
    c \notin {"?", ":", "*", "+"} \cup Braces /\ (constrained => c \in {End, "/", "-", ".", "\\"})
-----------------------------------------------------------------------------
(* One turn of a loop. *)

Emit(piece, next) == pieces' = Append(pieces, piece) /\ i' = next /\ UNCHANGED failed
Fail == failed' = TRUE /\ UNCHANGED <<pieces, i>>

GinWildcard(c) ==
    LET end == SegmentEnd(path, i)
        name == SubSeq(path, i + 1, end - 1)
    IN  IF ~GoodName(name) \/ (c = "*" /\ end <= Len(path)) THEN Fail
        ELSE Emit(IF c = "*" THEN CatchAll(name) ELSE Param(name), end)

Gin(c) ==
    CASE c = "\\" -> IF EscapedColon(path, i) THEN Emit(Literal(":"), i + 2) ELSE Fail
      [] c \in {":", "*"} -> GinWildcard(c)
      [] c \in Braces -> Fail
      [] OTHER -> Emit(Literal(c), i + 1)

\* What follows the catch-all of Echo is ignored.
Echo(c) ==
    CASE EscapedColon(path, i) -> Emit(Literal(":"), i + 2)
      [] c = ":" -> LET end == EchoEnd(path, i + 1)
                        name == SubSeq(path, i + 1, end - 1)
                    IN  IF GoodName(name) THEN Emit(Param(name), end) ELSE Fail
      [] c = "*" -> Emit(CatchAll(<<"*">>), Len(path) + 1)
      [] c \in Braces -> Fail
      [] OTHER -> Emit(Literal(c), i + 1)

\* param of fiberpath.
FiberParam ==
    LET nameEnd == FirstOf(path, i + 1, NameEnds)
        name == SubSeq(path, i + 1, nameEnd - 1)
        constrained == CharAt(path, nameEnd) = "<"
        close == IF constrained THEN ConstraintEnd(path, nameEnd + 1) ELSE nameEnd
        end == IF constrained THEN close + 1 ELSE nameEnd
    IN  IF name = <<>> \/ close = 0 \/ ~Follower(CharAt(path, end), constrained) THEN Fail
        ELSE Emit(Param(name), end)

\* Fiber numbers its wildcards: the name of the n-th * is *n.
Wildcards(c) == {k \in DOMAIN pieces : pieces[k].is = "rest" /\ Head(pieces[k].text) = c}

Fiber(c) ==
    CASE c = "\\" -> IF CharAt(path, i + 1) \in {End} \cup Braces THEN Fail
                     ELSE Emit(Literal(path[i + 1]), i + 2)
      [] c = ":" -> IF CharAt(path, i + 1) = ":" THEN Emit(Literal(":"), i + 1) ELSE FiberParam
      [] c \in {"*", "+"} -> Emit(CatchAll(<<c, Cardinality(Wildcards(c)) + 1>>), i + 1)
      [] c \in Braces -> Fail
      [] OTHER -> Emit(Literal(c), i + 1)

Next ==
    /\ ~failed /\ i <= Len(path)
    /\ CASE router = "gin" -> Gin(path[i])
         [] router = "echo" -> Echo(path[i])
         [] router = "fiber" -> Fiber(path[i])
    /\ UNCHANGED <<router, path>>

Spec == Init /\ [][Next]_vars
-----------------------------------------------------------------------------
(* The reference: the routers as the comments of the translators describe  *)
(* them, each a grammar from which words are built and never scanned.      *)

\* A name of Gin or Echo ends with its segment, and Fiber's at its separators.
Letters(r) ==
    Alphabet[r] \ (IF r = "fiber" THEN NameEnds ELSE {"/", ":", "*", "\\"} \cup Braces)

Texts(r) == UNION {[1..n -> Letters(r)] : n \in 1..MaxLength[r]}

\* Fiber's wildcards lose their numbers.
Pieces(r) ==
    {Literal(c) : c \in Alphabet[r]} \cup {Param(t) : t \in Texts(r)}
    \cup CASE r = "gin" -> {CatchAll(t) : t \in Texts(r)}
           [] r = "echo" -> {CatchAll(<<"*">>)}
           [] r = "fiber" -> {CatchAll(<<c>>) : c \in {"*", "+"} \cap Alphabet[r]}

\* What may stand between the brackets of a constraint: a backslash escapes
\* what follows it, and no other > ends the text.
Constraints(r) ==
    LET Escaping(w, E) ==
            \A k \in DOMAIN w :
                IF k \in E THEN w[k] = "\\" /\ k + 1 \in DOMAIN w \ E
                ELSE k - 1 \in E \/ w[k] \notin {">", "\\"}
    IN  {w \in UNION {[1..n -> Alphabet[r]] : n \in 0..(MaxLength[r] - 4)} :
            \E E \in SUBSET DOMAIN w : Escaping(w, E)}

\* The spellings of a literal character.
Escapes(r, c) ==
    CASE c \in Braces -> {}
      [] c = ":" -> {<<"\\", ":">>} \cup (IF r = "fiber" THEN {<<":">>} ELSE {})
      [] c = "\\" -> IF r = "gin" THEN {} ELSE IF r = "echo" THEN {<<c>>} ELSE {<<"\\", "\\">>}
      [] c = "*" \/ (c = "+" /\ r = "fiber") -> IF r = "fiber" THEN {<<"\\", c>>} ELSE {}
      [] OTHER -> {<<c>>} \cup (IF r = "fiber" THEN {<<"\\", c>>} ELSE {})

\* The spellings of one piece.
Forms(r, piece) ==
    CASE piece.is = "param" ->
            {<<":">> \o piece.text}
            \cup {<<":">> \o piece.text \o <<"<">> \o w \o <<">">> :
                    w \in IF r = "fiber" THEN Constraints(r) ELSE {}}
      [] piece.is = "rest" -> {IF r = "gin" THEN <<"*">> \o piece.text ELSE <<Head(piece.text)>>}
      [] piece.is = "literal" -> Escapes(r, Head(piece.text))

\* Literal text up to the end of the segment of rest, colons escaped.
StaticSegment(rest) ==
    \A k \in 1..(SegmentEnd(rest, 1) - 1) :
        rest[k] # "*" /\ (rest[k] = ":" => k > 1 /\ rest[k - 1] = "\\")

\* Whether the router reads form as the piece when rest follows it.
Reads(r, piece, form, rest) ==
    LET c == CharAt(rest, 1)
    IN  CASE piece.is = "rest" -> r = "fiber" \/ rest = <<>>
          [] piece.is = "param" ->
                \/ c \in {End, "/"}
                \/ r = "echo" /\ EscapedColon(rest, 1) /\ StaticSegment(rest)
                \/ r = "fiber" /\ c \in {"-", ".", "\\"}
          [] piece.is = "literal" ->
                /\ r = "echo" /\ form = <<"\\">> => c # ":"
                /\ r = "fiber" /\ form = <<":">> => c = ":"

\* The words that take one more piece than some shorter one: shorter[k + 1] holds
\* those of length k, as pairs of a document path and a word.
Longer(r, shorter) ==
    LET n == Len(shorter)
        spellings == UNION {{piece} \X Forms(r, piece) : piece \in Pieces(r)}
        fitting == {x \in spellings \X UNION {shorter[k] : k \in 1..n} :
                        /\ Len(x[1][2]) + Len(x[2][2]) = n
                        /\ Reads(r, x[1][1], x[1][2], x[2][2])}
    IN  {<<<<x[1][1]>> \o x[2][1], x[1][2] \o x[2][2]>> : x \in fitting}

\* Of the paths themselves, with the slash that Echo adds.
Longest(r) == IF r = "echo" THEN MaxLength[r] + 1 ELSE MaxLength[r]

\* Grammar[r][k + 1]: the document paths with their words of k characters.
Grammar ==
    [r \in Routers |->
        LET words[n \in 0..Longest(r)] ==
                IF n = 0 THEN <<{<<<<>>, <<>>>>}>>
                ELSE Append(words[n - 1], Longer(r, words[n - 1]))
        IN  words[Longest(r)]]

Spelled == [r \in Routers |-> [n \in DOMAIN Grammar[r] |-> {e[2] : e \in Grammar[r][n]}]]

\* Echo ignores what follows its wildcard.
Read ==
    LET star == FirstOf(path, 1, {"*"})
    IN  IF router = "echo" /\ star <= Len(path) THEN SubSeq(path, 1, star) ELSE path

Plain(ps) ==
    [k \in DOMAIN ps |->
        IF router = "fiber" /\ ps[k].is = "rest" THEN CatchAll(<<Head(ps[k].text)>>) ELSE ps[k]]

\* A translated path names the parameters and the text that the router reads
\* in it (OpenAPI, openAPIPath): the document never describes another route.
AcceptedAsRead == i > Len(path) /\ ~failed => <<Plain(pieces), Read>> \in Grammar[router][Len(Read) + 1]

\* A path is refused only when no document path reads as it does
\* (the errors of OpenAPI and openAPIPath).
RefusedWhenUnread == failed => Read \notin Spelled[router][Len(Read) + 1]
=============================================================================
