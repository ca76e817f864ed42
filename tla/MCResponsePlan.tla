--------------------------- MODULE MCResponsePlan ---------------------------
(***************************************************************************)
(* Routes and configurations for the walk of ResponsePlan.  Words holds    *)
(* every kind of declaration once; two of them in a row meet each other    *)
(* and the defaults.  Alternations declares, omits and declares again the  *)
(* keys that Res and the Config also give, four words long.                *)
(***************************************************************************)
EXTENDS ResponsePlan

Word(status, key, omit, type) ==
    [status |-> status, key |-> key, omit |-> omit, type |-> type,
     describesBody |-> FALSE, rawContent |-> FALSE, wellFormed |-> TRUE]

Says(status) == Word(status, Unset, FALSE, "nil")
Omits(status) == Word(status, Unset, TRUE, "nil")

Alternations ==
    {Says(200), Omits(200), Says(401), Omits(401), Word(0, Default, FALSE, "nil"),
     Word(0, Default, TRUE, "nil")}

Words ==
    Alternations \cup
    {Says(101), Says(201), Says(304), Says(0), Says(99), Omits(204),
     Word(404, Range(4), FALSE, "nil"), Word(500, Range(4), FALSE, "nil"),
     Word(0, Range(1), FALSE, "other"), Word(0, Range(1), FALSE, "empty"), Word(0, Range(2), FALSE, "nil"),
     Word(0, Typo, FALSE, "nil"), Word(404, Default, FALSE, "other"),
     Word(204, Unset, FALSE, "other"), Word(204, Unset, FALSE, "empty"),
     [Says(201) EXCEPT !.describesBody = TRUE],
     [Says(302) EXCEPT !.describesBody = TRUE],
     [Says(204) EXCEPT !.rawContent = TRUE],
     [Says(404) EXCEPT !.rawContent = TRUE],
     [Says(404) EXCEPT !.wellFormed = FALSE]}

Tuples(words, n) == [1..n -> words]

Declared == Tuples(Words, 0) \cup Tuples(Words, 1) \cup Tuples(Words, 2)
              \cup Tuples(Alternations, 3) \cup Tuples(Alternations, 4)

Raw(key, content) == [key |-> key, is |-> "response", content |-> content]

\* The members of Raw.responses: a key once, as in every JSON object.
RawMembers ==
    {Raw(Code(200), TRUE), Raw(Code(204), TRUE), Raw(Code(204), FALSE), Raw(Code(404), FALSE),
     Raw(Range(1), TRUE), Raw(Range(4), TRUE), Raw(Default, FALSE), Raw(Extension, TRUE),
     Raw(Typo, FALSE), [key |-> Code(304), is |-> "reference", content |-> TRUE],
     [key |-> Code(500), is |-> "neither", content |-> FALSE]}

RawObjects == {raw \in SUBSET RawMembers : \A e, f \in raw : e.key = f.key => e = f}

MCRoutes ==
    [responses : Declared, res : {"empty", "res"}, public : BOOLEAN, outgoing : {FALSE},
     head : BOOLEAN, raw : {NoRaw}]
        \cup [responses : Tuples(Words, 1), res : {"res"}, public : {TRUE}, outgoing : {TRUE},
              head : {FALSE}, raw : {NoRaw}]
        \cup [responses : {<<>>}, res : {"res"}, public : {FALSE}, outgoing : {FALSE},
              head : BOOLEAN, raw : RawObjects]

MCConfigs ==
    {[errorType |-> "nil", defaultErrors |-> <<>>],
     [errorType |-> "error", defaultErrors |-> <<401, 500, 0>>]}
=============================================================================
