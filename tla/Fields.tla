------------------------------- MODULE Fields -------------------------------
(***************************************************************************)
(* The fields of a Go struct on the wire (fields.go, body.go, params.go):  *)
(* which of them JSON writes, which are parameters of a request, and what  *)
(* body a request keeps without them.                                      *)
(*                                                                         *)
(* A type is a sequence that ends in a leaf: <<"ptr", "list", "Item">> is  *)
(* *[]Item.  A leaf is a struct, "text" (any scalar) or "any".             *)
(***************************************************************************)
EXTENDS Naturals, Sequences, SequencesExt

CONSTANTS
    Declared,   \* Declared[t]: the fields of the struct t, in order
    BodyOf,     \* BodyOf[t]: the generated type of the body of a request t
    NoTag

\* A field.  json and form are tags; dash is json:"-,omitempty", which names a
\* property "-"; always is jsonschema:"required", hidden jsonschema:"-".
Field ==
    [go : STRING, type : Seq(STRING), json : STRING, dash : BOOLEAN, omit : BOOLEAN, always : BOOLEAN,
     embedded : BOOLEAN, hidden : BOOLEAN, nulls : BOOLEAN, in : STRING, as : STRING, form : STRING,
     disc : BOOLEAN, variants : Seq(STRING)]

ASSUME FieldsAssumption ==
    /\ \A t \in DOMAIN Declared : \A i \in DOMAIN Declared[t] : Declared[t][i] \in Field
    /\ DOMAIN BodyOf \subseteq DOMAIN Declared
    /\ \A t, u \in DOMAIN BodyOf : BodyOf[t] = BodyOf[u] => t = u
    /\ Range(BodyOf) \cap DOMAIN Declared = {}

Structs == DOMAIN Declared \cup Range(BodyOf)

\* deref.
RECURSIVE Deref(_)
Deref(type) == IF Head(type) = "ptr" THEN Deref(Tail(type)) ELSE type

IsPointer(type) == Head(type) = "ptr"

\* promotes: an untagged embedded struct.
Promotes(f) ==
    f.embedded /\ f.json = NoTag /\ Len(Deref(f.type)) = 1 /\ Head(Deref(f.type)) \in DOMAIN Declared

\* fieldName.
WireName(f) == CASE f.dash -> "-" [] f.json # NoTag -> f.json [] OTHER -> f.go

IsParam(f) == f.in # NoTag

\* fieldCollector.field and collect: the candidates of the struct t, with an
\* embedded parameter left whole when the request is split.
RECURSIVE Collect(_, _, _, _)
Collect(t, depth, optional, split) ==
    FlattenSeq([i \in DOMAIN Declared[t] |->
        LET f == Declared[t][i] IN
        IF Promotes(f) /\ ~(split /\ IsParam(f))
        THEN IF f.hidden THEN <<>>
             ELSE Collect(Head(Deref(f.type)), depth + 1, optional \/ IsPointer(f.type), split)
        ELSE <<[field |-> [f EXCEPT !.omit = @ \/ optional], depth |-> depth,
                tagged |-> f.json # NoTag \/ f.dash, optional |-> optional]>>])

\* dominantBodyField.
Dominant(fields) ==
    LET scan[i \in DOMAIN fields] ==
            IF i = 1 THEN [winner |-> fields[1], unique |-> TRUE]
            ELSE LET w == scan[i - 1].winner
                     f == fields[i]
                 IN  CASE f.depth < w.depth \/ (f.depth = w.depth /\ f.tagged /\ ~w.tagged) ->
                            [winner |-> f, unique |-> TRUE]
                       [] f.depth = w.depth /\ f.tagged = w.tagged -> [winner |-> w, unique |-> FALSE]
                       [] OTHER -> scan[i - 1]
    IN  scan[Len(fields)]

SameName(c, all) == SelectSeq(all, LAMBDA o : WireName(o.field) = WireName(c.field))
Winners(all) == SelectSeq(all, LAMBDA c : Dominant(SameName(c, all)) = [winner |-> c, unique |-> TRUE])
FieldOf(candidates) == [i \in DOMAIN candidates |-> candidates[i].field]

\* jsonFields of a declared struct.
JsonFields[t \in DOMAIN Declared, split \in BOOLEAN] == FieldOf(Winners(Collect(t, 0, FALSE, split)))

\* Every way from the struct t down embedded structs to a field.
Paths[t \in DOMAIN Declared] ==
    UNION {LET f == Declared[t][i]
               Below == {<<f>> \o p : p \in Paths[Head(Deref(f.type))]}
           IN  {<<f>>} \cup (IF f.embedded /\ Head(Deref(f.type)) \in DOMAIN Declared THEN Below ELSE {})
           : i \in DOMAIN Declared[t]}

Parents(p) == {p[i] : i \in 1..(Len(p) - 1)}

\* exportedFields: of the fields that Go can select from t (VisibleFields),
\* those that no named object and no parameter owns.
ExportedFields[t \in DOMAIN Declared] ==
    {Last(p) : p \in {p \in Paths[t] :
        /\ \A q \in Paths[t] \ {p} : Last(q).go = Last(p).go => Len(p) < Len(q)
        /\ Promotes(Last(p)) => IsParam(Last(p))
        /\ \A f \in Parents(p) : Promotes(f) /\ ~IsParam(f)}}

WithoutParams(fields) == SelectSeq(fields, LAMBDA f : ~IsParam(f) /\ (f.dash => f.omit))
AsBody(fields) ==
    [i \in DOMAIN fields |-> [fields[i] EXCEPT !.json = IF fields[i].dash THEN NoTag ELSE WireName(fields[i]),
                                               !.embedded = FALSE]]

\* bodyFields: what stays of a request, each field under its wire name.  From
\* json:"-," bodyJSONTag makes json:"-", and the field is gone.
BodyFields[t \in DOMAIN Declared] == AsBody(WithoutParams(JsonFields[t, TRUE]))

\* requestBody: the type of the body, or NoTag when a request has none.
RequestBody[t \in DOMAIN Declared] ==
    CASE Declared[t] = <<>> -> NoTag
      [] ~\E f \in ExportedFields[t] : IsParam(f) -> t
      [] \A f \in Range(JsonFields[t, TRUE]) : IsParam(f) -> NoTag
      [] OTHER -> BodyOf[t]

RequestOf(body) == CHOOSE t \in DOMAIN BodyOf : BodyOf[t] = body

\* jsonFields of a struct or a generated body.
FieldsOf[t \in Structs] ==
    IF t \in DOMAIN Declared THEN JsonFields[t, FALSE] ELSE BodyFields[RequestOf(t)]

AsCandidates(fields) ==
    [i \in DOMAIN fields |-> [field |-> fields[i], depth |-> 0, tagged |-> TRUE, optional |-> FALSE]]

\* collectBodyFields of a struct or a generated body.
Candidates[t \in Structs] ==
    IF t \in DOMAIN Declared THEN Collect(t, 0, FALSE, FALSE) ELSE AsCandidates(BodyFields[RequestOf(t)])

\* checkHiddenFields: the struct t has a field that its schema hides and JSON
\* does not.
Hides[t \in Structs] ==
    IF t \in DOMAIN Declared
    THEN \E f \in Range(Declared[t]) : f.hidden \/ (Promotes(f) /\ Hides[Head(Deref(f.type))])
    ELSE \E f \in Range(BodyFields[RequestOf(t)]) : f.hidden

\* requiredField.
RequiredField(f) == ~f.omit \/ f.always

\* taggedParams refuses a name that is repeated, and strayPathField one that no
\* placeholder of the route has.
GoodParams(params, placeholders) ==
    /\ \A f, g \in params : f.in # "path" /\ <<f.in, f.as>> = <<g.in, g.as>> => f = g
    /\ \A f \in params : f.in = "path" => f.as \in placeholders

\* formName.
FormName(f) == IF f.form # NoTag THEN f.form ELSE WireName(f)
=============================================================================
