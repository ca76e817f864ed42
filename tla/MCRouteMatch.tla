---------------------------- MODULE MCRouteMatch ----------------------------
(***************************************************************************)
(* Templates of one and two segments and a catch-all; every set of up to   *)
(* three of them documented for GET, with and without a HEAD route.        *)
(***************************************************************************)
EXTENDS RouteMatch

Literal(value) == [kind |-> "literal", text |-> value]
Param == [kind |-> "param"]
Rest == [kind |-> "rest"]
Mixed(values) == [kind |-> "mixed", fits |-> values]

\* In the order of their strings: literals sort before a brace.
Listed ==
    <<<<Literal("a"), Rest>>,
      <<Literal("a"), Literal("b")>>,
      <<Literal("a"), Literal("")>>,
      <<Literal("a"), Param>>,
      <<Literal("a"), Mixed({"b", "b.c"})>>,
      <<Literal("a"), Mixed({"b.c", "x.c"})>>,
      <<Param, Literal("b")>>,
      <<Param, Rest>>,
      <<Param>>,
      <<Mixed({"a", "ab"}), Literal("b")>>>>

MCTemplates == {Listed[i] : i \in DOMAIN Listed}
MCStringOrder == [t \in MCTemplates |-> CHOOSE i \in DOMAIN Listed : Listed[i] = t]

MCValues == {"", "a", "ab", "b", "b.c", "x.c"}
\* Each tells two of the templates apart.
MCPaths ==
    {<<"x.c">>, <<"a", "">>, <<"a", "a">>, <<"a", "b">>, <<"a", "b.c">>, <<"a", "x.c">>, <<"ab", "b">>,
     <<"b", "b">>, <<"a", "b", "b">>}

\* Up to three templates under GET, and at most one under HEAD.
MCDocuments ==
    {{<<"GET", t>> : t \in {a, b, c}} \cup {<<"HEAD", t>> : t \in heads} :
        a \in MCTemplates, b \in MCTemplates, c \in MCTemplates,
        heads \in {{}, {<<Literal("a"), Param>>}}}
=============================================================================
