----------------------------- MODULE MCSchemas -----------------------------
(***************************************************************************)
(* Programs over a small set of Go types: nested and recursive structs,    *)
(* embeddings that contend for names, unions, and requests with parameters *)
(* and form names.                                                         *)
(***************************************************************************)
EXTENDS Schemas, TLC

None == "none"

F(go, type) ==
    [go |-> go, type |-> type, json |-> None, dash |-> FALSE, omit |-> FALSE, always |-> FALSE,
     embedded |-> FALSE, hidden |-> FALSE, nulls |-> FALSE, in |-> None, as |-> None, form |-> None,
     disc |-> FALSE, variants |-> <<>>]
Text(go) == F(go, <<"text">>)
Embed(type) == [F(Last(type), type) EXCEPT !.embedded = TRUE]
Param(go, in, as) == [Text(go) EXCEPT !.in = in, !.as = as]
Disc == [Text("kind") EXCEPT !.disc = TRUE]
Data(type, variants) == [F("data", type) EXCEPT !.variants = variants]

MCDeclared ==
    [Item |-> <<Text("name"), F("note", <<"ptr", "text">>), F("free", <<"map", "any">>)>>,
     Order |-> <<F("item", <<"Item">>), F("items", <<"list", "ptr", "Item">>),
                 F("named", <<"map", "ptr", "Item">>), [F("next", <<"ptr", "Order">>) EXCEPT !.omit = TRUE]>>,
     Shop |-> <<F("last", <<"ptr", "Order">>), [F("memo", <<"list", "Item">>) EXCEPT !.nulls = TRUE]>>,
     Base |-> <<[F("Name", <<"ptr", "text">>) EXCEPT !.json = "name"], Text("Kind")>>,
     First |-> <<Embed(<<"Base">>), [Text("Name") EXCEPT !.json = "name", !.omit = TRUE]>>,
     Final |-> <<[Text("Name") EXCEPT !.json = "name", !.omit = TRUE], Embed(<<"Base">>)>>,
     Loose |-> <<Embed(<<"ptr", "Base">>), Text("extra")>>,
     Left |-> <<Text("Kind"), Text("A")>>,
     Named |-> <<[F("K", <<"list", "text">>) EXCEPT !.json = "Kind"], Text("A")>>,
     Both |-> <<Embed(<<"Left">>), Embed(<<"Base">>)>>,
     Tie |-> <<Embed(<<"Left">>), Embed(<<"ptr", "Named">>), [Text("Secret") EXCEPT !.hidden = TRUE]>>,
     Deep |-> <<Embed(<<"Both">>), [Embed(<<"Named">>) EXCEPT !.hidden = TRUE],
                [F("Dash", <<"ptr", "text">>) EXCEPT !.dash = TRUE, !.omit = TRUE, !.always = TRUE]>>,
     Detail |-> <<F("item", <<"Item">>), Embed(<<"ptr", "Base">>)>>,
     Holder |-> <<F("detail", <<"ptr", "Detail">>), F("all", <<"list", "Detail">>)>>,
     Event |-> <<Disc, Data(<<"any">>, <<"mail", "chat">>), F("at", <<"ptr", "text">>)>>,
     Mail |-> <<Text("to"), F("about", <<"ptr", "Event">>), F("order", <<"ptr", "Order">>)>>,
     EventVariant1 |-> <<Text("text"), F("quote", <<"ptr", "Optional">>)>>,
     Optional |-> <<Disc, [Data(<<"ptr", "any">>, <<"chat">>) EXCEPT !.omit = TRUE]>>,
     Envelope |-> <<[Disc EXCEPT !.omit = TRUE], Data(<<"list", "ptr", "any">>, <<"mail", "note">>)>>,
     Pair |-> <<F("a", <<"ptr", "Envelope">>), F("b", <<"Envelope">>)>>,
     Lost |-> <<Data(<<"any">>, <<"mail", "chat">>)>>,
     Stranger |-> <<Disc, Data(<<"any">>, <<"mail", "nobody">>)>>,
     Patch |-> <<Param("ID", "path", "id"), Param("Q", "query", "q"), [Text("name") EXCEPT !.form = "title"],
                 [F("title", <<"ptr", "text">>) EXCEPT !.form = "name"], F("item", <<"Item">>)>>,
     Search |-> <<Param("Q", "query", "q")>>,
     Filter |-> <<Text("name"), Text("size")>>,
     Find |-> <<[Embed(<<"Filter">>) EXCEPT !.in = "query", !.as = "filter"], Embed(<<"ptr", "Base">>)>>,
     Shadow |-> <<Embed(<<"Base">>), [Param("Name", "header", "name") EXCEPT !.json = "name"],
                  [Text("skip") EXCEPT !.form = "-"]>>,
     Plain |-> <<[Text("a") EXCEPT !.form = "b", !.omit = TRUE], F("shop", <<"Shop">>)>>,
     Blanked |-> <<Param("Q", "query", "q"), [Text("Dash") EXCEPT !.dash = TRUE], Text("a")>>,
     Twice |-> <<Param("Q", "query", "q"), Param("R", "query", "q")>>,
     Typo |-> <<Param("ID", "path", "idd"), Text("a")>>,
     Clash |-> <<[Text("a") EXCEPT !.form = "b"], Text("b")>>,
     Empty |-> <<>>]

MCRequests == {"Patch", "Search", "Find", "Shadow", "Plain", "Blanked", "Twice", "Typo", "Clash", "Empty"}
MCBodyOf == [t \in MCRequests \cup {"Filter"} |-> t \o "Body"]
MCPlaceholders == [t \in MCRequests |-> {"id"}]
MCVariantType == [mail |-> "Mail", chat |-> "EventVariant1", note |-> "Item"]
MCBranchName(c, i, k) == c \o "Variant" \o ToString(i) \o (IF k = 1 THEN "" ELSE ToString(k))

Get(t) == [type |-> t, request |-> FALSE]
Post(t) == [type |-> t, request |-> TRUE]

MCPrograms ==
    {{Get("Order"), Get("Item"), Get("Shop"), Post("Plain")},
     {Get("First"), Get("Final"), Get("Loose"), Get("Base")},
     {Get("Both"), Get("Tie"), Get("Deep"), Get("Left")},
     {Get("Holder"), Get("Item"), Post("Patch"), Get("Patch")},
     {Get("Event"), Get("Shop"), Post("Find")},
     {Get("Event"), Get("EventVariant1"), Get("Pair"), Post("Search")},
     {Get("Mail"), Get("Pair"), Get("Optional"), Get("Order")},
     {Get("Lost"), Get("Event")}, {Get("Stranger"), Get("Optional")},
     {Post("Find"), Post("Shadow"), Get("Base"), Post("Empty")},
     {Post("Blanked"), Post("Twice"), Get("Filter")}, {Post("Typo"), Post("Find")}, {Post("Clash"), Post("Shadow")}}

\* A map of anything in a struct that is hoisted.
MapPrograms == {{Get("Order"), Get("Left")}}
=============================================================================
