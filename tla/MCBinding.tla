------------------------------ MODULE MCBinding -----------------------------
(***************************************************************************)
(* Small programs for Binding.  /a\:b is Gin's escaped colon: its spelling *)
(* after the first request is that of a parameter b.  /{g}/x has a brace   *)
(* in the prefix of its group, /g//x an empty segment.                     *)
(***************************************************************************)
EXTENDS Binding

AllEngines == {"gin1", "gin2", "echo", "main", "host", "other", "fiber", "gorilla", "mux", "none"}
AllApps == {"gin1", "gin2", "echo", "main", "fiber", "gorilla"}
Routers == [app \in AllApps |-> IF app = "main" THEN <<"main", "host", "other">> ELSE <<app>>]

AllMethods == {"GET", "HEAD", "POST", "ANY"}
Escaped == "/a\\:b"
AllPaths == {"/x", "x", "/y", "/a:b", Escaped, "/{g}/x", "/g//x", "/q?", "/a/:id", "/a/b"}
AllDocPaths == (AllPaths \ {"x", Escaped, "/a/:id"}) \cup {"/a{b}", "/a/{id}"}

Translation ==
    [kind \in Kinds |-> [p \in AllPaths |->
        CASE p = "x" -> "/x"
          [] p = "/a:b" -> IF kind \in Gated THEN "/a{b}" ELSE p
          [] p = Escaped -> "/a:b"
          [] p = "/a/:id" -> "/a/{id}"
          [] p = "/{g}/x" -> IF kind \in {"gin", "echo", "echov4", "fiber"} THEN "bad" ELSE p
          [] p = "/g//x" -> IF kind \in {"gorilla", "document"} THEN "bad" ELSE p
          [] OTHER -> p]]

AsSpelled == [p \in AllPaths |-> IF p \in AllDocPaths THEN p ELSE Translation["document"][p]]
Unescape == [p \in AllPaths |-> IF p = Escaped THEN "/a:b" ELSE p]

AllTargets == {"/x", "/y", "/a:b", "/a5", "/a/b", "/g//x", "/q?"}
Taken ==
    [p \in AllPaths |->
        CASE p = "x" -> {"/x"}
          [] p = "/a:b" -> {"/a:b", "/a5"}
          [] p = Escaped -> {"/a:b"}
          [] p = "/a/:id" -> {"/a/b"}
          [] OTHER -> {p} \cap AllTargets]

Route(own, kind, engine, method, path) ==
    [kind |-> kind, own |-> own, engine |-> engine, method |-> method, rel |-> path, path |-> path, id |-> 0]
Own(kind, engine, method, path) == Route(TRUE, kind, engine, method, path)
Foreign(kind, engine, method, path) == Route(FALSE, kind, engine, method, path)
Grouped(route, rel) == [route EXCEPT !.rel = rel, !.id = 1]
Documents(method, path) == Own("document", "none", method, path)

\* Gin: engines whose routes come to share a spelling, with a route of a
\* router as the second or third; a route that Bind refuses after Gin has it.
GinSpellings ==
    {{Own("gin", "gin1", "GET", Escaped), Own("gin", "gin2", "GET", "/a:b"), Documents("GET", "/a:b")},
     {Own("gin", "gin1", "GET", Escaped), Foreign("gin", "gin2", "GET", "/a:b"), Foreign("gin", "gin2", "GET", "/x")},
     {Own("gin", "gin1", "GET", "/q?"), Own("gin", "gin1", "GET", "/x"), Own("gin", "gin2", "GET", "/x")}}

\* Gin: a route of the program itself with an escaped colon, that Document names.
GinRenames == {{Foreign("gin", "gin1", "GET", Escaped), Documents("GET", "/a:b")}}

\* Echo: a route replaces another, a prefix makes a path that cannot be
\* documented, a route serves every method.
EchoReplaces ==
    {{Own("echo", "echo", "GET", "/x"), Grouped(Own("echo", "echo", "GET", "/x"), "x"),
      Foreign("echo", "echo", "ANY", "/a/b")},
     {Grouped(Own("echo", "echo", "GET", "/{g}/x"), "/x"), Own("echo", "echo", "GET", "/a/:id"),
      Foreign("echo", "echo", "GET", "/a/b")}}

\* Echo v4: one key on the default router and on a host router.
EchoTwins ==
    {{Own("echov4", "main", "GET", "/x"), Foreign("echov4", "host", "GET", "/x"),
      Own("echov4", "main", "POST", "/x")},
     {Own("echov4", "host", "GET", "/x"), Grouped(Own("echov4", "host", "GET", "/x"), "x"),
      Foreign("echov4", "other", "GET", "/x")},
     {Own("echov4", "main", "GET", "/x"), Foreign("echov4", "host", "GET", "/x"), Documents("GET", "/x")},
     {Own("echov4", "main", "GET", "/x"), Own("echov4", "host", "GET", "/x")}}

\* Fiber: routes that hide each other, HEAD on GET routes, a registration
\* that fails because Document came first or its method is no OpenAPI method.
FiberOrder ==
    {{Own("fiber", "fiber", "GET", "/a/:id"), Own("fiber", "fiber", "GET", "/a/b"), Documents("GET", "/a/b")},
     {Own("fiber", "fiber", "GET", "/x"), Own("fiber", "fiber", "HEAD", "/x"),
      Grouped(Own("fiber", "fiber", "GET", "/x"), "x")},
     {Own("fiber", "fiber", "ANY", "/x"), Foreign("fiber", "fiber", "GET", "/y")}}

\* Routers that serve a route at once.
Ungated ==
    {{Own("gorilla", "gorilla", "GET", "/x"), Grouped(Own("gorilla", "gorilla", "GET", "/g//x"), "/x"),
      Foreign("gorilla", "gorilla", "ANY", "/a/b")},
     {Own("std", "mux", "GET", "/x"), Foreign("gorilla", "gorilla", "GET", "/a/b"), Documents("GET", "/a/b")}}

Programs == GinSpellings \cup GinRenames \cup EchoReplaces \cup EchoTwins \cup FiberOrder \cup Ungated

Refused == [kind \in Kinds |-> IF kind = "gin" THEN {"/g//x"} ELSE {}]
=============================================================================
