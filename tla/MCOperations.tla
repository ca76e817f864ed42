---------------------------- MODULE MCOperations ----------------------------
(***************************************************************************)
(* Small programs for Operations: each site and callback by its name.      *)
(***************************************************************************)
EXTENDS Operations

MCMethods == {"GET", "POST"}
MCPaths == {"/a", "/b", "event", "done"}
MCIds == {"getA", "getB", "postA", "sent", "other"}

MCDerivedId ==
    [m \in MCMethods |-> [p \in MCPaths |->
        CASE p = "/a" /\ m = "GET" -> "getA" [] p = "/a" -> "postA" [] p = "/b" -> "getB" [] OTHER -> "none"]]

Plain(kind, method, path) ==
    [kind |-> kind, method |-> method, path |-> path, url |-> path, id |-> "none", raw |-> "none",
     public |-> FALSE, security |-> {}, links |-> {}, callbacks |-> <<>>, late |-> FALSE, catchAll |-> FALSE]

Route(method, path) == Plain("route", method, path)
Webhook(method, path) == Plain("webhook", method, path)
CallbackTo(method, path) == Plain("callback", method, path)

MCDeclared ==
    [getA |-> Route("GET", "/a"),
     lateA |-> [Route("GET", "/a") EXCEPT !.late = TRUE],
     namedA |-> [Route("GET", "/a") EXCEPT !.id = "other", !.late = TRUE],
     filesA |-> [Route("GET", "/a") EXCEPT !.id = "other", !.late = TRUE, !.catchAll = TRUE],
     linkB |-> [Route("GET", "/b") EXCEPT !.links = {"getA"}],
     stolenB |-> [Route("GET", "/b") EXCEPT !.raw = "getA"],
     bothB |-> [Route("GET", "/b") EXCEPT !.raw = "getA", !.id = "other"],
     publicB |-> [Route("GET", "/b") EXCEPT !.public = TRUE, !.security = {"key"}],
     securedA |-> [Route("POST", "/a") EXCEPT !.security = {"key"}, !.callbacks = <<"nest">>],
     secondB |-> [Route("POST", "/b") EXCEPT !.callbacks = <<"nest", "sent">>],
     twiceB |-> [Route("POST", "/b") EXCEPT !.callbacks = <<"sent", "sent">>],
     hook |-> [Webhook("POST", "event") EXCEPT !.links = {"other", "getA"}, !.callbacks = <<"sent">>],
     quiet |-> [Webhook("GET", "event") EXCEPT !.callbacks = <<"sent">>],
     quietAgain |-> Webhook("GET", "event"),
     plainTwice |-> [Route("POST", "/a") EXCEPT !.callbacks = <<"plain", "plain">>],
     plainBoth |-> [Route("POST", "/b") EXCEPT !.callbacks = <<"plain", "plainUrl">>],
     plain |-> CallbackTo("GET", "done"),
     plainUrl |-> [CallbackTo("GET", "done") EXCEPT !.url = "/b"],
     hookAgain |-> [Webhook("POST", "event") EXCEPT !.id = "postA"],
     hookGet |-> [Webhook("GET", "event") EXCEPT !.security = {"nokey"}],
     nest |-> [CallbackTo("POST", "event") EXCEPT !.callbacks = <<"deep">>],
     sent |-> [CallbackTo("POST", "done") EXCEPT !.id = "sent"],
     deep |-> [CallbackTo("POST", "done") EXCEPT !.links = {"getA", "sent"}]]

MCPrograms ==
    {{"getA", "lateA", "linkB", "hook"},
     {"namedA", "linkB", "stolenB", "hook"},
     {"filesA", "getA", "bothB", "hook"},
     {"securedA", "secondB", "lateA", "publicB"},
     {"securedA", "secondB", "twiceB", "hook"},
     {"getA", "secondB", "quiet", "hookAgain", "namedA"},
     {"securedA", "hookAgain", "hookGet", "hook", "lateA"},
     {"getA", "quiet", "quietAgain", "plainTwice", "plainBoth"}}
=============================================================================
