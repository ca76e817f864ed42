------------------------------ MODULE MCPaths -------------------------------
EXTENDS Paths

\* Every router, with the characters that its scanner tells apart; a plus
\* means something to Fiber, and is a letter of a name in Gin and Echo.
AllRouters == {"gin", "echo", "fiber"}
Characters ==
    [r \in AllRouters |->
        IF r = "fiber" THEN {"a", "/", ":", "*", "\\", "<", ">"}
        ELSE {"+", "/", ":", "*", "\\", "{"}]

\* A constraint of Fiber that holds an escaped > takes six characters.
Lengths == [r \in AllRouters |-> IF r = "fiber" THEN 6 ELSE 5]
=============================================================================
