------------------------------ MODULE MCNaming ------------------------------
(***************************************************************************)
(* Programs of three to five reflections, in every order: named types (two  *)
(* called AnonymousN by their author, one that bears the name of a         *)
(* generated body, two of one name), anonymous structs and bodies, one of   *)
(* them also a type of its own.                                            *)
(***************************************************************************)
EXTENDS Naming

CONSTANTS order, user, user2, bodyLike, twin, anonA, anonB, named, body, body2

MCDefaultName ==
    [t \in {order, user, user2, bodyLike, twin} |->
        IF t = user THEN AnonymousName(1)
        ELSE IF t = user2 THEN AnonymousName(2)
        ELSE IF t = bodyLike THEN BodyName(<<"Type", "Order">>) ELSE <<"Type", "Order">>]
MCNames == {<<"Type", "Order">>, AnonymousName(1), AnonymousName(2), AnonymousName(3), BodyName(<<"Type", "Order">>)}
MCOverrides == [t \in {named} |-> AnonymousName(3)]

OfType(t) == [type |-> t, request |-> NoType]
OfBody(b, t) == [type |-> b, request |-> t]

Orders(items, length) ==
    UNION {{p \in [1..n -> items] : \A i, j \in 1..n : i # j => p[i] # p[j]} : n \in 1..length}

\* The five whose names contend for numbers, and any three of all.
MCPrograms ==
    Orders({OfType(user), OfType(user2), OfType(named), OfType(anonA), OfType(anonB)}, 5)
        \cup Orders({OfType(order), OfType(user), OfType(bodyLike), OfType(twin), OfType(anonA), OfType(anonB),
                    OfType(named), OfType(body), OfBody(body, order), OfBody(body, user), OfBody(body2, user)}, 3)

ASSUME RequestsInScope == NamedRequests
=============================================================================
