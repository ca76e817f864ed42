\* Every order of three to five reflections.
CONSTANTS
    order = order  user = user  user2 = user2  bodyLike = bodyLike  twin = twin
    anonA = anonA  anonB = anonB  named = named  body = body  body2 = body2
    Types = {order, user, user2, bodyLike, twin, anonA, anonB, named, body, body2}
    Anonymous = {anonA, anonB, named, body, body2}
    NoType = NoType
    Names <- MCNames
    DefaultName <- MCDefaultName
    Overrides <- MCOverrides
    Programs <- MCPrograms
SPECIFICATION Spec
INVARIANTS
    EveryTypeHasComponent
    AnonymousAvoidsNamed
    DuplicateIsReal
PROPERTY Terminates
