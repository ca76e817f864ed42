SPECIFICATION Spec
CONSTANTS
    Routers <- AllRouters
    Alphabet <- Characters
    MaxLength <- Lengths
CHECK_DEADLOCK FALSE
INVARIANTS
    AcceptedAsRead
    RefusedWhenUnread
