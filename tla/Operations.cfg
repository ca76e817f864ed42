SPECIFICATION Spec
CONSTANTS
    Programs <- MCPrograms
    Declared <- MCDeclared
    Depth = 3
    Methods <- MCMethods
    Ids <- MCIds
    NoId = "none"
    DerivedId <- MCDerivedId
    Paths <- MCPaths
    Schemes = {"key"}
CHECK_DEADLOCK FALSE
INVARIANTS
    UniqueIds
    LinksResolve
    LinkErrorsStand
    ParentsAreTrue
    NoOperationOverwritten
