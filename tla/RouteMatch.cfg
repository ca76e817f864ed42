\* Every set of up to three GET templates out of ten, in every map order.
SPECIFICATION Spec
CONSTANTS
    NoRoute = NoRoute
    Methods = {"GET", "HEAD"}
    Empty = ""
    Values <- MCValues
    Templates <- MCTemplates
    StringOrder <- MCStringOrder
    Paths <- MCPaths
    Documents <- MCDocuments
INVARIANTS
    NoRouteBeatsBest
    OrderDoesNotMatter
    NarrowerRouteWins
