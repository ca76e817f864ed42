\* The document is mounted as GET and fetched with HEAD.
CONSTANTS
    c1 = c1  c2 = c2
    NoRoute = NoRoute
    NoEntry = NoEntry
    NoReport = NoReport
    AnyMethod = AnyMethod
    Methods = {"GET", "HEAD", "POST"}
    Empty = ""
    Values <- MCValues
    Templates <- MCTemplates
    StringOrder <- MCStringOrder
    Clients = {c1, c2}
    Paths <- MCPaths
    Setups <- HeadSetups
    Guarded = {}
    Declared <- MCDeclared
    Defaults = {404}
    Skips <- NoneSkipped
    MaxRequests = 2
SPECIFICATION Spec
INVARIANTS
    DocumentIsNotDrift
SYMMETRY ClientSymmetry
CHECK_DEADLOCK FALSE
