\* Programs whose recorder wraps the mux itself or the production handler.
CONSTANTS
    c1 = c1  c2 = c2
    NoRoute = NoRoute
    NoEntry = NoEntry
    NoReport = NoReport
    AnyMethod = AnyMethod
    Methods = {"GET", "HEAD", "POST"}
    Empty = ""
    Values <- MCValues
    Templates <- MCTemplates
    StringOrder <- MCStringOrder
    Clients = {c1, c2}
    Paths <- MCPaths
    Setups <- MCSetups
    Guarded = {"route", "subtree"}
    Declared <- MCDeclared
    Defaults = {404}
    Skips <- HealthSkipped
    MaxRequests = 3
SPECIFICATION Spec
INVARIANTS
    GapsAreTrue
    DriftIsTrue
    ReportIsExact
    DocumentIsNotDrift
SYMMETRY ClientSymmetry
CHECK_DEADLOCK FALSE
