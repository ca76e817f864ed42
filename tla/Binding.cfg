SPECIFICATION Spec
CONSTANTS
    Setups <- Programs
    Apps <- AllApps
    Engines <- AllEngines
    EnginesOf <- Routers
    Methods <- AllMethods
    OpenAPIMethods = {"GET", "HEAD", "POST"}
    AnyMethod = "ANY"
    Paths <- AllPaths
    DocPaths <- AllDocPaths
    OpenAPI <- Translation
    Bad = "bad"
    Untranslated <- AsSpelled
    Invalid = {"/q?", "/g//x"}
    Unescaped <- Unescape
    Refuses <- Refused
    Targets <- AllTargets
    Takes <- Taken
    Skips = {"/y"}
    Clients = {c1}
    NoSite = none
    Shared = "shared"
    MaxRequests = 1
CHECK_DEADLOCK FALSE
INVARIANTS
    RecordedAnswers
    ObservedIsDocumented
    AdoptIsExact
PROPERTIES
    ServedIsRecorded
