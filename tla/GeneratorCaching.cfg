CONSTANTS
    list = list  health = health  done = done  api = api  root = root  v1 = v1
    GET = GET  items = items  healthz = healthz  spec = spec  Order = Order  Line = Line
    bill = bill  all = all
    c1 = c1  c2 = c2
    Routes = {list}
    Routers = {api}
    NoRouter = NoRouter
    Prefixes = {v1}
    NoPrefix = NoPrefix
    NoPath = NoPath
    Methods = {GET}
    Patterns = {items}
    Decl <- MCDecl
    Documented <- MCDocumented
    Hierarchy <- MCHierarchy
    CatchAlls = {}
    Declared = {}
    Foreign = Foreign
    Callers = {c1, c2}
    Requests <- BothMethods
    Webhooks = {done}
    WebhookKey <- MCWebhookKey
    PossibleMounts = {}
    Strays = {}
    Types = {Order, Line}
    Names <- MCNames
    VariantNames = {}
    NoType = NoType
    NoName = NoName
    DefaultName <- MCDefaultName
    Uses <- MCUses
    Unions <- NoUnions
    NoDocument = NoDocument
    NoError = NoError
    NoAnswer = NoAnswer
    Refused = Refused
    MaxInputs = 3
    MaxAttempts = 2
SPECIFICATION FairSpec
INVARIANTS
    DocumentIsComplete
    KeptErrorIsCurrent
    LoggedAtMostOnce
    OneBuildPerBrokenSpec
PROPERTIES
    PromiseKept
    FailuresReachTheLog
    KeptPanicsReachBuild
    DocumentRoutesAreMarked
CHECK_DEADLOCK FALSE
