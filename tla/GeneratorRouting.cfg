CONSTANTS
    list = list  health = health  done = done  api = api  root = root  v1 = v1
    GET = GET  items = items  healthz = healthz  spec = spec  Order = Order  Line = Line
    bill = bill  all = all
    c1 = c1  c2 = c2
    Routes = {list, health}
    Routers = {api, root}
    NoRouter = NoRouter
    Prefixes = {v1}
    NoPrefix = NoPrefix
    NoPath = NoPath
    Methods = {GET}
    Patterns = {items}
    Decl <- TwoChi
    Documented <- MCDocumented
    Hierarchy <- MCHierarchy
    CatchAlls = {}
    Declared = {}
    Foreign = Foreign
    Callers = {c1}
    Requests <- AnyRequests
    Webhooks = {}
    WebhookKey <- MCWebhookKey
    PossibleMounts <- MCMounts
    Strays <- MCStrays
    Types = {Order}
    Names <- OneName
    VariantNames = {bill}
    NoType = NoType
    NoName = NoName
    DefaultName <- MCDefaultName
    Uses <- MCUses
    Unions <- ListUnion
    NoDocument = NoDocument
    NoError = NoError
    NoAnswer = NoAnswer
    Refused = Refused
    MaxInputs = 6
    MaxAttempts = 2
SPECIFICATION Spec
INVARIANTS
    StatusesAgree
PROPERTIES
    PublishedPathsAreLive
CHECK_DEADLOCK FALSE
