\* Every declaration alone and in pairs, the alternations up to four long,
\* with and without Config.DefaultErrors, and every object of eleven raw members,
\* on GET and on HEAD.
SPECIFICATION Spec
CONSTANTS
    NoRaw = NoRaw
    Statuses = {101, 200, 201, 204, 302, 304, 401, 404, 500}
    Routes <- MCRoutes
    Configs <- MCConfigs
INVARIANTS
    LastWordStands
    DemandedIsAllowed
    AllowedIsDocumented
    NoForbiddenContent
    SomeResponse
