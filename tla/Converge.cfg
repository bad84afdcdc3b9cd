SPECIFICATION FairSpec
CONSTANTS
    NoCap = NoCap
    NoRole = NoRole
    Gone = Gone
    NoPolicy = NoPolicy
    u1 = u1
    u2 = u2
    tg_consumer = tg_consumer
    app = app
    sso = sso
    opus = opus
    Roles <- MCRoles
    Models <- MCModels
    IdcRoles <- MCIdc
    Consumer = tg_consumer
    Users <- MCOneUser
    Rank <- MCRank
    Ticks = {"tick"}
    Scheduled = {"tick"}
    Requests = {"r"}
    Ops = {"unmanage", "set_status", "set_role", "reapply", "delete", "register", "cur_sync", "operator", "fault", "set_org"}
    InitRows <- MCBound
    Orgs <- MCOrgs
    Caps <- MCNoCaps
    MaxSpend = 1
    MaxUnbilled = 1
    MaxMoves = 2
PROPERTIES
    Convergence
    LabelsSettle
