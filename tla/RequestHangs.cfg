SPECIFICATION FairSpec
CONSTANTS
    NoCap = NoCap
    NoRole = NoRole
    Gone = Gone
    NoPolicy = NoPolicy
    u1 = u1
    u2 = u2
    tg_consumer = tg_consumer
    app = app
    sso = sso
    opus = opus
    Roles <- MCRoles
    Models <- MCModels
    IdcRoles <- MCIdc
    Consumer = tg_consumer
    Users <- MCOneUser
    Rank <- MCRank
    Ticks = {"tick"}
    Scheduled = {"tick"}
    Requests = {"r"}
    Ops = {"set_cap", "cur_sync"}
    InitRows <- MCBound
    Orgs <- MCOneOrg
    Caps <- MCCaps
    MaxSpend = 1
    MaxUnbilled = 0
    MaxMoves = 2
PROPERTIES
    Answered
CHECK_DEADLOCK FALSE
