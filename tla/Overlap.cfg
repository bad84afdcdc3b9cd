SPECIFICATION FairSpec
CONSTANTS
    NoCap = NoCap
    NoRole = NoRole
    Gone = Gone
    NoPolicy = NoPolicy
    u1 = u1
    u2 = u2
    tg_consumer = tg_consumer
    app = app
    sso = sso
    opus = opus
    Roles <- MCRoles
    Models <- MCModels
    IdcRoles <- MCIdc
    Consumer = tg_consumer
    Users <- MCUsers
    Rank <- MCRank
    Ticks = {"tick", "manual"}
    Scheduled = {"tick"}
    Requests = {"r"}
    Ops = {"run_now", "unmanage", "cur_sync"}
    InitRows <- MCForced
    Orgs <- MCOneOrg
    Caps <- MCNoCaps
    MaxSpend = 1
    MaxUnbilled = 0
    MaxMoves = 2
PROPERTIES
    Convergence
    CommitKeepsDenials
