SPECIFICATION Spec
CONSTANTS
    NoCap = NoCap
    NoRole = NoRole
    Gone = Gone
    NoPolicy = NoPolicy
    u1 = u1
    u2 = u2
    tg_consumer = tg_consumer
    app = app
    sso = sso
    opus = opus
    Roles <- MCRoles
    Models <- MCModels
    IdcRoles <- MCIdc
    Consumer = tg_consumer
    Users <- MCOneUser
    Rank <- MCRank
    Ticks = {"tick"}
    Scheduled = {"tick"}
    Requests = {"r"}
    Ops = {"manage", "unmanage", "force_block", "unblock", "set_cap", "set_status", "approve", "delete", "reapply", "register", "cur_sync", "new_month", "quota_reset", "set_org", "operator", "fault"}
    InitRows <- MCMixed
    Orgs <- MCOrgs
    Caps <- MCCaps
    MaxSpend = 1
    MaxUnbilled = 1
    MaxMoves = 2
INVARIANTS
    TypeOK
    OptIn
PROPERTIES
    IdcUntouched
CHECK_DEADLOCK FALSE
