\* No deadlock check: the bounds stop every part.
SPECIFICATION SpendSpec
CONSTANTS
    Roles = {"etl", "batch"}
    NoRow = NoRow
    MaxPeriods = 2
    MaxMoves = 4
    Runs = {p1, p2}
    Docs = {a, b}
    NoDoc = NoDoc
    Limit = 3
    MaxId = 12
    MaxChanges = 1
    Arns = {"role1", "role2", "key"}
    Keys = {"key"}
    Session <- SessionOf
    Owners = {"ann"}
    MaxBill = 2
    PageSize = 6
    Syncs = {"tick", "hand"}
    Scheduled = "tick"
    MaxCur = 2
    People = {"ann", "bob", "ivy"}
    Kind <- KindOf
    RoleOf <- RolesOf
    AllRoles = {"dev", "sso", "consumer"}
    Consumer = "consumer"
    Sweeps = {"daily", "hand"}
    Daily = "daily"
    MaxDrift = 2
INVARIANTS
    TypesOK
    AlertOnce
    BlockedIsDenied
PROPERTIES
    ExhaustedIsDenied
    AloneSucceeds
    InForceAtLast
    Publishes
    MonthConverges
    TableSettles
    RunsAreExact
CHECK_DEADLOCK FALSE
