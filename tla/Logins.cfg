\* No deadlock check: the bounds stop every part.
SPECIFICATION LoginsSpec
CONSTANTS
    People = {"boot", "ann"}
    Boot = "boot"
    RoleRequests = {r, s}
    MaxAccess = 3
    Emails = {"ann"}
    TeamIds = {t1, t2, t3}
    TeamRequests = {"r", "s"}
    MaxMoves = 4
    Root = Root
    Absent = Absent
    NoTeam = NoTeam
    Providers = {"okta", "idc"}
    EnvProvider = "okta"
    NoProvider = NoProvider
    SamlRequests = {r, s}
    MaxSaml = 4
SYMMETRY Symmetry
INVARIANTS
    TypesOK
    NoHalfState
    Hierarchy
    Memberships
    LoginPage
PROPERTIES
    OrgAdminStays
CHECK_DEADLOCK FALSE
