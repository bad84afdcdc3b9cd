\* No deadlock check: the bounds stop every part.
SPECIFICATION ReportsSpec
CONSTANTS
    NoCap = NoCap
    NoRole = NoRole
    MyRole = MyRole
    Roles <- MCRoles
    Models = {}
    Caps <- MCCaps
    Orgs <- MCOrgs
    MaxSpend = 2
    MaxUnbilled = 1
    Repos = {"r"}
    Pulls = {"a", "b", "c"}
    Syncs = {"tick", "hand"}
    TimerSync = "tick"
    PerPage = 1
    MaxPages = 2
    MaxHub = 3
    Sites = {"one", "synth", "two"}
    Synth = {"synth"}
    Keys = {1, 2, 3}
    Home <- HomeOf
    PageSize = 1
    HardCap = 2
    MaxJira = 3
    Prs = {"p", "q"}
    Author <- MCAuthor
    MergedOn <- MCMergedOn
    IssueRefs <- MCIssueRefs
    JiraKeys <- MCJiraKeys
    JiraIssues = {"k", "j"}
    Says <- MCSays
    People = {"ann"}
    Teams = {"t"}
    NoTeam = "-"
    Labels = {}
    LabelMaps <- MCLabelMaps
    Runs = {"tick", "hand"}
    Timer = "tick"
    HasPat = FALSE
    Days = {1, 2}
    Bills = {6}
    DailyBack = 89
    WeeksBack = 12
    WeekLen = 7
    MaxFacts = 3
INVARIANTS
    TypesOK
    PassSettles
    TotalsAddUp
    NothingSkipped
    OrgTokenIsKept
PROPERTIES
    WarnOncePerCross
    MailsAlternate
    CatchesUp
    Arrive
    Settles
CHECK_DEADLOCK FALSE
