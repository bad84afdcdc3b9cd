\* No deadlock check: the bounds stop every part.
SPECIFICATION OperationsSpec
CONSTANTS
    Jobs = {"cur", "deny"}
    Cron = {"deny"}
    Triggerable = {"cur", "deny"}
    Pipeline <- CurThenDeny
    Period = 1
    MaxPause = 2
    MaxTroubles = 2
    Regions = {"g", "h"}
    SeedRegions = {"g"}
    Saves <- TwoRegions
    Puts = {"a", "b"}
    MaxLogs = 4
    Tasks = {"t", "u"}
    NoTask = NoTask
    MaxUpgrade = 3
    Accounts = {"x", "y"}
    None = None
    OldConfigs = {None, "x"}
    Exports <- Shells
    MaxInstall = 1
INVARIANTS
    TypesOK
    OwnAnswers
    RowsMatch
PROPERTIES
    InstallHeals
    UpgradeHolds
    LoggingHolds
    JobsGoOn
CHECK_DEADLOCK FALSE
