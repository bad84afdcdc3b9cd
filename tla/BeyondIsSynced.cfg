\* No deadlock check: the bound on what happens at GitHub stops it.
SPECIFICATION HubSpec
CONSTANTS
    Repos = {"r"}
    Pulls = {"a", "b", "c"}
    Syncs = {"tick"}
    TimerSync = "tick"
    PerPage = 1
    MaxPages = 3
    MaxHub = 4
INVARIANTS
    BeyondIsSynced
CHECK_DEADLOCK FALSE
