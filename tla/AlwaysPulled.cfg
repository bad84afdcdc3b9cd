\* No deadlock check: the flag may stay off.
SPECIFICATION JiraFairSpec
CONSTANTS
    Sites = {"one", "two"}
    Synth = {}
    Keys = {2, 3}
    Home <- HomeOf
    PageSize = 1
    HardCap = 1
    MaxJira = 3
PROPERTIES
    AlwaysPulled
CHECK_DEADLOCK FALSE
