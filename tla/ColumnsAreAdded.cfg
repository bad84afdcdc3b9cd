SPECIFICATION UpgradeFairSpec
CONSTANTS
    Tasks = {"t", "u"}
    NoTask = "none"
    MaxUpgrade = 3
PROPERTY
    ColumnsAreAdded
CHECK_DEADLOCK FALSE
