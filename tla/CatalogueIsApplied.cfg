SPECIFICATION LogsSpec
CONSTANTS
    Regions = {"g"}
    SeedRegions = {"g"}
    Saves <- Catalogues
    Puts = {"a", "b"}
    MaxLogs = 4
INVARIANTS
    CatalogueIsApplied
CHECK_DEADLOCK FALSE
