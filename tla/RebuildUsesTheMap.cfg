SPECIFICATION MetricsSpec
CONSTANTS
    Prs = {"p", "q"}
    Author <- MCAuthor
    MergedOn <- MCMergedOn
    IssueRefs <- MCIssueRefs
    JiraKeys <- MCJiraKeys
    JiraIssues = {"k", "j"}
    Says <- MCSays
    People = {"ann"}
    Teams = {"t"}
    NoTeam = "-"
    Labels = {"l"}
    LabelMaps <- MCLabelMaps
    Runs = {"tick", "hand"}
    Timer = "tick"
    HasPat = FALSE
    Days = {1, 2}
    Bills = {6}
    DailyBack = 89
    WeeksBack = 12
    WeekLen = 7
    MaxFacts = 2
PROPERTY
    RebuildUsesTheMap
CHECK_DEADLOCK FALSE
