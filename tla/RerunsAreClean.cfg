SPECIFICATION MetricsSpec
CONSTANTS
    Prs = {"p"}
    Author <- MCAuthor
    MergedOn <- MCMergedOn
    IssueRefs <- MCIssueRefs
    JiraIssues = {"k", "j"}
    JiraKeys <- MCJiraKeys
    Says <- MCMoves
    People = {"ann"}
    Teams = {"t"}
    NoTeam = "-"
    Labels = {}
    LabelMaps <- MCLabelMaps
    Runs = {"tick", "hand"}
    Timer = "tick"
    HasPat = FALSE
    Days = {1}
    Bills = {}
    DailyBack = 89
    WeeksBack = 12
    WeekLen = 7
    MaxFacts = 4
INVARIANT
    RerunsAreClean
CHECK_DEADLOCK FALSE
\* No deadlock check: the bounds stop every part.
