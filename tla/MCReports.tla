------------------------------ MODULE MCReports ------------------------------
(***************************************************************************)
(* What people get to see, for TLC: the mails of SpendAlerts, the mirrors  *)
(* of GithubSync and JiraSync, and the tables of PrMetrics side by side.   *)
(* `active' says which of the four a behaviour is about, so the states are *)
(* theirs and not their product.                                           *)
(***************************************************************************)
EXTENDS MCSpendAlerts, GithubSync, MCJira, MCPrMetrics

VARIABLE active

ASSUME ReportsAssumption ==
    HubAssumption /\ JiraAssumption /\ PrAssumption /\ SharesAreWhole

reportsVars == <<active, vars, hubVars, jiraVars, metricsVars>>

\* The initial state of a part whose turn it is not is one of its own.
ReportsInit ==
    /\ active \in {"alerts", "hub", "jira", "metrics"}
    /\ Init /\ HubInit /\ JiraInit /\ MetricsInit
    /\ active # "alerts" => org = CHOOSE o \in Orgs : TRUE

ReportsNext ==
    \/ active = "alerts" /\ Next /\ UNCHANGED <<active, hubVars, jiraVars, metricsVars>>
    \/ active = "hub" /\ HubNext /\ UNCHANGED <<active, vars, jiraVars, metricsVars>>
    \/ active = "jira" /\ JiraNext /\ UNCHANGED <<active, vars, hubVars, metricsVars>>
    \/ active = "metrics" /\ MetricsNext /\ UNCHANGED <<active, vars, hubVars, jiraVars>>

\* The fairness of each part, when it is its turn.
ReportsFairness ==
    /\ WF_hubVars(active = "hub" /\ BeginSync(TimerSync))
    /\ WF_hubVars(active = "hub" /\ SyncGoesOn(TimerSync))
    /\ SF_hubVars(active = "hub" /\ Resolve(TimerSync) /\ sync'[TimerSync].step = "fetching")
    /\ WF_jiraVars(active = "jira" /\ BeginTick)
    /\ WF_jiraVars(active = "jira" /\ TickGoesOn)
    /\ WF_metricsVars(active = "metrics" /\ BeginClassify(Timer))
    /\ WF_crun(active = "metrics" /\ ClassifyEnds(Timer))
    /\ WF_metricsVars(active = "metrics" /\ RollBegin(Timer))
    /\ \A r \in Runs : WF_rstep(active = "metrics" /\ RollGoesOn(r))

ReportsSpec == ReportsInit /\ [][ReportsNext]_reportsVars /\ ReportsFairness
-----------------------------------------------------------------------------
(* Properties, beside those of SpendAlerts *)

\* The type invariants of the four parts.
TypesOK == TypeOK /\ HubTypeOK /\ JiraTypeOK /\ MetricsTypeOK

\* github_sync.py:236-299: the table catches up with GitHub.
CatchesUp == active = "hub" => MirrorCatchesUp

\* jira_sync.py:179-420: every issue referred to arrives, and again and again.
Arrive == active = "jira" => IssuesArrive

\* pr_cost_rollup.py:123-429: classes account for every pull request once, and
\* a sprint for the points of every issue once.
TotalsAddUp == ClassesAddUp /\ PointsOnce

\* pr_classify.py, pr_cost_rollup.py: classes and tables settle on the facts.
Settles == active = "metrics" => MetricsSettle
=============================================================================
