----------------------------- MODULE PrMetrics -----------------------------
(***************************************************************************)
(* What merged pull requests are worth: the job that gives each a class    *)
(* (worker/jobs/pr_classify.py), the one that turns classes, teams and     *)
(* billed spend into daily, weekly and per-sprint rows                     *)
(* (worker/jobs/pr_cost_rollup.py), and the request that changes the       *)
(* label map (api/routes/integrations_github.py).                          *)
(*                                                                         *)
(* Both jobs run from the worker's timer, at the end of a GithubSync run   *)
(* and by hand, so two of a kind overlap.  Every query of a roll-up sees   *)
(* what is committed when it is made; its DELETE of a table leaves alone,  *)
(* and its INSERT may collide with, the rows that another run commits      *)
(* after it.  A day is its number, day 0 a Monday.                         *)
(***************************************************************************)
EXTENDS Integers, Sequences, FiniteSets, FiniteSetsExt, Functions

CONSTANTS
    Prs, Author, MergedOn,  \* pull requests, their author's login, their day
    IssueRefs,              \* the issues each links to: they share the numbers
    JiraIssues, JiraKeys,   \* the Jira issues, and those each links to
    Says,                   \* what each issue may say: its type, as the class
                            \* it maps to or "other", sprint and points
    People, Teams, NoTeam,  \* users, whose addresses begin with their logins
    Labels, LabelMaps,      \* the label maps an admin saves, first the default
    Runs, Timer,            \* who runs the jobs: an admin or GithubSync one
                            \* after the other, the timer each by itself
    HasPat,                 \* a GitHub token was ever set
    Days,                   \* the days on which anything happens
    Bills,                  \* what a person may be billed for a day
    DailyBack, WeeksBack, WeekLen,  \* 89, 12 and 7 in the code
    MaxFacts                \* bound on what the outside world changes, on
                            \* runs by hand and on failures

Contents == UNION {Says[k] : k \in JiraIssues}

PrAssumption ==
    /\ IsFiniteSet(Prs) /\ IsFiniteSet(People) /\ IsFiniteSet(Days) /\ IsFiniteSet(JiraIssues)
    /\ Author \in [Prs -> People] /\ MergedOn \in [Prs -> Nat]
    /\ IssueRefs \in [Prs -> Seq(Prs)] /\ JiraKeys \in [Prs -> Seq(JiraIssues)]
    /\ IsFiniteSet(Contents) /\ \A c \in Contents : c.points \in Nat /\ c.type # "none"
    /\ Teams # {} /\ NoTeam \notin Teams /\ Timer \in Runs /\ HasPat \in BOOLEAN
    /\ Days # {} /\ Days \subseteq Nat /\ WeekLen \in Nat \ {0}
    /\ {DailyBack, WeeksBack, MaxFacts} \subseteq Nat
    /\ 1 \in DOMAIN LabelMaps

\* Money is in a unit so small that every share of a day's bill is whole.
SharesAreWhole ==
    /\ Bills \subseteq Nat
    /\ \A b \in Bills, n \in 1..Cardinality(Prs) : \E k \in 0..b : b = n * k

VARIABLES
    today,
    merged,     \* github_activity
    labels,     \* the labels of each pull request and issue
    jiraIssue,  \* jira_issues
    team,       \* users.team_id
    link,       \* linked_accounts: logins tied to an e-mail address
    daySpend,   \* cur_user_spend by person and day
    lmap,       \* admin_config.github_label_map, committed
    put,        \* the request that saves a label map
    class,      \* pr_classifications
    daily, weekly, jiraWeekly,  \* the rolled-up tables
    crun, rrun, \* runs of pr_classify and of pr_cost_rollup
    rstep,      \* how far each of the latter has come
    left,       \* per roll-up, the rows its DELETEs have not deleted
    mixed,      \* history: weeks of jiraWeekly with the rows of two roll-ups
    facts

metricsVars == <<today, merged, labels, jiraIssue, team, link, daySpend, lmap, put,
          class, daily, weekly, jiraWeekly, crun, rrun, rstep, left, mixed, facts>>
outside == <<today, merged, labels, jiraIssue, team, daySpend>>
tables == <<daily, weekly, jiraWeekly, left, mixed>>

Classes == {"bug", "story", "task"}
AllDays == Days \cup {MergedOn[p] : p \in Prs}
NoPut == [step |-> "idle", map |-> LabelMaps[1]]
NoRun == [step |-> "idle", map |-> LabelMaps[1], full |-> FALSE]
NoIssue == [type |-> "none", slice |-> "none", points |-> 0]
Nothing == [p \in Prs |-> "none"]
NoSpend == [u \in People |-> [d \in AllDays |-> 0]]
NoRoll == [today |-> Min(Days), prs |-> {}, class |-> Nothing,
           linked |-> {}, team |-> [u \in People |-> NoTeam],
           daily |-> {}, weekly |-> {}, slices |-> {}]
Steps == {"idle", "links", "users", "classes", "prs", "read",
          "daily", "weekly", "jira", "issues", "slices"}
NoneLeft == [daily |-> {}, weekly |-> {}, jira |-> {}]

MetricsTypeOK ==
    /\ today \in Days /\ merged \subseteq Prs /\ link \subseteq People
    /\ labels \in [Prs -> SUBSET Labels] /\ team \in [People -> Teams \cup {NoTeam}]
    /\ class \in [Prs -> Classes \cup {"none"}]
    /\ \A r \in daily \cup weekly : r.team \in Teams /\ r.cls \in Classes \cup {"all"}
    /\ \A r \in jiraWeekly : r.n \in Nat \ {0} /\ r.points \in Nat
    /\ \A r \in Runs : /\ crun[r].step \in {"idle", "read"}
                       /\ rstep[r] \in Steps
    /\ facts \in 0..MaxFacts
-----------------------------------------------------------------------------
(* The world: GithubSync, JiraSync, Teams and CurSpendSync write *)

Fact == facts < MaxFacts /\ facts' = facts + 1
ByHand(r) == IF r = Timer THEN UNCHANGED facts ELSE Fact
Jobs == <<link, lmap, put, class, tables, crun, rrun, rstep>>

Merge ==
    /\ Fact
    /\ \E page \in SUBSET {p \in Prs : MergedOn[p] <= today} :
          /\ page # {} /\ merged' = merged \cup page
          /\ \E ls \in [page -> SUBSET Labels] :
                labels' = [p \in Prs |-> IF p \in page THEN ls[p] ELSE labels[p]]
    /\ UNCHANGED <<today, jiraIssue, team, daySpend, Jobs>>

IssueArrives ==
    /\ Fact
    /\ \E page \in SUBSET JiraIssues :
          /\ page # {}
          /\ \E cs \in [page -> Contents] :
                /\ \A k \in page : cs[k] \in Says[k]
                /\ jiraIssue' = [k \in JiraIssues |-> IF k \in page THEN cs[k] ELSE jiraIssue[k]]
    /\ UNCHANGED <<today, merged, labels, team, daySpend, Jobs>>

MovePerson ==
    /\ Fact
    /\ \E u \in People, t \in Teams \cup {NoTeam} : team' = [team EXCEPT ![u] = t]
    /\ UNCHANGED <<today, merged, labels, jiraIssue, daySpend, Jobs>>

BillDay ==
    /\ Fact
    /\ \E u \in People, d \in AllDays, b \in Bills :
          d <= today /\ daySpend' = [daySpend EXCEPT ![u][d] = b]
    /\ UNCHANGED <<today, merged, labels, jiraIssue, team, Jobs>>

NextDay ==
    /\ Fact
    /\ \E d \in Days : d > today /\ today' = d /\ \A e \in Days : e > today => d <= e
    /\ UNCHANGED <<merged, labels, jiraIssue, team, daySpend, Jobs>>
-----------------------------------------------------------------------------
(* Classes *)

MatchClass(ls, m) ==
    LET hit == {c \in Classes : ls \cap m[c] # {}} IN
    IF "bug" \in hit THEN "bug" ELSE IF "story" \in hit THEN "story"
    ELSE IF "task" \in hit THEN "task" ELSE "none"

\* The first class of a list of verdicts.
FirstHit(seq) ==
    LET hits == {i \in DOMAIN seq : seq[i] # "none"} IN
    IF hits = {} THEN "none" ELSE seq[Min(hits)]

JiraClass(k) == IF jiraIssue[k].type \in Classes THEN jiraIssue[k].type ELSE "none"

\* The labels of an issue are those of the pull request with its number.
IssueClass(i, m) == IF i \in merged THEN MatchClass(labels[i], m) ELSE "none"

Verdict(p, m) ==
    FirstHit(<<FirstHit([i \in DOMAIN JiraKeys[p] |-> JiraClass(JiraKeys[p][i])]),
               FirstHit([i \in DOMAIN IssueRefs[p] |-> IssueClass(IssueRefs[p][i], m)]),
               MatchClass(labels[p], m),
               "task">>)

\* The label map is read in a session of its own, before the rest.
ReadMap(r, full) ==
    /\ HasPat \/ merged # {}
    /\ crun[r].step = "idle" /\ (r # Timer => rstep[r] = "idle")
    /\ crun' = [crun EXCEPT ![r] = [step |-> "read", map |-> lmap, full |-> full]]

BeginClassify(r) ==
    /\ ReadMap(r, FALSE) /\ ByHand(r)
    /\ UNCHANGED <<outside, link, lmap, put, class, tables, rrun, rstep>>

\* The rows a pass gives a verdict: those without one, or all of a rebuild.
ToClassify(r) ==
    {p \in merged : crun[r].full \/ (class[p] = "none" /\ MergedOn[p] + 60 >= today)}

\* One transaction: verdicts, and logins tied to the user of that name.
EndClassify(r) ==
    /\ crun[r].step = "read"
    /\ class' = [p \in Prs |-> IF p \in ToClassify(r) THEN Verdict(p, crun[r].map) ELSE class[p]]
    /\ link' = link \cup {u \in People : \E p \in merged :
                              Author[p] = u /\ (crun[r].full \/ MergedOn[p] + 60 >= today)}
    /\ crun' = [crun EXCEPT ![r] = NoRun]
    /\ UNCHANGED <<outside, lmap, put, tables, rrun, rstep, facts>>

\* A second writer of the same new row takes its whole pass back, and the
\* request that ran it.
FailClassify(r) ==
    /\ Fact
    /\ crun[r].step = "read" /\ \E q \in Runs \ {r} : crun[q].step = "read"
    /\ crun' = [crun EXCEPT ![r] = NoRun]
    /\ put' = IF crun[r].full THEN NoPut ELSE put
    /\ UNCHANGED <<outside, link, lmap, class, tables, rrun, rstep>>

\* PUT label-map: flushed, not committed, when the rebuild it asks for begins.
PutMap ==
    /\ Fact /\ put = NoPut
    /\ \E i \in DOMAIN LabelMaps, again \in BOOLEAN :
          /\ put' = [step |-> "flushed", map |-> LabelMaps[i]]
          /\ IF again /\ (HasPat \/ merged # {}) THEN \E r \in Runs \ {Timer} : ReadMap(r, TRUE)
             ELSE UNCHANGED crun
    /\ UNCHANGED <<outside, link, lmap, class, tables, rrun, rstep>>

CommitMap ==
    /\ put.step = "flushed" /\ \A r \in Runs : ~crun[r].full
    /\ lmap' = put.map /\ put' = NoPut
    /\ UNCHANGED <<outside, link, class, tables, crun, rrun, rstep, facts>>
-----------------------------------------------------------------------------
(* The roll-up *)

Monday(d) == d - (d % WeekLen)
DailyFloor(d) == d - DailyBack
WeeklyFloor(d) == Monday(d) - WeeksBack * WeekLen

\* What a run has read, with the spend and the issues as they are now.
Seen(r) ==
    [today |-> rrun[r].today, linked |-> rrun[r].linked, team |-> rrun[r].team,
     class |-> rrun[r].class, prs |-> rrun[r].prs, spend |-> daySpend, issue |-> jiraIssue]

\* x is what a run has seen.
ClassOf(x, p) == IF x.class[p] = "none" THEN "task" ELSE x.class[p]
OfTeam(x, t) == {u \in People : x.team[u] = t}
Shipped(x, t, cls) ==
    {p \in x.prs : Author[p] \in x.linked /\ x.team[Author[p]] = t /\ cls \in {"all", ClassOf(x, p)}}

SpendOn(x, t, d) == SumFunction([u \in OfTeam(x, t) |-> x.spend[u][d]])

\* Mutant of Share: each class is given the whole day.
Whole(x, t, d, cls) == SpendOn(x, t, d)

Share(x, t, d, cls) ==
    LET n(c) == Cardinality({p \in Shipped(x, t, c) : MergedOn[p] = d}) IN
    IF cls = "all" THEN SpendOn(x, t, d)
    ELSE IF n("all") = 0 THEN 0 ELSE (SpendOn(x, t, d) * n(cls)) \div n("all")

\* A row for each day or week with a pull request, or with spend under "all".
RollupRow(x, t, at, span, cls) ==
    [team |-> t, at |-> at, cls |-> cls,
     n |-> Cardinality({p \in Shipped(x, t, cls) : MergedOn[p] \in span}),
     spend |-> SumFunction([d \in span |-> Share(x, t, d, cls)])]

Kept(rows) == {r \in rows : r.n > 0 \/ (r.cls = "all" /\ r.spend > 0)}

Window(x) == {d \in AllDays : DailyFloor(x.today) <= d /\ d <= x.today}

DailyRows(x) ==
    Kept({RollupRow(x, t, d, {d}, c) : t \in Teams, d \in Window(x), c \in Classes \cup {"all"}})

WeekDays(x, w) == {d \in Window(x) : Monday(d) = w}

Weeks(x) == {w \in {Monday(d) : d \in Window(x)} : w >= WeeklyFloor(x.today)}

WeeklyRows(x) ==
    Kept({RollupRow(x, t, w, WeekDays(x, w), c) : t \in Teams, w \in Weeks(x), c \in Classes \cup {"all"}})

\* The slices of a pull request: one for each sprint of each key that has an
\* issue, with the points of the first that has any; without one, "none".
Said(x, p) == [i \in DOMAIN JiraKeys[p] |-> x.issue[JiraKeys[p][i]]]
Refs(x, p) == {i \in DOMAIN JiraKeys[p] : Said(x, p)[i].type # "none"}
Pointed(x, p) == {i \in Refs(x, p) : Said(x, p)[i].points > 0}

PointsOf(x, p) == IF Pointed(x, p) = {} THEN 0 ELSE Said(x, p)[Min(Pointed(x, p))].points

\* The slice those points are booked under.
PointSlice(x, p) == IF Pointed(x, p) = {} THEN "none" ELSE Said(x, p)[Min(Pointed(x, p))].slice

\* How often the pull request counts in a slice.
Times(x, p, s) ==
    IF Refs(x, p) = {} THEN IF s = "none" THEN 1 ELSE 0
    ELSE Cardinality({i \in Refs(x, p) : Said(x, p)[i].slice = s})

AllSlices == {c.slice : c \in Contents} \cup {"none"}

JiraRow(x, t, w, cls, s) ==
    LET ps == {p \in Shipped(x, t, cls) : Monday(MergedOn[p]) = w} IN
    [team |-> t, at |-> w, cls |-> cls, slice |-> s,
     n |-> SumFunction([p \in ps |-> Times(x, p, s)]),
     points |-> SumFunction([p \in ps |-> IF PointSlice(x, p) = s THEN PointsOf(x, p) ELSE 0])]

JiraRows(x) ==
    {r \in {JiraRow(x, t, w, c, s) :
            t \in Teams, w \in Weeks(x), c \in Classes \cup {"all"}, s \in AllSlices} : r.n > 0}

GoTo(r, step) == rstep' = [rstep EXCEPT ![r] = step]

\* The first queries: activity at all, the time, the logins.
RollBegin(r) ==
    /\ HasPat \/ merged # {}
    /\ rstep[r] = "idle" /\ (r # Timer => crun[r] = NoRun)
    /\ rrun' = [rrun EXCEPT ![r] = [NoRoll EXCEPT !.today = today, !.linked = link]]
    /\ GoTo(r, "links") /\ ByHand(r)
    /\ UNCHANGED <<outside, link, lmap, put, class, tables, crun>>

\* The rest, one after the other: users, classes, pull requests, and spend,
\* from which it makes its rows.
RollRead(r) ==
    /\ \/ /\ rstep[r] = "links"
          /\ rrun' = [rrun EXCEPT ![r].team = team] /\ GoTo(r, "users")
       \/ /\ rstep[r] = "users"
          /\ rrun' = [rrun EXCEPT ![r].class = class] /\ GoTo(r, "classes")
       \/ /\ rstep[r] = "classes"
          /\ rrun' = [rrun EXCEPT ![r].prs = {p \in merged : MergedOn[p] >= DailyFloor(rrun[r].today)}]
          /\ GoTo(r, "prs")
       \/ /\ rstep[r] = "prs"
          /\ rrun' = [rrun EXCEPT ![r].daily = DailyRows(Seen(r)), ![r].weekly = WeeklyRows(Seen(r))]
          /\ GoTo(r, "read")
    /\ UNCHANGED <<outside, link, lmap, put, class, tables, crun, facts>>

\* Mutant of OlderRows: nothing is truncated.
All(table, floor) == table

OlderRows(table, floor) == {r \in table : r.at < floor}

\* A DELETE deletes the rows committed when it begins.
DeleteDaily(r) ==
    /\ rstep[r] = "read" /\ GoTo(r, "daily")
    /\ left' = [left EXCEPT ![r].daily = OlderRows(daily, DailyFloor(rrun[r].today))]
    /\ UNCHANGED <<outside, link, lmap, put, class, daily, weekly, jiraWeekly, mixed, crun, rrun, facts>>

\* It has to wait for another run that holds some of them.
Waits(r) ==
    /\ rstep[r] = "daily"
    /\ \E q \in Runs : rstep[q] = "weekly" /\ ~(daily \subseteq left[q].daily \cup left[r].daily)

DeleteWeekly(r) ==
    /\ rstep[r] = "daily" /\ ~Waits(r) /\ GoTo(r, "weekly")
    /\ left' = [left EXCEPT ![r].weekly = OlderRows(weekly, WeeklyFloor(rrun[r].today))]
    /\ UNCHANGED <<outside, link, lmap, put, class, daily, weekly, jiraWeekly, mixed, crun, rrun, facts>>

\* The unique constraints; jira_weekly_metrics has the slice in its key.
SameKey(a, b) == a.team = b.team /\ a.at = b.at /\ a.cls = b.cls
Clash(old, new) == \E a \in old, b \in new : SameKey(a, b)
SlicesClash(old, new) == \E a \in old, b \in new : SameKey(a, b) /\ a.slice = b.slice

\* What is left of a table for run q when r, which has left `old', commits `new'.
LeftBy(mine, old, new) == (mine \cap old) \cup new

\* The INSERTs and the commit; the other run does not delete what is new.
RollWrite(r) ==
    LET d == rrun[r].daily
        w == rrun[r].weekly
    IN
    /\ rstep[r] = "weekly"
    /\ ~Clash(left[r].daily, d) /\ ~Clash(left[r].weekly, w)
    /\ daily' = left[r].daily \cup d
    /\ weekly' = left[r].weekly \cup w
    /\ rrun' = [rrun EXCEPT ![r].daily = {}, ![r].weekly = {}] /\ GoTo(r, "jira")
    /\ left' = [q \in Runs |->
          IF q = r THEN NoneLeft
          ELSE [daily |-> IF rstep[q] \in {"daily", "weekly"}
                          THEN LeftBy(left[q].daily, left[r].daily, d) ELSE {},
                weekly |-> IF rstep[q] = "weekly"
                           THEN LeftBy(left[q].weekly, left[r].weekly, w) ELSE {},
                jira |-> left[q].jira]]
    /\ UNCHANGED <<outside, link, lmap, put, class, jiraWeekly, mixed, crun, facts>>

\* A transaction of its own, which sees the Jira issues as they are now.
ReadIssues(r) ==
    /\ rstep[r] = "jira"
    /\ rrun' = [rrun EXCEPT ![r] = [NoRoll EXCEPT !.today = rrun[r].today,
                                        !.slices = JiraRows(Seen(r))]]
    /\ GoTo(r, "issues")
    /\ UNCHANGED <<outside, link, lmap, put, class, tables, crun, facts>>

DeleteSlices(r) ==
    /\ rstep[r] = "issues" /\ GoTo(r, "slices")
    /\ left' = [left EXCEPT ![r].jira = OlderRows(jiraWeekly, WeeklyFloor(rrun[r].today))]
    /\ UNCHANGED <<outside, link, lmap, put, class, daily, weekly, jiraWeekly, mixed, crun, rrun, facts>>

WriteSlices(r) ==
    LET new == rrun[r].slices
        floor == WeeklyFloor(rrun[r].today)
    IN
    /\ rstep[r] = "slices" /\ ~SlicesClash(left[r].jira, new)
    /\ jiraWeekly' = left[r].jira \cup new
    /\ mixed' = {w \in mixed : w < floor} \cup {row.at : row \in {y \in left[r].jira : y.at >= floor}}
    /\ rrun' = [rrun EXCEPT ![r] = NoRoll] /\ GoTo(r, "idle")
    /\ left' = [q \in Runs |->
          IF q = r THEN NoneLeft
          ELSE IF rstep[q] # "slices" THEN left[q]
          ELSE [left[q] EXCEPT !.jira = LeftBy(left[q].jira, left[r].jira, new)]]
    /\ UNCHANGED <<outside, link, lmap, put, class, daily, weekly, crun, facts>>

TakeBack(r) ==
    rrun' = [rrun EXCEPT ![r] = NoRoll] /\ GoTo(r, "idle") /\ left' = [left EXCEPT ![r] = NoneLeft]

\* A row is another run's already: the transaction is taken back.
RollCollides(r) ==
    /\ \/ /\ rstep[r] = "weekly"
          /\ Clash(left[r].daily, rrun[r].daily) \/ Clash(left[r].weekly, rrun[r].weekly)
       \/ rstep[r] = "slices" /\ SlicesClash(left[r].jira, rrun[r].slices)
    /\ TakeBack(r)
    /\ UNCHANGED <<outside, link, lmap, put, class, daily, weekly, jiraWeekly, mixed, crun, facts>>

\* A statement fails, or the worker dies.
RollFail(r) ==
    /\ Fact
    /\ rstep[r] # "idle" /\ TakeBack(r)
    /\ UNCHANGED <<outside, link, lmap, put, class, daily, weekly, jiraWeekly, mixed, crun>>

MetricsInit ==
    /\ today = Min(Days) /\ merged = {} /\ labels = [p \in Prs |-> {}]
    /\ jiraIssue = [k \in JiraIssues |-> NoIssue]
    /\ team = [u \in People |-> CHOOSE t \in Teams : TRUE] /\ link = {}
    /\ daySpend = NoSpend
    /\ lmap = LabelMaps[1] /\ put = NoPut /\ class = Nothing
    /\ daily = {} /\ weekly = {} /\ jiraWeekly = {} /\ mixed = {}
    /\ left = [r \in Runs |-> NoneLeft]
    /\ crun = [r \in Runs |-> NoRun] /\ rrun = [r \in Runs |-> NoRoll]
    /\ rstep = [r \in Runs |-> "idle"] /\ facts = 0

MetricsNext ==
    \/ Merge \/ IssueArrives \/ MovePerson \/ BillDay \/ NextDay
    \/ PutMap \/ CommitMap
    \/ \E r \in Runs : \/ BeginClassify(r) \/ EndClassify(r) \/ FailClassify(r)
                       \/ RollBegin(r) \/ RollRead(r)
                       \/ DeleteDaily(r) \/ DeleteWeekly(r) \/ RollWrite(r)
                       \/ ReadIssues(r) \/ DeleteSlices(r) \/ WriteSlices(r)
                       \/ RollCollides(r) \/ RollFail(r)

MetricsSpec == MetricsInit /\ [][MetricsNext]_metricsVars

\* A classification ends, well or not; a roll-up takes its next step or ends.
ClassifyEnds(r) == crun[r].step = "read" /\ crun' = [crun EXCEPT ![r] = NoRun]

RollGoesOn(r) == /\ rstep[r] # "idle" /\ ~Waits(r)
                 /\ \E step \in Steps : GoTo(r, step)

\* The timer starts both jobs again and again.  What it starts goes on, and so
\* does a roll-up that anyone has started, which may hold rows; a
\* classification by hand may take for ever.
MetricsFairness ==
    /\ WF_metricsVars(BeginClassify(Timer)) /\ WF_crun(ClassifyEnds(Timer))
    /\ WF_metricsVars(RollBegin(Timer)) /\ \A r \in Runs : WF_rstep(RollGoesOn(r))

MetricsFairSpec == MetricsSpec /\ MetricsFairness
-----------------------------------------------------------------------------
(* Properties *)

AllRow(table, t, at) == {r \in table : r.team = t /\ r.at = at /\ r.cls = "all"}
Parts(table, r) == {q \in table : q.team = r.team /\ q.at = r.at /\ q.cls # "all"}

\* pr_cost_rollup.py:123-330: in each day and week the classes account for
\* every pull request once, and never for more money than the team has spent;
\* for a day with a pull request, for all of it.
ClassesAddUp ==
    \A r \in daily \cup weekly :
        r.cls = "all" =>
            LET parts == Parts(IF r \in daily THEN daily ELSE weekly, r)
                money == SumFunction([q \in parts |-> q.spend]) IN
            /\ SumFunction([q \in parts |-> q.n]) = r.n
            /\ money <= r.spend
            /\ (r \in daily /\ r.n > 0) => money = r.spend

\* The most points an issue of the pull request may have.
MostPoints(p) == IF JiraKeys[p] = <<>> THEN 0 ELSE Max({0} \cup {c.points : c \in Contents})

BookedOnce(t, w) ==
    LET ps == {p \in merged : Monday(MergedOn[p]) = w} IN
    SumFunction([r \in AllRow(jiraWeekly, t, w) |-> r.points])
        <= SumFunction([p \in ps |-> MostPoints(p)])

\* pr_cost_rollup.py:362-400: "SP attributed once per PR so we don't
\* double-count when a PR links multiple issues": summed over the slices, a
\* week has no more points than one issue of each pull request has, unless
\* its rows are those of two runs.
PointsOnce ==
    \A t \in Teams, w \in {r.at : r \in jiraWeekly} \ mixed : BookedOnce(t, w)

\* pr_cost_rollup.py:410: "Truncate the rollup window so re-runs are clean":
\* points are booked once whichever runs have written.
RerunsAreClean == \A t \in Teams, w \in {r.at : r \in jiraWeekly} : BookedOnce(t, w)

\* pr_classify.py:407-470, pr_cost_rollup.py: when the world rests, every
\* recent pull request has a class and its author's login a user, and each day
\* of the window has one row that counts what was merged and spent, whatever
\* older snapshots overlapping runs have written before.
MetricsSettle ==
    <>[](/\ \A p \in merged :
               MergedOn[p] + 60 >= today => class[p] # "none" /\ Author[p] \in link
         /\ HasPat \/ merged # {} =>
               \A t \in Teams, d \in {e \in AllDays : DailyFloor(today) <= e /\ e <= today} :
               LET n == Cardinality({p \in merged : MergedOn[p] = d /\ Author[p] \in link /\ team[Author[p]] = t})
                   s == SumFunction([u \in {v \in People : team[v] = t} |-> daySpend[u][d]])
               IN {<<r.n, r.spend>> : r \in AllRow(daily, t, d)} = {<<n, s>>} \ {<<0, 0>>})

\* integrations_github.py:540-543: "If `?reclassify=1`, kick off a full
\* pr_classify run synchronously after saving": the run uses the map saved.
RebuildUsesTheMap ==
    [][ \A r \in Runs : (crun[r].full /\ ~crun'[r].full /\ put' # NoPut)
            => \A p \in merged : class'[p] = Verdict(p, put.map) ]_metricsVars

\* pr_cost_rollup.py:136, 292: "daily window (covers weekly too)", "Weekly
\* rows: roll up daily into the week's start": what a run writes of a week is
\* the sum of its days.
WeekIsItsDays ==
    \A r \in Runs : rstep[r] = "weekly" =>
        \A t \in Teams, w \in {x.at : x \in rrun[r].weekly} :
            LET days == left[r].daily \cup rrun[r].daily IN
            SumFunction([q \in AllRow(rrun[r].weekly, t, w) |-> q.n])
              = SumFunction([q \in {x \in days : x.team = t /\ x.cls = "all" /\ Monday(x.at) = w} |-> q.n])
=============================================================================
