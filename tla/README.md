# Verification of tokengov

tokengov (tg) caps what people and machines spend on Amazon Bedrock. An admin
puts a principal *under governance*; every five minutes a reconciler compares
its billed spend of the month with its cap and rewrites one IAM policy,
`tg-BedrockQuotaDeny`, whose statements deny Bedrock to the principals named.
The policy is attached to the roles governed principals assume. A second job
does the same for machine roles, with an inline deny per role. Admins act
through a FastAPI service; both processes share one PostgreSQL database and
one AWS account. Around this core tg syncs billed spend from CUR, checks its own
enforcement for drift, mirrors pull requests and Jira issues and shares costs
out among them, and brings itself up by an installer and a schema upgrade.

These modules model who writes what and when: what is decided, in how many
steps it is carried out, and what happens when the writers overlap, fail or
restart.

## Inventory

| component | state it keeps | operations | hard behaviour | modelled |
|---|---|---|---|---|
| deny reconciler (`worker/jobs/deny_reconciler.py`) | `users.status`, warn latch, last status mailed; IAM policy document, its versions and attachments | `run()` by tick, by hand, inside requests | stale reads, lost updates, mails before commit, IAM after commit, version limit | yes |
| principal handlers (`api/routes/users.py`, reapply) | one `users` row per request; IAM attachments; trust policy | force_block, unblock, approve, set_status, set_cap, manage, unmanage, set_principal_arn, create, delete, reapply | a request waits for a run it shares rows with; commit after answer | but invite, profile, If-Match |
| Identity Center trust (`api/idc_trust.py`) | trust statements of tg-consumer | add, remove | whole-document read-modify-write | the set trusted |
| service account monitor and API | caps, `blocked_at`, alert ledger; inline denies | pass, upsert, delete, manual unblock | IAM inside the transaction, roll-back, periods | yes |
| org settings | key-value rows | five settings a pass reads | read at different moments of one pass | those |
| quota reset, month window | warn latch | monthly | bulk update against row locks | yes |
| CUR spend sync, `principal_classify` | month's spend rows, role of a principal | hourly, manual | replaces the month, overlapping deletes, races admins | yes |
| governance verification, drift sweep, badges | drift rows | daily and manual sweep, verify, diagnostics checks | IAM moves while it reads; two sweeps replace one table | yes |
| job runner, pause, manual runs | `job_runs`, pause timestamp | scheduled and manual runs, pause, resume | a killed worker leaves a row running; skipped runs | yes |
| admin roles, login provisioning, bootstrap | `admin_roles`, Cognito users | grant, revoke, enable login, login | last org admin; Cognito outside the transaction | yes |
| teams and membership | teams, membership, shadow column | create, reparent, delete, assign, clear, remove | cycles, one-team rule, shadow | yes |
| SAML settings and Cognito apply | stored config, pool, app client | put, delete, apply, seed | partial apply | yes |
| invocation log capture | catalogue, each region's Bedrock config | put, apply, seed | a customer's own configuration | yes |
| API start-up, schema upgrade | the tables' columns and retired values | `lifespan` | old tasks still serve; one transaction | yes |
| GitHub sync and settings | repositories, activity, watermark | sync by timer and by hand, track, edit, delete, tokens | pages that move, early stop, tokens | yes |
| Jira sync and settings | sites, issues, probe dates | tick, configure | rate limits, rejected tokens | but sync-now |
| PR classification, cost roll-up | classes; daily, weekly and sprint rows | two jobs, label map | overlapping snapshots, shares | yes |
| installer and CLI | saved answers; stacks | install, destroy | interrupted runs, several accounts | the control |
| sessions, OIDC, CSRF | `web_sessions` | login, refresh, logout | expiry | who may log in |
| spend estimate | none | project | month boundary, thin samples | as an input |
| read APIs, diagnostics, admin UI, notifications, crypto, logging, seeders, backup, templates | caches only | reads, one-shot scripts | none the rest depends on | no |

Interaction. The reconciler reads settings, rows and spend, commits its changes to
the rows, then writes IAM. A handler flushes its change (which locks the row),
starts the same `run()` in a thread *with a session of its own*, waits for it,
answers, and only then commits: the run never sees what the request is about.
`max_instances=1` keeps the scheduled ticks apart from each other, not from manual
starts or from requests' runs. The CUR sync and the admins write the same rows. IAM
is written by all of them and by operators. The hourly CUR sync feeds the reconciler
and the roll-up, the GitHub and Jira syncs feed classification, and classification
the roll-up. The job wrapper runs all of them, in the worker by a schedule and in
the API by hand, where `max_instances` does not apply.

What makes each component right is stated as properties below; the hazards the
code is exposed to are listed with their lines in `PROJECT.json`.

## Modules

| module | models | how its state and actions correspond to the code |
|---|---|---|
| `DenyDecision` | one pass over one row | pure operators: `CapOf`, `Denied`, `StatusAfter`, `Events`, `Mails`, the latches, `After` |
| `SpendAlerts` | the mails one principal gets over many passes | a pass is one action; admin actions change the row around it |
| `Enforcement` | runs, requests, row locks, attachments, policy, trust | below |
| `PolicyVersions` | the IAM calls that `Enforcement` takes as one step | one action per call; `alone` remembers runs nothing has overlapped |
| `Publication` | what those calls promise: a document comes into force at once, or a run ends without a trace | abstract; `PolicyVersions` implements it |
| `ServiceAccountMonitor` | monitor and API of machine budgets | `StartPass`, one `HandleCap` per cap with its IAM write, `CommitPass`; `rolled` remembers a lost commit |
| `CurSpendSync` | the hourly sync | `Query` (Athena and the key map), the DELETE that opens the transaction, the flush; a DELETE waits for a rival's and does not see its rows |
| `GovernanceDrift` | sweep, verdict, verify, badge, two diagnostics checks | one action per read of flags, role, document; the findings take the place of the rows the DELETE sees |
| `Teams` | `teams.py`, `teams_membership.py`, users' team | a request reads, decides, commits; constraints of the database at commit; `raced` remembers operations committed on stale reads |
| `AdminAccess` | `roles.py`, login and scope, bootstrap, delete_user | the Cognito call is a step of its own before or after the commit; `overtaken` like `raced` |
| `SamlLogin` | stored SAML rows, pool, app client | a request goes through the Cognito calls one by one; a failure rolls back rows only |
| `InvocationLogs` | catalogue and live configuration per region | a request whose text is the stored one makes no UPDATE and holds no lock; look and call of a region are two steps; `missed` remembers calls that failed and stale looks, `crossed` requests without the lock that contradict the one with it |
| `Startup` | `lifespan` of `api/main.py` | the statements in their order inside one transaction; old tasks write until the locks are taken |
| `JobRunner` | `worker/main.py`, `job_runner.py`, `jobs_pause.py`, `routes/jobs.py` | where a wrapper is, per job and trigger; a count-down per job |
| `Installer` | `tg install`, `tg destroy` | `legacy` and `keyed` are the two files of answers; stack and cost report per account |
| `GithubSync` | `github_sync.py`, its endpoints | token, probe, one action per page, commit of the watermark; at GitHub pull requests are updated, closed unmerged and reopened; a run by hand is for all repositories or for one, tracked or not; `cut` and `slid` remember walks that have missed some |
| `JiraSync` | `jira_sync.py`, its endpoints, the flag | one action per site and per page of keys; a tick goes by the tokens and probe dates it began with, in any order of the sites |
| `PrMetrics` | `pr_classify.py`, `pr_cost_rollup.py`, the label map | a roll-up's queries, its DELETE of each table, and INSERT with commit are steps of their own (`rstep`): READ COMMITTED; `left` is what its DELETEs have not seen, `mixed` the weeks with the rows of two runs |
| `MCEnforcement`, `MCSpendAlerts`, `MCJira`, `MCPrMetrics` | instances of one module | |
| `MCSpend`, `MCLogins`, `MCOperations`, `MCReports` | several components side by side | below |
| `DenyDecisionProofs`, `SpendAlertsProofs`, `EnforcementProofs` | theorems on the core | |
| `SpendProofs`, `LoginsProofs`, `OperationsProofs`, `ReportsProofs` | theorems on the components of the run of that name, and on the run | |
| `Sums` | lemmas on sums over finite sets | |

State and code. In `Enforcement`, `users` holds the committed rows of the
`users` table (the columns the reconciler reads or writes; `idc` is `role_type
= "idc"`, `warned` is `last_warn_sent_at is not None`), `org` the settings,
`spend` and `unbilled` the month to date and what the estimate would add,
`policy`/`attached`/`trust` what IAM holds, `run[p]` the progress and the local
variables of one execution of `run()`, `req[r]` those of one handler. History
variables are `enrolled` (ever governed) here, `dipped`, `lastMail` and `lost` in
`SpendAlerts`; those of the other modules are marked *history* where they are
declared.

One action is one stretch of code between two points where another process
can get in: a query, a flush that may wait for a lock, a commit, an IAM call.

* `ReadOrg`, `ReadRows`, `Decide`: lines 600-866 of `deny_reconciler.py`. The
  settings are read first, the rows next; the estimate mode is read with the
  spend. Everything in between is a computation on objects already loaded.
* `FlushRow`, `CommitRun`: `get_db()`'s commit. SQLAlchemy flushes dirty rows
  in primary-key order (`Rank`); an UPDATE names only the changed columns
  (`Merge`); one that matches no row raises and rolls all back.
* `ListRoles`, `SyncRoles`, `Compare`, `Create`, `Publish`: the IAM part, with
  the exceptions each call swallows or raises.
* A request: `Receive` (the row is loaded), `AttachRole`/`ReadTrust`/
  `WriteTrust`/`Flush`/`CountOthers`/`DetachRole` in the order of its handler,
  `StartApply`, its run, `Answer` or `LateAnswer`, `CommitRequest`.
* `DropRequest` and `FailRun`: any call raises, or the process dies.

Abstractions. Money is a small natural number. A principal is its own identity
key. Documents are the set of denied keys and the set of blocked models; the
recipients and texts of mails are left out. `force_blocked_at` mirrors status
and is left out. In `Enforcement` the pause switch, the JobRun rows and the
If-Match version of a row are left out. In `ServiceAccountMonitor` spend is where
it stands in the budget (`under`, `near`, `over`); as the session does not
autoflush, a pass locks nothing before its commit. In `PolicyVersions` an operator
never deletes the policy itself, which `Enforcement` covers. In `CurSpendSync` the
hours, regions and models of a month are one, and in `GovernanceDrift` what moves
just moves: `Enforcement` says how. `AdminAccess` leaves out team ids, `Startup`
has one user, one admin of one team and one repository for the tables. In
`JobRunner` time is a count of ticks. `GithubSync` replaces times by the set of
pull requests older than a repository's horizon, and leaves out what is in them.
`PrMetrics` counts days; cycle times are left out, and a roll-up computes its rows
when it has read the last of what they are made of. The questions of the
installer are two, one of them the kind of VPC.

Scenes. Components that share no state are checked in one run: `active` says which
of them a behaviour is about, the others rest in an initial state of their own, so
the states of a run are the sum of theirs, not the product. The fairness of a part
holds when it is its turn. `MCSpend`, `MCLogins`, `MCOperations` and `MCReports`
extend the modules of their parts, so a run checks the very properties that the
theorems state; that is why the parts name their `Init`, `Next` and `Spec` after
themselves (`CurInit`, `HubNext`, `SamlSpec`). The assumptions of most parts are
definitions which the MC module assumes, so TLC evaluates them.

## Runs

| run | question | result |
|---|---|---|
| `Everything` | all operations but set_principal_arn, all events and faults: types, nobody denied who was never governed (`OptIn`), Identity Center roles untouched | holds, 1.5 million states |
| `Converge` | policy, attachments and labels come to agree with the rows after deletes, edits, syncs, operators, faults | holds, 494 thousand states |
| `Overlap` | two principals, some force-blocked, a manual run over the tick, an unmanage, a CUR sync: convergence, and no run's commit changes who is to be denied | holds, 315 thousand states |
| `Spend` | machine budgets, policy versions, CUR sync, drift sweep | holds, 331 thousand states |
| `Logins` | admin roles and logins, teams, SAML | holds, 432 thousand states |
| `Operations` | installer, schema upgrade, log capture, job runner | holds, 806 thousand states |
| `Reports` | mails over time, GitHub and Jira mirrors, roll-ups | holds, 405 thousand states |
| `ForceBlockLost` | users.py:1311-1312: force-block until Unblock | violated: a tick reads the row before `force_block` commits, finds it over the cap by the spend of a CUR sync that the request's own run has not seen, and commits `blocked` after it |
| `RequestHangs` | users.py:126-128: degrade rather than hang | violated |
| `RuntimeConfigRules` | auth_config.py:230-236: the environment's provider never comes back over an admin's change | violated |
| `ColumnsAreAdded` | main.py:63-64: a statement that fails does not block the others | violated |
| `RebuildUsesTheMap` | integrations_github.py:540-543: the rebuild uses the label map saved | violated |

The violated ones state what a comment of the code promises; `PROJECT.json`
quotes the line and tells the behaviour found.

What the properties of the four composed runs say:

* `Spend`. `AlertOnce`: each alert once a role and period. `BlockedIsDenied`: a cap
  marked blocked has its deny. `ExhaustedIsDenied`: an exhausted budget that is
  to block ends in a deny. `AloneSucceeds`: a run that no other call falls into
  does not fail. `InForceAtLast`: the wanted document is in force at last.
  `Publishes`: `PolicyVersions` implements `Publication`. `MonthConverges`: the
  month is in the end what CUR billed, under the identities and roles the code
  intends. `TableSettles`: the drift table is in the end the drift there is.
  `RunsAreExact`: what an undisturbed sync or sweep writes is exact.
* `Logins`. `NoHalfState`: who is registered while tg owns the directory can log
  in. `OrgAdminStays`: the last org admin is not revoked. `Hierarchy`: no cycles,
  and a team admin reaches exactly what lies under the teams granted.
  `Memberships`: one team a user, in both places. `LoginPage`: the stored provider
  is the live one, and the password login stays.
* `Operations`. `OwnAnswers`: an account gets its own answers only. `InstallHeals`:
  done means complete, and a repeated install is done in the end. `UpgradeHolds`:
  the upgrade keeps every block, and the new version serves in the end.
  `LoggingHolds`: a customer's logging is the customer's, and the catalogue is what
  Bedrock does. `RowsMatch`: a JobRun row is that of its own run. `JobsGoOn`: every
  scheduled job runs again and again.
* `Reports`. `PassSettles`, `WarnOncePerCross`, `MailsAlternate`: labels settle in one
  pass, one warning a crossing, block and unblock mails alternate.
  `NothingSkipped` and `CatchesUp`: what an early stop passes by is in the
  table, and everything is in the end. `OrgTokenIsKept`: no repository gets the
  org's token before a probe has found it private. `Arrive`: each Jira issue
  referred to is fetched again and again. `TotalsAddUp`: shares and points neither
  lose nor double what they add up to. `Settles`: classes and tables settle on the
  facts.

Bounds. In `Enforcement`, roles are the consumer role, one application role and
one Identity Center role: the three kinds the code tells apart. The cap is 1 and
spend 0 or 1: under and at the cap (`spend >= cap` is the only comparison).
`MaxMoves` bounds what requests, admins, the world and faults do in one behaviour
to 2, each of which may overlap any number of ticks: two are what a race with
the tick needs, one to disturb it and one to be lost. The runs repeat for ever,
so their own steps are not bounded. `Converge` leaves out the operations whose
handler waits for a run on the row it has locked, for `RequestHangs` shows that
they may never end; their commits are like those of the operations it has.

| part | instance | why it is enough |
|---|---|---|
| alerts | caps 0, 2 and none, org default 1 or 2, threshold half; no bound on length | estimate, threshold and cap on every side of each other |
| budgets | 2 roles, 2 periods, 4 moves | block, a failure, a change and a second period |
| versions | limit 3, 2 runs, 2 documents, 1 move besides the runs | two old versions beside the default, pruned by either run; `MaxId` 12 is not reached |
| CUR | two roles and a key, one person, amounts to 2, two runs, 2 revisions, pages of 6 lines | a role overtakes another, a key becomes dominant, a line leaves; all lines fit in a page |
| drift | three people, one of Identity Center, three roles, two sweeps, 2 changes | people who share a role, both kinds of drift, each sweep overtaken |
| teams | 3 teams, 1 person, 2 at a time, 4 requests in all | the smallest cycle by two moves, and one more to look at it |
| access | 2 people, 2 at a time, 3 requests, faults and settings | each revokes the other |
| SAML | 2 providers, 2 at a time, 4 requests, restarts and faults | a rename, an overlap, a failure |
| install | 2 accounts, clean or stale shell, with a shared file of before and without, 1 trouble | an interrupted run, then one for another account |
| upgrade | 2 tasks, 3 troubles | an old task writes, a task dies, another starts |
| logs | 2 regions, one seeded, 4 acts | a customer between look and call, one call that fails, a save that changes nothing across one that does |
| jobs | an interval and a cron job, pauses to 2 ticks, 2 troubles | a manual run over a scheduled one, a kill during both |
| GitHub | 1 repository, 3 pull requests, a page each, 2 pages at most, 3 moves, 2 runs | one moves up between two pages behind the early stop; one is reopened and another slides past the walk; a walk is cut. With 4 moves this part alone holds too (992 thousand states): among them a repository probed private, made public, and the org's token deleted |
| Jira | 3 sites, one synthetic, 3 keys, the second at no site, page 1, hard cap 2, 3 moves | a site that refuses before one that answers; keys beyond the cap, and one nobody serves before others |
| metrics | 2 pull requests, days 1 and 2 of a week, 2 issues, each in a sprint of its own, 1 team, a bill of 6, windows of the code, 3 facts, runs by hand among them; no labels, which `RebuildUsesTheMap` has | one merged on each side of a snapshot |

Symmetry is used in `Logins` only, which has no liveness property.
Deadlock is checked in `Converge` and `Overlap`. `CHECK_DEADLOCK FALSE` stands where a
behaviour may end: with the budget of moves in the composed runs, and in
`Everything` with the hang of `RequestHangs`, which is the program's own.

Fairness. `FairSpec` of `Enforcement` asks for weak fairness of the scheduler's
starts (APScheduler starts the job every five minutes when it is not running), of
the steps of a run and of the steps of a handler (threads that have started go on).
Nothing is asked of admins, operators, the CUR sync, manual starts or faults. A tick
that fails is started again. Weak fairness of `FlushRow` is enough because a lock is
held only by a transaction that itself ends. Every other part asks the same of the
job its worker schedules, and of the steps of runs that have started. (In
`PrMetrics` that is every roll-up, for one begun by hand may hold rows the timer's
waits for, but only the timer's classification; in `GithubSync` only the timer's runs.) Besides: an API task that died is
started again (ECS keeps the count of tasks up); the steps of an install that is
under way go on, the operations of others on a stack end, and a stack no update can
save is removed on the console, as the installer tells the operator; the worker is
started again and its clock ticks. Strong fairness is asked once, in `GithubSync`:
the probe of a repository may fail at any time, but not every time it is tried.

What the passing properties except, and why:

* `WarnOncePerCross` and `MailsAlternate`: passes that rolled back after mailing. Mails
  leave before the commit (`deny_reconciler.py:790`), so such a pass mails again,
  against the comment at line 782. A re-block after an admin's unblock is not
  mailed at all, since `last_status_notified`, which the unblock leaves alone,
  still says blocked.
* `IdcUntouched`: `set_principal_arn`; two such requests racing two CUR syncs mix the
  role of one with the type of the other. `unmanage` detaches the policy even from
  the consumer role (users.py:1069); `Convergence` says the next tick brings it back.
* `BlockedIsDenied`, `ExhaustedIsDenied`: a pass that rolled back after IAM had done
  what it asked; the deny it wrote stays without a record, until a later pass blocks
  the role again or somebody removes it.
* `MonthConverges`: holds while the lines fit in the page Athena returns.
* `Hierarchy`, `Memberships`: operations that committed on stale reads, and rows
  from before the backfill. There two reparentings do make a cycle, and two
  assignments two teams, or a membership that its shadow column contradicts.
* `OrgAdminStays`: overtaken revokes, and the deletion of users, which asks nothing.
* `JobsGoOn`: supposes that a job which has started ends (weak fairness of the
  wrapper's step). For the reconciler that is not certain: a run that waits for a row
  which a request holds that waits for a run never ends (`RequestHangs`), nor does
  the schedule start another while it lasts.
* `LoginPage`: half-done, overlapping, renamed or re-seeded configurations (`rough`),
  after which store, pool and app client may name different providers. The password
  login stays whatever happens.
* `LoggingHolds`: a customer's configuration that could not be read, or was made
  between look and call; regions where a call failed or had a stale look
  (`missed`); and regions where a request that saves what is stored already, and so
  waits for nobody, contradicts one that saves something else (`crossed`). What
  becomes of those says `CatalogueIsApplied` below.
* `UpgradeHolds`: an admin who holds both the retired and the new role
  (`ColumnsAreAdded`).
* `CatchesUp`: repositories no token can read. What a probe has once found is not
  asked about again: one found public and made private later is read without a
  token, and refused; one found private and made public later is read with the
  org's token only, and is paused without it. `NothingSkipped` and `CatchesUp`:
  repositories a walk of which was cut at `MAX_PAGES` (`cut`, github_sync.py:321),
  and pull requests that moved up past a walk, from the page it was to ask for next
  to the one before, because one above was reopened (`slid`). Those are lost for
  good (`BeyondIsSynced` below) unless they are updated again.
* `Arrive`: a key before which `HARD_CAP` or more keys that are not in step are waiting
  (jira_sync.py:232-236). Keys of a site that is gone, refuses its token or has no
  such issue never get in step, so enough of them starve the rest (`AlwaysPulled`).
* `TotalsAddUp`, its part on points: weeks with the rows of two runs (`mixed`). The key
  of `jira_weekly_metrics` has the sprint in it, so the rows of two runs that have
  read an issue in two sprints do not collide, as all others do (`RerunsAreClean`).
* `OwnAnswers`: the answers of a shared file from before the keyed ones.
* `CommitKeepsDenials` is proved, and checked, for behaviours in which nobody is
  force-blocked or newly governed and no status is set by hand: those are what a
  run with a stale snapshot undoes (`ForceBlockLost`).

Operators named in `PROJECT.json` under `mutants`, and commented *Mutant of*, take
no part in the specifications: each is a plausible bug that, put in the place of
the operator it follows, one of the properties notices.

## Statements that fail

Beside the five violated runs, the modules state what a comment says and the
model refutes, or what a reader might expect. No run checks them; added to the
configuration of their component, TLC shows a behaviour. Four have configurations
of their own: `CatalogueIsApplied.cfg` (of `InvocationLogs`), `BeyondIsSynced.cfg`
(`GithubSync`), `AlwaysPulled.cfg` (`MCJira`) and `RerunsAreClean.cfg` (`MCPrMetrics`),
each of which TLC refutes within a minute, and which are the exceptions of
`LoggingHolds`, `NothingSkipped`, `Arrive` and `TotalsAddUp`.

| statement | module | what happens |
|---|---|---|
| `AnswerIsTrue` (users.py:120-122) | `Enforcement` | force_block answers "enforced" for a document its run computed from the row before |
| `ManageAttaches` (users.py:881-884) | `Enforcement` | the run inside the request does not see the row as governed and detaches again what the handler attached |
| `TrustKept` (users.py:245-246) | `Enforcement` | an unmanage that looked before the manage committed strips the trust it needs |
| `UnblockRemoves` (service_accounts.py:162-165) | `ServiceAccountMonitor` | the monitor finds denies to remove by the very mark the unblock has cleared |
| `TableIsLatestSweep` (governance_drift_check.py:20-22) | `GovernanceDrift` | two sweeps each delete what they see and leave the rows of both |
| `PassMeansEnforced` (checks/governance.py:275-283) | `GovernanceDrift` | the check takes the trust of tg-consumer for granted, which the badge of the user looks at |
| `LastOrgAdminStays` (roles.py:364) | `AdminAccess` | two org admins revoke each other, or are deleted |
| `OneTeamEach` whatever overlaps (teams_membership.py:11) | `Teams` | two assignments overlap |
| `NeverClobbers` (invlogs_apply.py:11-13) | `InvocationLogs` | a configuration made between look and call, or unreadable, is overwritten |
| `CatalogueIsApplied` (settings.py:424-430) | `InvocationLogs` | the catalogue has the region on; one request saves it unchanged, hence without a lock, and finds no configuration; another saves it off, finds none and has nothing to delete; the first puts one, the second commits: off, with Bedrock logging to tg, and no call has failed |
| `EditsStay` (main.py:337-340) | `InvocationLogs` | a catalogue emptied by an admin is seeded again |
| `BeyondIsSynced` (github_sync.py:292-296) | `GithubSync` | b, closed unmerged, is listed above a, merged; a walk reads the page of b, b is reopened, a moves to that page and the next is empty; once a is older than the horizon no walk looks at it again |
| `AlwaysPulled` (jira_sync.py:8-9) | `JiraSync` | `HARD_CAP` keys that no site serves come first at every tick |
| `RetryAfterRespected` (jira_sync.py:21) | `JiraSync` | the next tick asks again whatever Retry-After said |
| `RerunsAreClean` (pr_cost_rollup.py:410) | `PrMetrics` | one roll-up reads an issue in a sprint, the next after it has moved to another; each deletes before the other inserts; the points of one pull request are booked in both |
| `WeekIsItsDays` (pr_cost_rollup.py:136, 292) | `PrMetrics` | the oldest week in the window loses its first day |
| `ConfirmedIsSent` (runner.py:8-9) | `Installer` | a `TG_VPC_ID` of the shell overrides the kind of VPC confirmed |
| `OwnAnswers` without its exception (__main__.py:140-147) | `Installer` | `resolver.supplied` is frozen (line 341) before the answers of another account's old shared file are dropped (line 391), so they are deployed as if supplied |

Found on the way, without a property of their own: role rows do not refer to teams
and outlive them; a grant for somebody who is in Cognito already fails for ever on
UsernameExists; the rename of a SAML provider leaves the old one in the pool, and
the read-modify-write of the app client may bring back an old callback; a change of
`text_on` alone is not applied, and a region dropped from the PUT is never turned
off; If-Match is compared at load, not in the UPDATE (users.py:1219); spend of the
previous month stays under an identity's old owner; a sweep that cannot read IAM
clears known drift; when the dominant principal of an identity is an API key, the
CUR sync makes that its `principal_arn`, and its role goes from the list of roles to
attach to; deleting the cap of a blocked machine role leaves its deny; interval jobs
restart their count with the worker, and a cron run inside a pause or more than a
second late is skipped; a DELETE that races a sync brings the repository back; pull
requests beyond `MAX_PAGES` are lost; overlapping roll-ups may collide on a unique
key, which takes one of them back; a 5xx of one Jira site ends the tick for the
sites after it; incremental classification never comes back to a row; a pull request
whose issues are in two sprints counts in both; an interrupted install mints a new
self-signed certificate and asks the questions of its keyed answers again.

## Proofs

TLAPS proves every invariant and every action property that a passing run checks,
types included, and the refinement of `Publication`; for every number of
principals, roles, people, teams, jobs, regions, accounts, repositories, sites,
pull requests, ticks and requests, every cap, threshold, spend, page size, limit and
budget of moves, under the assumptions named in the modules (the constants are of
their kinds; the initial rows have a type that fits their role; Ticks and Requests
are disjoint; a policy may have at least two versions; what the button runs can be
triggered). Two assumptions are more than that: `Quiet`, under `CommitsKeepDenials`
below, and `SharesAreWhole` of `PrMetrics`, which chooses the unit of money such
that a day's bill divides into equal shares: the code divides floats, and what
rounding does is not the question.

| theorem | module | says |
|---|---|---|
| `TypeCorrect`, `WarnsOncePerCross`, `MailsDoAlternate`, `PassesSettle` | `SpendAlertsProofs` | types and the three properties of mails |
| `TypeCorrect`, `LocksHold` | `EnforcementProofs` | types; a locked row exists and has one holder |
| `OptInHolds` | `EnforcementProofs` | `Spec => []OptIn` |
| `IdcSafe` | `EnforcementProofs` | `Spec => IdcUntouched`, assuming `"set_role" \notin Ops` |
| `CommitsKeepDenials` | `EnforcementProofs` | `Spec => CommitKeepsDenials`, assuming `Quiet`: no force_block, set_status or manage among `Ops` |
| `BudgetTypeCorrect`, `AlertsOnce`, `BlockedAreDenied` | `SpendProofs` | types, `AlertOnce`, `BlockedIsDenied` |
| `VersionsTypeCorrect`, `RunsAloneSucceed` | `SpendProofs` | types, `AloneSucceeds` |
| `Refines` | `SpendProofs` | `VersionsSpec => Publishes`: every interleaving of the calls is one of one-step publications |
| `CurTypeCorrect`, `RunsLeaveTheirLines` | `SpendProofs` | types, `RunIsExact` of the CUR sync |
| `DriftTypeCorrect`, `SweepsAreExact` | `SpendProofs` | types, `SweepIsExact` of the drift sweep |
| `SpendTypeCorrect`, `RunsStayExact` | `SpendProofs` | `TypesOK`, `RunsAreExact` of `MCSpend` |
| `TeamsTypeCorrect`, `MembershipsHold`, `HierarchyHolds` | `LoginsProofs` | types, `Memberships`, `Hierarchy` |
| `TypeCorrect`, `NobodyIsHalfIn`, `OrgAdminsStay` | `LoginsProofs` | types, `NoHalfState`, `OrgAdminStays` |
| `SamlTypeCorrect`, `LoginPageHolds` | `LoginsProofs` | types, `LoginPage` |
| `LoginsTypeCorrect` | `LoginsProofs` | `TypesOK` of `MCLogins` |
| `JobsTypeCorrect`, `RowsAlwaysMatch` | `OperationsProofs` | types, `RowsMatch` |
| `LogsTypeCorrect`, `CatalogueIsTrue`, `CustomersAreSafe`, `LoggingDoesHold` | `OperationsProofs` | types, the two parts of `LoggingHolds`, and `LoggingHolds` |
| `UpgradeTypeCorrect`, `BlocksDoSurvive` | `OperationsProofs` | types, the safety part of `UpgradeHolds` |
| `InstallTypeCorrect`, `AnswersStayApart`, `DoneMeansComplete` | `OperationsProofs` | types, `OwnAnswers`, the safety part of `InstallHeals` |
| `OperationsTypeCorrect` | `OperationsProofs` | `TypesOK` of `MCOperations` |
| `HubTypeCorrect`, `NothingIsSkipped`, `OrgTokensAreKept` | `ReportsProofs` | types, `NothingSkipped`, `OrgTokenIsKept` |
| `JiraTypeCorrect`, `MetricsTypeCorrect`, `ReportsTypeCorrect` | `ReportsProofs` | types, `TypesOK` of `MCReports` |
| `TotalsDoAddUp` | `ReportsProofs` | `TotalsAddUp` |

*Mails.* The invariant `Memory` ties the history to the row: unless a pass has
rolled back, either the principal has dipped or the latch is set, and the
last block or unblock mail is the one remembered. The
lemmas of `DenyDecisionProofs` say which rows can mail what; each admin
action keeps `Memory` because it changes neither latch nor last status mailed.

*Types of Enforcement.* `TypeOK` is not inductive: a commit writes
`Merge(loaded, after, current)` into each row its transaction has updated, and
that is a row only if all three exist. `IInv` adds what a run and a request
hold (`RunShape`, `ReqShape`) and `Locks`: a row that a run or a request has
updated exists in the table, and nobody else has updated it. A delete of the
row waits for the lock, so what was there at the UPDATE is there at the
commit.

*Opt-in.* A document is in force long after its rows were read, when the
principal may be ungoverned or gone. `Enrolled` carries the property over:
governed principals of the table and of every snapshot are enrolled, and
nobody leaves `enrolled`. A commit may govern again a principal from a stale
snapshot only if it was governed when the snapshot was taken.

*Identity Center.* `TrueTypes`: in the table, in the rows a run has read and in
the rows a request has loaded or will write, `idc` holds exactly of Identity
Center roles. It makes every role on the way to an attach or a detach
(`keep`, the `attach` and `detach` steps) one that is not Identity Center's. `Merge`
preserves it when at most one of its writers changes role and type, which is
what leaving out `set_principal_arn` ensures.

*Commits keep the denials.* A commit writes what it decided on rows read long before
into rows that have changed since. `AsksKept`: a row that is force-blocked and
governed now was so in the snapshot of every run between its reads and its commit,
which therefore keeps it so, and no request writes a row harsher than the one it
loaded. Merged, nothing but the status of a row changes, and only between two values
that leave the decision to cap and spend. The steps that make a row ask for more are
`force_block`, `set_status` and `manage`, the operations that `Quiet` leaves out,
and with the first the property fails (`ForceBlockLost`).

*Budgets.* `Holds`: a pass has loaded every cap it writes, which types need.
`Queued`: an alert that the pass is to add is not in the ledger of its period;
only a commit adds to the ledger, and one pass runs at a time, so the look-up is
still true a pass later. `Marks`: unless a pass has rolled back, what is or will
be marked blocked is denied, save what the pass has unblocked and not committed.
Admins change caps while it runs but never set the mark.

*Versions.* `Undisturbed` says what a run nothing overlapped knows after each call:
the version it is to read exists, the one to prune exists and is not the default,
and there is room before it creates. Whatever overlaps empties `alone`. For the
refinement the mapping takes `InForce` for the document in force, and for each run
under way the document it brings. Only `Create`, an operator's edit and a run's
start or end change either.

*CUR and drift.* A sync that nothing raced has deleted all rows of its month when it
flushes, so what is there is what it writes: one sum per identity of the lines it
read, which `Sums` shows to be a number whatever the lines are. A sweep deletes
what it sees and writes one row per finding; if it was calm, the flags,
attachments and documents it read one after another are those of the end, and the
findings are exactly the principals whose flag and IAM disagree.

*Teams.* `ValidParent` walks up from the new parent, `Subtree` down from the teams of
an admin, each with a step per team. That they reach all there is to reach is set
induction (the smallest number of steps at which a team is met exists, by the
well-founded order of the naturals), stated without a schema. A new edge under a
team that does not have it above closes no cycle; overlapping moves do, and `raced`
remembers them. For `Memberships`, unless assignments raced, a committed assignment
has seen the team its person is in.

*Admins and logins.* `Decided`: a request that has created a login is the one whose
login is there, so the row that follows promises nothing that is missing. `Counted`:
a revoke nothing has overtaken still leaves an org admin at its commit, since the
roles are those it counted. For SAML, `Smooth` says for each step of an edit which
of store, pool and app client has the new provider already and which has still the
old one, unless something was rough; the client an edit writes back is the one it
read, password login and all.

*Job rows.* `Around`, `Runs` and the property are inductive together: the row a
wrapper writes is the one it made, since where a wrapper is says what its row is.

*Logs, upgrade, install.* `RegionHolds`: unless a region is in `missed` or
`crossed`, the catalogue, or the save under way that holds its row, says of it what
Bedrock has. A call changes Bedrock only as its request wants, so one that has the
row makes it what it is about to commit, and one that has not, unless it crosses,
agrees with the entry that counts. `BlockKept`: whoever is to be blocked is so in
the committed table, in the words of the columns there are, and in what each open
transaction sees, which has the locks old tasks would write under. `SitesInv` and
`RunHolds`: an answer in a keyed file, in a run or in a stack is the account's own,
the shell's, or comes from the shared file of before; and from its deployment on a
run's stack stands.

*Mirror.* `RepoHolds` and `WalkHolds`: what lies below a repository's horizon is stored
as GitHub has it; of a walk under way, whatever stands on the pages it has read is
in its data or was updated since it began, and what it stops at is below its
horizon, hence stored. A pull request updated between two pages moves to the top,
and no horizon of a walk under way, nor the next one of its repository, has it
(`Apart`): that is what the margin is for. When one is reopened those below it move
up a place; the only one that gets from what the walk is yet to ask for to what
it has read is the one `slid` records.

*Sums.* `TotalsInv`: the rows a run has made are `Good`, a class's beside the others of
its day or week and the row of all which they split, since classes partition the
pull requests and a day's shares are whole. In a table the rows of one day or week
are then all of the same run, whichever run has seen or overtaken which: whoever
made rows there made the row of all (`HasAll`), and of two rows of all with the same
key the unique constraint admits one. So what an INSERT adds to what the DELETE has
left is of other days, or collides (`MergeIsGood`). The rows of sprints have the
sprint in their key and nothing that holds them together; what two runs have put in
one week is in `mixed`, and elsewhere the points of a week are a double sum, over
rows and pull requests; summed by pull requests each is booked in one row
(`MergedPoints`). `Sums` proves what this needs of
`SumFunction` over finite sets: parts of a sum, disjoint unions, bounds, and that
sums may change places.

*Runs.* The specification of an MC module implies that of each of its parts, as what
is not active stands still; so each of the theorems holds of the run.

What is only model-checked is all that rests on fairness, since liveness and ENABLED
are beyond the prover: `Convergence`, `LabelsSettle`, `InForceAtLast`,
`ExhaustedIsDenied`, `MonthConverges`, `TableSettles`, the parts of `InstallHeals` and
`UpgradeHolds` that say *in the end*, `JobsGoOn`, `CatchesUp`, `Arrive`, `Settles`.

## Not modelled

* The spend estimate's arithmetic over timestamps (hourly rate, gap, start of the
  month): its result is an input of `DenyDecision`.
* The life of a session, OIDC and CSRF tokens; `AdminAccess` has who may log in.
* Read APIs and reports: reads, layout and one cache row per report. The
  diagnostics engine, but for the two checks on governance.
* Transport of notifications (it never raises, so nothing comes of a failure) and
  the encryption of two secrets; access log and logging.
* Invite and profile handlers, If-Match versions, notification settings.
* Jira's sync-now over the timer's tick.
* Backup, seeders, the web UI, CloudFormation templates and the shell installers,
  which `Installer` takes as one step each; `db/sync_state.py`, which nothing calls.

## Plan

Done: the core (decisions, mails, enforcement, versions, budgets) with proofs; the
jobs around it (CUR, drift, job runner); people (access, teams, SAML); operations
(installer, start-up, log capture); activity (GitHub, Jira, roll-up); the
refinement of `Publication`.

Theorems for every invariant and every action property that a passing run checks.

Left, in this order:

1. An abstract specification of what enforcement promises (a set of principals
   denied, which follows the table with a delay), implemented by `Enforcement`, with
   `Publication` in the place of its one-step `Publish`.
2. Lemmas on which the liveness properties rest and which are safety: what a sync, a
   sweep, a roll-up or a tick that is left alone has reached when it ends.
3. `JiraSync` with overlapping runs; the lives of sessions and tokens.
4. The estimate as functions against a reference over small samples.

## Running

    tlc -workers 2 -config Spend.cfg MCSpend
    tlc -workers 2 -config Everything.cfg MCEnforcement
    tlapm EnforcementProofs.tla

`PROJECT.json` names the module of every run, the lines of source behind every
definition, the mutants and the hazards.
