----------------------------- MODULE Enforcement -----------------------------
(***************************************************************************)
(* Who writes the deny: the reconciler (worker/jobs/deny_reconciler.py),   *)
(* run by the 5-minute tick, by a manual job and inside API requests, and  *)
(* the API handlers that change a principal (api/routes/users.py), over    *)
(* the `users` table of one PostgreSQL database and one IAM policy,        *)
(* tg-BedrockQuotaDeny.                                                    *)
(*                                                                         *)
(* Every run is a process of its own: a tick p \in Ticks, or the run that  *)
(* request r starts in a thread and waits for, which is process r.  A run  *)
(* reads the settings, the rows and the spend, commits its changes to the  *)
(* rows, and only then writes to IAM.  A request's transaction commits     *)
(* after its handler has returned, so after the run it waits for; what it  *)
(* flushed is invisible to that run and its row stays locked meanwhile.    *)
(*                                                                         *)
(* Users are their own identity keys.  Email and pausing of jobs are left  *)
(* to other modules; the versions of the policy are those of               *)
(* PolicyVersions.  Steps of the environment, new requests and faults      *)
(* share the budget MaxMoves.                                              *)
(***************************************************************************)
EXTENDS DenyDecision, FiniteSets

CONSTANTS
    Users,
    Rank,        \* [Users -> Nat]: the primary-key order a flush writes in
    Ticks,       \* runs of the job, each restarted for ever
    Scheduled,   \* those the scheduler starts; the others an admin starts
    Requests,    \* API requests, each with a run of its own
    Ops,         \* the API operations and events that occur
    InitRows,    \* the rows a principal may start with
    Consumer,    \* the configured consumer role, tg-consumer
    IdcRoles,    \* roles Identity Center owns, AWSReservedSSO_*
    Orgs,        \* the org settings that occur
    Caps,        \* the caps an admin sets
    MaxSpend, MaxUnbilled, MaxMoves,
    Gone,        \* no such row
    NoPolicy     \* the policy does not exist

Table == [Users -> Row \cup {Gone}]
Doc   == [keys : SUBSET Users, models : SUBSET Models]

ASSUME RankAssumption  == Rank \in [Users -> Nat]
ASSUME RoleAssumption  == IdcRoles \subseteq Roles /\ Consumer \in Roles \ IdcRoles
ASSUME SomeAssumption  == Users # {} /\ Orgs # {}
ASSUME NullsAssumption == Gone \notin Row /\ NoPolicy \notin Doc
ASSUME ProcAssumption  == Ticks \cap Requests = {} /\ Scheduled \subseteq Ticks
ASSUME DataAssumption  == /\ Orgs \subseteq Org
                          /\ Caps \subseteq Nat \cup {NoCap}
                          /\ MaxSpend \in Nat /\ MaxUnbilled \in Nat
                          /\ MaxMoves \in Nat
                          /\ \A row \in InitRows :
                                row \in Row /\ (row.idc <=> row.role \in IdcRoles)

Runners == Ticks \cup Requests

VARIABLES
    users,     \* the committed rows of the users table
    spend,     \* billed month to date, by principal
    unbilled,  \* what the estimate adds, by principal
    org,       \* the org settings
    policy,    \* the default version of tg-BedrockQuotaDeny
    attached,  \* the roles it is attached to
    trust,     \* the permission sets the consumer role trusts
    run,       \* per runner, its progress and what it has read
    req,       \* per request, its progress and what it has flushed
    enrolled,  \* history: the principals ever governed
    moves      \* the budget used

db   == <<users, spend, unbilled, org>>
aws  == <<policy, attached, trust>>
vars == <<users, spend, unbilled, org, policy, attached, trust, run, req,
          enrolled, moves>>

NoRows == [u \in Users |-> Gone]
NoDoc  == [keys |-> {}, models |-> {}]
AnOrg  == CHOOSE o \in Orgs : TRUE

Run == [ pc      : {"idle", "rows", "spend", "write", "list", "sync",
                    "compare", "create", "publish", "ok", "failed"},
         org     : Orgs,           \* as read first
         rows    : Table,          \* as read next
         after   : Table,          \* what it wants them to become
         flushed : SUBSET Users,   \* rows its open transaction has updated
         doc     : Doc,            \* the document it wants
         keep    : SUBSET Roles,   \* the roles it wants attached
         seen    : SUBSET Roles ]  \* the roles it found attached

NoRun(pc) == [ pc |-> pc, org |-> AnOrg, rows |-> NoRows, after |-> NoRows,
               flushed |-> {}, doc |-> NoDoc, keep |-> {}, seen |-> {} ]

Operations == {"force_block", "unblock", "set_cap", "manage", "unmanage",
               "set_status", "approve", "set_role", "delete", "reapply"}

Req == [ pc     : {"idle", "attach", "trust", "wire", "flush", "count",
                   "detach", "apply", "running", "commit"},
         op     : Operations,
         user   : Users,
         row    : Row \cup {Gone},   \* the row as loaded
         after  : Row \cup {Gone},   \* the row as the handler leaves it
         flushed : BOOLEAN,          \* its transaction has updated the row
         denied : BOOLEAN,           \* "should be denied", as of its apply
         found  : SUBSET IdcRoles,   \* the trust it read
         answer : {"none", "enforced", "allowed", "pending", "pending_idc",
                   "failed"} ]

NoReq == [ pc |-> "idle", op |-> "reapply", user |-> CHOOSE u \in Users : TRUE,
           row |-> Gone, after |-> Gone, flushed |-> FALSE,
           denied |-> FALSE, found |-> {}, answer |-> "none" ]

TypeOK ==
    /\ users \in Table
    /\ spend \in [Users -> 0..MaxSpend]
    /\ unbilled \in [Users -> 0..MaxUnbilled]
    /\ org \in Orgs
    /\ policy \in Doc \cup {NoPolicy}
    /\ attached \subseteq Roles
    /\ trust \subseteq IdcRoles
    /\ run \in [Runners -> Run]
    /\ req \in [Requests -> Req]
    /\ enrolled \subseteq Users
    /\ moves \in 0..MaxMoves

Live(table) == {u \in Users : table[u] # Gone}
Governed(table) == {u \in Live(table) : table[u].governed}

\* The roles a pass over these rows wants the policy on.
Keep(table) == {Consumer} \cup UNION {GovernedRole(table[u]) : u \in Live(table)}

\* Nothing is enforced yet: no policy, or an old one, possibly put on
\* Identity Center roles by their administrator.
Init ==
    /\ users \in [Users -> InitRows \cup {Gone}]
    /\ spend = [u \in Users |-> 0]
    /\ unbilled = [u \in Users |-> 0]
    /\ org \in Orgs
    /\ \/ policy = NoPolicy /\ attached = {}
       \/ policy = NoDoc /\ attached \in {a \cup {Consumer} : a \in SUBSET IdcRoles}
    /\ trust = {}
    /\ run = [p \in Runners |-> NoRun("idle")]
    /\ req = [r \in Requests |-> NoReq]
    /\ enrolled = Governed(users)
    /\ moves = 0

\* Something of this kind happens: one unit of the budget.
Happens(kind) == kind \in Ops /\ moves < MaxMoves /\ moves' = moves + 1

-----------------------------------------------------------------------------
(* Row locks.  An UPDATE or DELETE holds its row until the transaction     *)
(* ends; whoever updates the row next waits.                               *)

HoldsRow(r, u) == req[r].user = u /\ req[r].flushed

RowFree(u) == /\ \A r \in Requests : ~HoldsRow(r, u)
              /\ \A p \in Runners : u \notin run[p].flushed

\* An UPDATE names only the columns the session changed; the others keep
\* what has been committed meanwhile.
Merge(loaded, after, current) ==
    [col \in DOMAIN current |->
        IF after[col] # loaded[col] THEN after[col] ELSE current[col]]

-----------------------------------------------------------------------------
(* The reconciler: run() *)

Active(p) == run[p].pc \notin {"idle", "ok", "failed"}

Step(p, fields) == run' = [run EXCEPT ![p] = fields]

\* The end of a run.  Only a request asks how its run ended.
Stop(p, how) == Step(p, NoRun(IF p \in Requests THEN how ELSE "idle"))

ReadOrg(p) ==
    /\ Step(p, [NoRun("rows") EXCEPT !.org = org])
    /\ UNCHANGED <<db, aws, enrolled>>

\* The scheduler starts its job again when it is not running; an admin's
\* start is a move.
StartTick(p) ==
    /\ p \in Ticks
    /\ run[p].pc = "idle"
    /\ IF p \in Scheduled THEN UNCHANGED moves ELSE Happens("run_now")
    /\ ReadOrg(p)
    /\ UNCHANGED req

ReadRows(p) ==
    /\ run[p].pc = "rows"
    /\ Step(p, [run[p] EXCEPT !.pc = "spend", !.rows = users])
    /\ UNCHANGED <<db, aws, req, enrolled, moves>>

\* Reads the spend, the enforcement mode and the estimates, and decides.
Decide(p) ==
    LET o == [run[p].org EXCEPT !.onEstimate = org.onEstimate]
        t == run[p].rows
    IN
    /\ run[p].pc = "spend"
    /\ Step(p, [run[p] EXCEPT
            !.pc    = "write",
            !.org   = AnOrg,
            !.after = [u \in Users |->
                IF t[u] = Gone THEN Gone
                ELSE After(o, t[u], spend[u], unbilled[u])],
            !.doc   = [keys   |-> {u \in Live(t) :
                                     Denied(o, t[u], spend[u], unbilled[u])},
                       models |-> o.blocked],
            !.keep  = Keep(t)])
    /\ UNCHANGED <<db, aws, req, enrolled, moves>>

ToFlush(p) == {u \in Users : run[p].after[u] # run[p].rows[u]} \ run[p].flushed

\* The commit flushes the changed rows in primary-key order, each as soon as
\* its lock is free.  A row deleted meanwhile is a StaleDataError: everything
\* is rolled back and the run fails before it writes to IAM.
FlushRow(p) ==
    /\ run[p].pc = "write"
    /\ \E u \in ToFlush(p) :
        /\ \A v \in ToFlush(p) : Rank[u] <= Rank[v]
        /\ RowFree(u)
        /\ IF users[u] = Gone
           THEN Stop(p, "failed")
           ELSE Step(p, [run[p] EXCEPT !.flushed = @ \cup {u}])
    /\ UNCHANGED <<db, aws, req, enrolled, moves>>

CommitRun(p) ==
    /\ run[p].pc = "write"
    /\ ToFlush(p) = {}
    /\ users' = [u \in Users |->
           IF u \in run[p].flushed
           THEN Merge(run[p].rows[u], run[p].after[u], users[u])
           ELSE users[u]]
    /\ enrolled' = enrolled \cup Governed(users')
    /\ Step(p, [run[p] EXCEPT !.pc = "list", !.flushed = {},
                              !.rows = NoRows, !.after = NoRows])
    /\ UNCHANGED <<spend, unbilled, org, aws, req, moves>>

\* list_entities_for_policy; on an error the pass attaches without detaching.
ListRoles(p) ==
    /\ run[p].pc = "list"
    /\ \/ /\ Step(p, [run[p] EXCEPT !.pc = "sync", !.seen = attached])
          /\ UNCHANGED moves
       \/ /\ Step(p, [run[p] EXCEPT !.pc = "sync", !.seen = {}])
          /\ Happens("fault")
    /\ UNCHANGED <<db, aws, req, enrolled>>

\* Mutant of SyncRoles: nothing is ever detached.
SyncRolesAdd(p) ==
    LET add == run[p].keep \ run[p].seen IN
    /\ run[p].pc = "sync"
    /\ attached' = IF policy = NoPolicy THEN attached ELSE attached \cup add
    /\ Step(p, [run[p] EXCEPT !.pc = "compare", !.keep = {}, !.seen = {}])
    /\ UNCHANGED <<db, policy, trust, req, enrolled, moves>>

\* Attach what is missing and detach what is not wanted, never an Identity
\* Center role; each call may fail and is then only logged.
SyncRoles(p) ==
    LET add  == run[p].keep \ run[p].seen
        drop == (run[p].seen \ run[p].keep) \ IdcRoles
    IN
    /\ run[p].pc = "sync"
    /\ \E done \in SUBSET (add \cup drop) :
        /\ IF done = add \cup drop THEN UNCHANGED moves ELSE Happens("fault")
        /\ attached' = IF policy = NoPolicy THEN attached
                       ELSE (attached \cup (add \cap done)) \ (drop \cap done)
    /\ Step(p, [run[p] EXCEPT !.pc = "compare", !.keep = {}, !.seen = {}])
    /\ UNCHANGED <<db, policy, trust, req, enrolled>>

\* Mutant of Compare: the model block-list is not compared.
CompareKeys(p) ==
    /\ run[p].pc = "compare"
    /\ CASE policy = NoPolicy -> Step(p, [run[p] EXCEPT !.pc = "create"])
         [] policy # NoPolicy /\ policy.keys = run[p].doc.keys -> Stop(p, "ok")
         [] OTHER             -> Step(p, [run[p] EXCEPT !.pc = "publish"])
    /\ UNCHANGED <<db, aws, req, enrolled, moves>>

Compare(p) ==
    /\ run[p].pc = "compare"
    /\ CASE policy = NoPolicy     -> Step(p, [run[p] EXCEPT !.pc = "create"])
         [] policy = run[p].doc   -> Stop(p, "ok")
         [] OTHER                 -> Step(p, [run[p] EXCEPT !.pc = "publish"])
    /\ UNCHANGED <<db, aws, req, enrolled, moves>>

\* create_policy, a success when another run has created it, and the attach
\* to the consumer role: at the limit of policies per role it is skipped in
\* silence, any other failure fails the run.
Create(p) ==
    /\ run[p].pc = "create"
    /\ policy' = IF policy = NoPolicy THEN run[p].doc ELSE policy
    /\ \/ /\ attached' = attached \cup {Consumer}
          /\ Stop(p, "ok")
          /\ UNCHANGED moves
       \/ /\ \E how \in {"ok", "failed"} : Stop(p, how)
          /\ UNCHANGED attached
          /\ Happens("fault")
    /\ UNCHANGED <<db, trust, req, enrolled>>

Publish(p) ==
    /\ run[p].pc = "publish"
    /\ IF policy = NoPolicy
       THEN Stop(p, "failed") /\ UNCHANGED policy
       ELSE Stop(p, "ok") /\ policy' = run[p].doc
    /\ UNCHANGED <<db, attached, trust, req, enrolled, moves>>

\* Any call of a run may raise; the transaction, if still open, rolls back.
FailRun(p) ==
    /\ Active(p)
    /\ Happens("fault")
    /\ Stop(p, "failed")
    /\ UNCHANGED <<db, aws, req, enrolled>>

RunStep(p) == \/ ReadRows(p)  \/ Decide(p)    \/ FlushRow(p) \/ CommitRun(p)
              \/ ListRoles(p) \/ SyncRoles(p) \/ Compare(p)
              \/ Create(p)    \/ Publish(p)

-----------------------------------------------------------------------------
(* The API handlers.  A request loads the row, writes to IAM what its      *)
(* handler writes first, flushes, writes what it writes next, may apply    *)
(* the change by a run of its own, and commits.                            *)

Advance(r, fields) == req' = [req EXCEPT ![r] = fields]
Goto(r, pc) == Advance(r, [req[r] EXCEPT !.pc = pc])

\* Request r has loaded u's row and will make it `after`.
Receive(r, op, u, after, pc) ==
    /\ req[r].pc = "idle"
    /\ Happens(op)
    /\ Advance(r, [NoReq EXCEPT !.pc = pc, !.op = op, !.user = u,
                                !.row = users[u], !.after = after])
    /\ UNCHANGED <<db, aws, run, enrolled>>

ForceBlock(r, u) ==
    /\ users[u].role # NoRole
    /\ users[u].governed
    /\ Receive(r, "force_block", u,
               [users[u] EXCEPT !.status = "force_blocked"], "flush")

Unblock(r, u) ==
    Receive(r, "unblock", u, [users[u] EXCEPT !.status = "active"], "flush")

Approve(r, u) ==
    Receive(r, "approve", u, [users[u] EXCEPT !.status = "active"], "flush")

SetStatus(r, u) ==
    \E s \in Status :
        Receive(r, "set_status", u, [users[u] EXCEPT !.status = s], "flush")

SetCap(r, u) ==
    \E c \in Caps : Receive(r, "set_cap", u, [users[u] EXCEPT !.cap = c], "flush")

\* An Identity Center principal gets the consumer role's trust, any other
\* the policy on its role, before the row is flushed.
Manage(r, u) ==
    /\ users[u].idc \/ users[u].role # NoRole
    /\ Receive(r, "manage", u, [users[u] EXCEPT !.governed = TRUE],
               IF users[u].idc THEN "trust" ELSE "attach")

Unmanage(r, u) ==
    Receive(r, "unmanage", u,
            [users[u] EXCEPT !.governed = FALSE,
                            !.status = IF @ = "force_blocked" THEN "active" ELSE @],
            "flush")

SetPrincipalArn(r, u) ==
    \E role \in Roles \ IdcRoles :
        Receive(r, "set_role", u,
                [users[u] EXCEPT !.role = role, !.idc = FALSE], "flush")

Delete(r, u) == Receive(r, "delete", u, Gone, "flush")

\* Changes nothing: the run is all there is.
Reapply(r, u) == Receive(r, "reapply", u, users[u], "apply")

Handle(r) ==
    \E u \in Live(users) :
        \/ ForceBlock(r, u) \/ Unblock(r, u)  \/ SetCap(r, u)
        \/ Manage(r, u)     \/ Unmanage(r, u) \/ SetStatus(r, u)
        \/ Approve(r, u)    \/ SetPrincipalArn(r, u)
        \/ Delete(r, u)     \/ Reapply(r, u)

-----------------------------------------------------------------------------
(* The steps of a handler *)

\* AttachRolePolicy to the principal's role: 502 when there is no policy.
AttachRole(r) ==
    /\ req[r].pc = "attach"
    /\ IF policy = NoPolicy
       THEN Advance(r, NoReq) /\ UNCHANGED attached
       ELSE Goto(r, "flush") /\ attached' = attached \cup {req[r].row.role}
    /\ UNCHANGED <<db, policy, trust, run, enrolled, moves>>

\* Other principals the request's session sees governed on the same role.
\* Its own row it sees as it has flushed it: not governed.
OthersOn(q) == {u \in Governed(users) \ {q.user} : users[u].role = q.row.role}

AfterTrust(q) == IF q.op = "manage" THEN "flush" ELSE "commit"

\* get_role on the consumer role.  There is nothing to wire for a role that
\* is no permission set's; an unmanage first looks for another governed
\* principal of the permission set, whose trust must stay.
ReadTrust(r) ==
    LET q == req[r] IN
    /\ q.pc = "trust"
    /\ IF \/ q.row.role \notin IdcRoles
          \/ q.op = "unmanage" /\ \E u \in OthersOn(q) : users[u].idc
       THEN Goto(r, AfterTrust(q))
       ELSE Advance(r, [q EXCEPT !.pc = "wire", !.found = trust])
    /\ UNCHANGED <<db, aws, run, enrolled, moves>>

\* update_assume_role_policy, with the whole document, if it changes.
WriteTrust(r) ==
    LET q    == req[r]
        want == IF q.op = "manage" THEN q.found \cup {q.row.role}
                                   ELSE q.found \ {q.row.role}
    IN
    /\ q.pc = "wire"
    /\ trust' = IF want = q.found THEN trust ELSE want
    /\ Advance(r, [q EXCEPT !.pc = AfterTrust(q), !.found = {}])
    /\ UNCHANGED <<db, policy, attached, run, enrolled, moves>>

Applies(q) == \/ q.op \in {"force_block", "unblock", "manage"}
              \/ q.op = "set_cap" /\ q.row.governed

AfterFlush(q) ==
    CASE q.op = "unmanage" /\ q.row.idc            -> "trust"
      [] q.op = "unmanage" /\ ~q.row.idc
         /\ q.row.role # NoRole                    -> "count"
      [] Applies(q)                                -> "apply"
      [] OTHER                                     -> "commit"

\* The UPDATE or DELETE waits for the row; on a row gone meanwhile it raises
\* and the request ends in an error.
Flush(r) ==
    LET q == req[r] IN
    /\ q.pc = "flush"
    /\ RowFree(q.user)
    /\ IF users[q.user] = Gone
       THEN Advance(r, NoReq)
       ELSE Advance(r, [q EXCEPT !.pc = AfterFlush(q), !.flushed = TRUE])
    /\ UNCHANGED <<db, aws, run, enrolled, moves>>

\* The role loses the policy when no other governed principal is on it.
CountOthers(r) ==
    /\ req[r].pc = "count"
    /\ Goto(r, IF OthersOn(req[r]) = {} THEN "detach" ELSE "commit")
    /\ UNCHANGED <<db, aws, run, enrolled, moves>>

DetachRole(r) ==
    /\ req[r].pc = "detach"
    /\ attached' = attached \ {req[r].row.role}
    /\ Goto(r, "commit")
    /\ UNCHANGED <<db, policy, trust, run, enrolled, moves>>

\* reconcile_principal: what should hold, by billed spend, then the run.
StartApply(r) ==
    LET q == req[r] IN
    /\ q.pc = "apply"
    /\ Advance(r, [q EXCEPT !.pc = "running",
                            !.denied = DeniedOnBilled(org, q.after, spend[q.user])])
    /\ ReadOrg(r)
    /\ UNCHANGED moves

\* What the handler answers, given how its run ended and whether it could
\* verify the policy on the principal's role.
Outcome(q, how, verified) ==
    CASE how = "failed"                       -> "failed"
      [] how = "ok" /\ q.row.idc              -> "pending_idc"
      [] how = "ok" /\ ~q.row.idc             ->
            IF q.denied THEN IF verified THEN "enforced" ELSE "pending"
                        ELSE IF verified THEN "pending"  ELSE "allowed"

AnswerWith(r, answer) ==
    /\ req[r].pc = "running"
    /\ run[r].pc \in {"ok", "failed"}
    /\ Advance(r, [req[r] EXCEPT !.pc = "commit", !.answer = answer])
    /\ Step(r, NoRun("idle"))
    /\ UNCHANGED <<db, aws, enrolled>>

Answer(r) ==
    /\ AnswerWith(r, Outcome(req[r], run[r].pc, req[r].row.role \in attached))
    /\ UNCHANGED moves

\* The read-back of the role fails, or the run took longer than _apply_now
\* waits: it answers "pending", but only once the run has ended, for leaving
\* the executor's block waits for it.  Reapply has no time limit.
LateAnswer(r) ==
    /\ Happens("fault")
    /\ \/ AnswerWith(r, Outcome(req[r], run[r].pc, FALSE))
       \/ req[r].op # "reapply" /\ AnswerWith(r, "pending")

CommitRequest(r) ==
    LET q == req[r] IN
    /\ q.pc = "commit"
    /\ users' = IF ~q.flushed THEN users
                ELSE [users EXCEPT ![q.user] =
                        IF q.after = Gone THEN Gone ELSE Merge(q.row, q.after, @)]
    /\ enrolled' = enrolled \cup Governed(users')
    /\ Advance(r, NoReq)
    /\ UNCHANGED <<spend, unbilled, org, aws, run, moves>>

\* An IAM call of the handler fails (502), or the API task is killed: the
\* transaction rolls back, a run of the request's own dies with it.
DropRequest(r) ==
    /\ req[r].pc # "idle"
    /\ Happens("fault")
    /\ Advance(r, NoReq)
    /\ Step(r, NoRun("idle"))
    /\ UNCHANGED <<db, aws, enrolled>>

RequestStep(r) ==
    \/ AttachRole(r)  \/ ReadTrust(r)  \/ WriteTrust(r) \/ Flush(r)
    \/ CountOthers(r) \/ DetachRole(r) \/ StartApply(r) \/ Answer(r)
    \/ CommitRequest(r)

-----------------------------------------------------------------------------
(* The rest of the program and the world *)

\* POST /users: a new row, in whatever status the admin asks for.
Register(u) ==
    /\ Happens("register")
    /\ users[u] = Gone /\ RowFree(u)
    /\ \E s \in Status, c \in Caps :
          users' = [users EXCEPT ![u] = [NewRow EXCEPT !.status = s, !.cap = c]]
    /\ UNCHANGED <<spend, unbilled, org, aws, run, req, enrolled>>

\* One principal's part of a CUR sync: its billed spend is replaced, what is
\* still unbilled moves, its role becomes the one billed most (or none, for
\* an API key), and a principal seen for the first time gets a row.  Spend is
\* another table: only a row that changes is waited for.
CurSync(u) ==
    /\ Happens("cur_sync")
    /\ \E s \in 0..MaxSpend : spend' = [spend EXCEPT ![u] = s]
    /\ \E e \in 0..MaxUnbilled : unbilled' = [unbilled EXCEPT ![u] = e]
    /\ \E role \in Roles \cup {NoRole} :
          LET row == IF users[u] = Gone THEN NewRow ELSE users[u]
          IN  users' = [users EXCEPT ![u] =
                  [row EXCEPT !.role = role, !.idc = (role \in IdcRoles)]]
    /\ users' # users => RowFree(u)
    /\ UNCHANGED <<org, aws, run, req, enrolled>>

\* Spend counts from the first of the month.
NewMonth ==
    /\ Happens("new_month")
    /\ spend' = [u \in Users |-> 0]
    /\ UNCHANGED <<users, unbilled, org, aws, run, req, enrolled>>

\* quota_reset: one UPDATE of every row.
QuotaReset ==
    /\ Happens("quota_reset")
    /\ \A u \in Users : RowFree(u)
    /\ users' = [u \in Users |-> IF users[u] = Gone THEN Gone
                                 ELSE [users[u] EXCEPT !.warned = FALSE]]
    /\ UNCHANGED <<spend, unbilled, org, aws, run, req, enrolled>>

SetOrg ==
    /\ Happens("set_org")
    /\ org' \in Orgs \ {org}
    /\ UNCHANGED <<users, spend, unbilled, aws, run, req, enrolled>>

\* Someone with IAM rights detaches the policy from a role of ours, or
\* deletes it, which takes detaching it everywhere.
OperatorDetach ==
    /\ Happens("operator")
    /\ \E role \in attached \ IdcRoles : attached' = attached \ {role}
    /\ UNCHANGED <<db, policy, trust, run, req, enrolled>>

OperatorDelete ==
    /\ Happens("operator")
    /\ policy # NoPolicy
    /\ attached \cap IdcRoles = {}
    /\ policy' = NoPolicy
    /\ attached' = {}
    /\ UNCHANGED <<db, trust, run, req, enrolled>>

World == \/ \E u \in Users : Register(u) \/ CurSync(u)
         \/ NewMonth \/ QuotaReset \/ SetOrg \/ OperatorDetach \/ OperatorDelete

Next == \/ \E p \in Ticks : StartTick(p)
        \/ \E p \in Runners : RunStep(p) \/ FailRun(p)
        \/ \E r \in Requests :
              Handle(r) \/ RequestStep(r) \/ LateAnswer(r) \/ DropRequest(r)
        \/ World

\* The scheduler keeps starting its job, and what has started goes on.
Fairness ==
    /\ \A p \in Scheduled : WF_vars(StartTick(p))
    /\ \A p \in Runners : WF_vars(RunStep(p))
    /\ \A r \in Requests : WF_vars(RequestStep(r))

Spec == Init /\ [][Next]_vars
FairSpec == Spec /\ Fairness

-----------------------------------------------------------------------------
(* What holds *)

\* tg neither attaches to nor detaches from a role Identity Center owns
\* (deny_reconciler.py:192-199), whichever handlers and runs overlap, as
\* long as no admin's set_principal_arn is among them: racing two CUR syncs it
\* can leave a row whose role and role_type disagree.
IdcUntouched == [][attached' \cap IdcRoles = attached \cap IdcRoles]_vars

\* Opt-in: the policy in force, and every document on its way to it, denies
\* only principals that an admin had once put under governance.
OptIn == /\ policy # NoPolicy => policy.keys \subseteq enrolled
         /\ \A p \in Runners : run[p].doc.keys \subseteq enrolled

\* What a run writes back from its old snapshot never decides who is denied:
\* the rows before and after any run's commit ask for the same denials.  This
\* is where no new force-block is in flight, which a commit can undo:
\* ForceBlockHolds, below.
CommitKeepsDenials ==
    [][ \A p \in Runners : CommitRun(p) =>
          \A u \in Live(users) :
             DeniedOnBilled(org, users[u], spend[u])
               <=> DeniedOnBilled(org, users'[u], spend[u]) ]_vars

\* Once the world rests, the policy says what the rows and the spend say and
\* sits on the roles they ask for, whatever stale runs were still to publish.
Published ==
    policy = [ keys   |-> {u \in Live(users) :
                             Denied(org, users[u], spend[u], unbilled[u])},
               models |-> org.blocked ]
Placed == attached \ IdcRoles = Keep(users)
Convergence == <>[](Published /\ Placed)

\* And every label is true: nobody ungoverned is shown blocked, nobody over
\* the cap is shown active, nobody under it is shown blocked by the cap.
TrueLabel(u) ==
    LET row  == users[u]
        over == spend[u] >= CapOf(org, row)
    IN  /\ ~row.governed => row.status = "active"
        /\ row.governed => (over => row.status # "active")
        /\ row.governed => (row.status = "blocked" => over \/ Denied(org, row, spend[u], unbilled[u]))
LabelsSettle == <>[](\A u \in Live(users) : TrueLabel(u))

-----------------------------------------------------------------------------
(* What the documentation promises and the code does not keep *)

\* deny_reconciler.py:990-991: ENFORCED is never claimed unless the deny
\* reaches the principal.
AnswerIsTrue ==
    [][ \A r \in Requests :
          (req[r].answer = "none" /\ req'[r].answer = "enforced")
          => /\ policy # NoPolicy
             /\ req[r].user \in policy.keys
             /\ req[r].row.role \in attached ]_vars

\* users.py:881-884: manage attaches the policy to the principal's role and
\* marks the row governed; when the row is, the role has it.
ManageAttaches ==
    [][ \A r \in Requests :
          (CommitRequest(r) /\ req[r].op = "manage" /\ ~req[r].row.idc)
          => req[r].row.role \in attached ]_vars

\* users.py:1311-1312: a force-block denies until Unblock (or until it is
\* lifted by another request).
ForceBlockHolds ==
    [][ \A u \in Live(users) :
          (/\ users[u].status = "force_blocked" /\ users[u].governed
           /\ users'[u] # Gone /\ users'[u].status # "force_blocked")
          => \E r \in Requests : /\ CommitRequest(r) /\ req[r].user = u
                                 /\ req[r].op # "force_block" ]_vars

\* users.py:126-128: a slow apply must degrade rather than hang the API.
Answered == \A r \in Requests : req[r].pc # "idle" ~> req[r].pc = "idle"

\* users.py:244: the trust a still-governed principal needs is not stripped.
TrustKept ==
    [][ \A u \in Live(users) :
          (/\ users[u].governed /\ users[u].idc /\ users'[u] = users[u]
           /\ users[u].role \in trust
           /\ \A r \in Requests : ~(req[r].user = u /\ req[r].op = "unmanage"))
          => users[u].role \in trust' ]_vars
=============================================================================
