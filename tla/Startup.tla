------------------------------- MODULE Startup -------------------------------
(***************************************************************************)
(* The upgrade of an existing database when the API starts: the lifespan   *)
(* of api/main.py.  A rolling deployment starts new tasks while the old    *)
(* version still serves; a task that fails is started again.               *)
(*                                                                         *)
(* All statements run in one transaction.  Its first ALTER TABLE locks     *)
(* users until it ends; admin_roles can be written until the statement     *)
(* that updates it.  One user, one admin of one team and one repository    *)
(* stand for the tables.                                                   *)
(***************************************************************************)
EXTENDS Naturals

CONSTANTS
    Tasks,      \* new API tasks
    NoTask,
    MaxUpgrade  \* bound on what the old version writes and on faults

UpgradeAssumption == Tasks # {} /\ NoTask \notin Tasks /\ MaxUpgrade \in Nat

\* The database.  disabledAt, newColumns: is the column disabled_at there, are
\* the new ones; status and stamp: the user's, and the column that dates the
\* block; rows: the admin's rows, by role; token: the repository's token_kind.
Db == [ disabledAt : BOOLEAN, newColumns : BOOLEAN,
        status : {"active", "disabled", "force_blocked"},
        stamp : {"none", "disabled_at", "force_blocked_at"},
        rows : SUBSET {"parent_team_admin", "team_admin"},
        token : {"null", "default", "repo", "unprobed"} ]

VARIABLES
    db,         \* committed
    task,       \* per task: "off" or "serving"
    upgrade,    \* the transaction in progress: its task, the statement to
                \* run next and the database as the transaction sees it
    oldServes,  \* the old version still runs
    blocked,    \* history: an admin wants the user blocked
    steps

upgradeVars == <<db, task, upgrade, oldServes, blocked, steps>>

Statements == {"addColumns", "collapseRoles", "unprobeRepos", "renameDisabled", "commit"}
NoUpgrade == [by |-> NoTask, next |-> "addColumns", sees |-> db]
Upgrading == upgrade.by # NoTask

UpgradeTypeOK ==
    /\ db \in Db
    /\ task \in [Tasks -> {"off", "serving"}]
    /\ upgrade \in [by : Tasks \cup {NoTask}, next : Statements, sees : Db]
    /\ oldServes \in BOOLEAN /\ blocked \in BOOLEAN
    /\ steps \in 0..MaxUpgrade

UpgradeAct == steps < MaxUpgrade /\ steps' = steps + 1
-----------------------------------------------------------------------------
(* The upgrade *)

\* The first ALTER locks out the second task that starts.
StartTask(t) ==
    /\ task[t] = "off" /\ ~Upgrading
    /\ upgrade' = [by |-> t, next |-> "addColumns", sees |-> db]
    /\ UNCHANGED <<db, task, oldServes, blocked, steps>>

Execute(statement, following, after) ==
    /\ Upgrading /\ upgrade.next = statement
    /\ upgrade' = [upgrade EXCEPT !.next = following, !.sees = after]
    /\ UNCHANGED <<db, task, oldServes, blocked, steps>>

AddColumns ==
    Execute("addColumns", "collapseRoles", [upgrade.sees EXCEPT !.newColumns = TRUE])

\* Mutant of Collapsible: the retired role is refused outright.
NoneRetired == "parent_team_admin" \notin upgrade.sees.rows

\* (email, role, team) is unique: an admin who has both rows makes it fail.
Collapsible == ~({"parent_team_admin", "team_admin"} \subseteq upgrade.sees.rows)

CollapseRoles ==
    /\ Collapsible
    /\ Execute("collapseRoles", "unprobeRepos",
               [upgrade.sees EXCEPT !.rows = IF @ = {} THEN {} ELSE {"team_admin"}])

UnprobeRepos ==
    Execute("unprobeRepos", "renameDisabled",
            [upgrade.sees EXCEPT !.token = IF @ \in {"null", "default"} THEN "unprobed" ELSE @])

\* The date is copied and the column dropped; "disabled" becomes "force_blocked".
Renamed(d) ==
    [d EXCEPT !.stamp = IF @ = "disabled_at" THEN "force_blocked_at" ELSE @,
              !.status = IF @ = "disabled" THEN "force_blocked" ELSE @,
              !.disabledAt = FALSE]

RenameDisabled == Execute("renameDisabled", "commit", Renamed(upgrade.sees))

\* Then the seeds, and the task serves.
CommitUpgrade ==
    /\ Upgrading /\ upgrade.next = "commit"
    /\ db' = upgrade.sees
    /\ task' = [task EXCEPT ![upgrade.by] = "serving"]
    /\ upgrade' = [NoUpgrade EXCEPT !.sees = db']
    /\ UNCHANGED <<oldServes, blocked, steps>>

Abort == /\ upgrade' = NoUpgrade
         /\ UNCHANGED <<db, task, oldServes, blocked>>

\* The statement that violates the constraint ends the transaction and the
\* start with it.
Refused == /\ Upgrading /\ upgrade.next = "collapseRoles" /\ ~Collapsible
           /\ Abort /\ UNCHANGED steps

CrashUpgrade == UpgradeAct /\ Upgrading /\ Abort

-----------------------------------------------------------------------------
(* The versions that serve *)

\* Both the committed tables and what an upgrade in progress sees of them.
WriteTables(new, seen) ==
    /\ UpgradeAct
    /\ db' = new
    /\ upgrade' = [upgrade EXCEPT !.sees = IF Upgrading THEN seen ELSE new]

\* A writer of users waits for the upgrade, and then has no column to name.
UsersFree == ~Upgrading /\ db.disabledAt

OldDisable ==
    LET new == [db EXCEPT !.status = "disabled", !.stamp = "disabled_at"] IN
    /\ oldServes /\ UsersFree
    /\ WriteTables(new, new)
    /\ blocked' = TRUE
    /\ UNCHANGED <<task, oldServes>>

OldEnable ==
    LET new == [db EXCEPT !.status = "active", !.stamp = "none"] IN
    /\ oldServes /\ UsersFree
    /\ WriteTables(new, new)
    /\ blocked' = FALSE
    /\ UNCHANGED <<task, oldServes>>

\* Roles can be granted until the upgrade updates them, and after it ends.
OldGrant(role) ==
    /\ oldServes
    /\ ~Upgrading \/ upgrade.next \in {"addColumns", "collapseRoles"}
    /\ role \notin db.rows
    /\ WriteTables([db EXCEPT !.rows = @ \cup {role}], [upgrade.sees EXCEPT !.rows = @ \cup {role}])
    /\ UNCHANGED <<task, oldServes, blocked>>

\* The new version's force_block and unblock.
NewBlock(on) ==
    LET new == [db EXCEPT !.status = IF on THEN "force_blocked" ELSE "active",
                          !.stamp = IF on THEN "force_blocked_at" ELSE "none"]
    IN
    /\ \E t \in Tasks : task[t] = "serving"
    /\ ~Upgrading
    /\ WriteTables(new, new)
    /\ blocked' = on
    /\ UNCHANGED <<task, oldServes>>

\* The deployment stops the old version once a new task serves; a new task
\* may be restarted at any time.
OldStops ==
    /\ oldServes /\ \E t \in Tasks : task[t] = "serving"
    /\ oldServes' = FALSE
    /\ UNCHANGED <<db, task, upgrade, blocked, steps>>

Restart(t) ==
    /\ UpgradeAct
    /\ task[t] = "serving"
    /\ task' = [task EXCEPT ![t] = "off"]
    /\ UNCHANGED <<db, upgrade, oldServes, blocked>>

UpgradeInit ==
    /\ db \in {d \in Db : /\ d.disabledAt /\ ~d.newColumns
                           /\ d.status # "force_blocked"
                           /\ d.stamp = (IF d.status = "disabled" THEN "disabled_at" ELSE "none")
                           /\ d.token # "unprobed"}
    /\ task = [t \in Tasks |-> "off"]
    /\ upgrade = NoUpgrade
    /\ oldServes = TRUE
    /\ blocked = (db.status = "disabled")
    /\ steps = 0

UpgradeStep ==
    AddColumns \/ CollapseRoles \/ UnprobeRepos \/ RenameDisabled \/ CommitUpgrade \/ Refused

UpgradeNext ==
    \/ UpgradeStep \/ CrashUpgrade \/ OldDisable \/ OldEnable \/ OldStops
    \/ \E t \in Tasks : StartTask(t) \/ Restart(t)
    \/ \E on \in BOOLEAN : NewBlock(on)
    \/ \E role \in {"parent_team_admin", "team_admin"} : OldGrant(role)

\* A started statement ends, and ECS starts a task that is not running.
UpgradeFairness == /\ WF_upgradeVars(UpgradeStep)
            /\ \A t \in Tasks : WF_upgradeVars(StartTask(t))

UpgradeSpec == UpgradeInit /\ [][UpgradeNext]_upgradeVars
UpgradeFairSpec == UpgradeSpec /\ UpgradeFairness

-----------------------------------------------------------------------------
(* Properties *)

\* main.py:245-278: a block an admin has set survives the upgrade, whatever
\* crashes, restarts and old tasks that still serve do, and is one the new
\* version knows as soon as the tables have its columns.
BlocksSurvive ==
    /\ blocked => db.status \in {"disabled", "force_blocked"}
    /\ db.newColumns => db.status # "disabled"

\* The upgrade ends and the new version serves, unless an admin holds both the
\* role retired and the role it becomes.
ComesUp == <>(\/ \E t \in Tasks : task[t] = "serving"
             \/ {"parent_team_admin", "team_admin"} \subseteq db.rows)

\* main.py:63-64: "Each statement is its own transaction so one missing column
\* doesn't block the next".  Here: the new columns are there at last, whatever
\* a later statement does.
ColumnsAreAdded == <>db.newColumns
=============================================================================
