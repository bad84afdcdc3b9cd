------------------------ MODULE ServiceAccountMonitor ------------------------
(***************************************************************************)
(* Budgets of machine roles: the 5-minute monitor                          *)
(* (worker/jobs/service_account_monitor.py), which alone writes the inline *)
(* deny on a role, and the admin API over the caps                         *)
(* (api/routes/service_accounts.py).  One pass runs at a time: the monitor *)
(* has no manual trigger.  A pass writes to IAM while its transaction is   *)
(* open and commits blocked_at and the alerts at its end.                  *)
(*                                                                         *)
(* Spend is abstracted to where it stands in the budget of its period.     *)
(***************************************************************************)
EXTENDS Naturals, FiniteSets

CONSTANTS
    Roles,       \* the roles an admin may budget
    NoRow,       \* no cap for a role
    MaxPeriods,  \* bound on budget periods
    MaxMoves     \* bound on what admins, the world and faults do

Modes  == {"alert_only", "alert_and_block", "disabled"}
Kinds  == {"threshold", "budget_exhausted", "unblocked"}
Levels == {"under", "near", "over"}   \* below the threshold, above it, exhausted
Period == 1..MaxPeriods
Cap    == [mode : Modes, auto : BOOLEAN, blocked : BOOLEAN]

BudgetAssumption ==
    /\ NoRow \notin Cap
    /\ MaxPeriods \in Nat \ {0} /\ MaxMoves \in Nat

VARIABLES
    caps,    \* committed rows of service_account_caps
    level,   \* per role and period, where its spend stands
    period,  \* the current period
    tagged,  \* the roles whose owners allow enforcement
    denied,  \* the roles that carry the inline deny
    ledger,  \* alerts queued, per role, kind and period
    pass,    \* the pass under way
    rolled,  \* history: some pass has rolled back
    moves

vars == <<caps, level, period, tagged, denied, ledger, pass, rolled, moves>>

NoCaps == [c \in Roles |-> NoRow]
Idle   == [busy |-> FALSE, now |-> 1, loaded |-> NoCaps, after |-> NoCaps,
           todo |-> {}, alerts |-> {}]

PassState ==
    [ busy   : BOOLEAN,
      now    : Period,                 \* the period the pass began in
      loaded : [Roles -> Cap \cup {NoRow}],
      after  : [Roles -> Cap \cup {NoRow}],
      todo   : SUBSET Roles,
      alerts : SUBSET (Roles \X Kinds) ]

TypeOK ==
    /\ caps \in [Roles -> Cap \cup {NoRow}]
    /\ level \in [Roles -> [Period -> Levels]]
    /\ period \in Period
    /\ tagged \subseteq Roles /\ denied \subseteq Roles
    /\ ledger \in [Roles \X Kinds \X Period -> Nat]
    /\ pass \in PassState
    /\ rolled \in BOOLEAN
    /\ moves \in 0..MaxMoves

Init ==
    /\ caps = NoCaps
    /\ level = [c \in Roles |-> [k \in Period |-> "under"]]
    /\ period = 1
    /\ tagged \in SUBSET Roles
    /\ denied = {}
    /\ ledger = [a \in Roles \X Kinds \X Period |-> 0]
    /\ pass = Idle
    /\ rolled = FALSE
    /\ moves = 0

Move == moves < MaxMoves /\ moves' = moves + 1

-----------------------------------------------------------------------------
(* The monitor *)

StartPass ==
    LET found == {c \in Roles : caps[c] # NoRow /\ caps[c].mode # "disabled"} IN
    /\ ~pass.busy
    /\ pass' = [busy |-> TRUE, now |-> period, loaded |-> caps, after |-> caps,
                todo |-> found, alerts |-> {}]
    /\ UNCHANGED <<caps, level, period, tagged, denied, ledger, rolled, moves>>

\* Mutant of Fresh: the ledger is not looked up.
FreshAlways(c, kind) == TRUE

Fresh(c, kind) == ledger[<<c, kind, pass.now>>] = 0

\* Mutant of Blocks: only the pass that alerts writes the deny.
BlocksOnAlert(c, cap, at) == /\ at = "over" /\ cap.mode = "alert_and_block"
                             /\ c \in tagged /\ ~cap.blocked
                             /\ Fresh(c, "budget_exhausted")

\* Does the pass write, or remove, the deny of a cap that stands at this level?
Blocks(c, cap, at) == /\ at = "over" /\ cap.mode = "alert_and_block"
                      /\ c \in tagged /\ ~cap.blocked

Unblocks(cap, at) == at # "over" /\ cap.auto /\ cap.blocked

\* Mutant of Marked: blocked_at is set although PutRolePolicy failed.
MarkedAnyway(was, block, unblock, done) == block \/ (was /\ ~unblock)

\* What the cap is marked, given whether IAM did as it was told.
Marked(was, block, unblock, done) ==
    IF done THEN block \/ (was /\ ~unblock) ELSE was

\* One cap: its alerts, and the deny written or removed.  An IAM write that
\* fails is logged and leaves the cap as it was.
HandleCap(c) ==
    LET cap     == pass.loaded[c]
        at      == level[c][pass.now]
        block   == Blocks(c, cap, at)
        unblock == Unblocks(cap, at)
        alerts(done) ==
            {kind \in Kinds :
                /\ Fresh(c, kind)
                /\ \/ kind = "threshold"        /\ at = "near"
                   \/ kind = "budget_exhausted" /\ at = "over"
                   \/ kind = "unblocked"        /\ unblock /\ done}
    IN
    /\ pass.busy /\ c \in pass.todo
    /\ \E done \in BOOLEAN :
        /\ IF done \/ ~(block \/ unblock) THEN UNCHANGED moves ELSE Move
        /\ denied' = IF block /\ done THEN denied \cup {c}
                     ELSE IF unblock /\ done THEN denied \ {c}
                     ELSE denied
        /\ pass' = [pass EXCEPT
                !.todo = @ \ {c},
                !.after[c].blocked = Marked(@, block, unblock, done),
                !.alerts = @ \cup {<<c, kind>> : kind \in alerts(done)}]
    /\ UNCHANGED <<caps, level, period, tagged, ledger, rolled>>

Changed == {c \in Roles : pass.after[c] # pass.loaded[c]}

\* blocked_at and the alerts are committed together; a changed cap deleted
\* meanwhile fails the whole commit.
CommitPass ==
    /\ pass.busy /\ pass.todo = {}
    /\ IF \E c \in Changed : caps[c] = NoRow
       THEN rolled' = TRUE /\ UNCHANGED <<caps, ledger>>
       ELSE /\ caps' = [c \in Roles |->
                  IF c \in Changed
                  THEN [caps[c] EXCEPT !.blocked = pass.after[c].blocked]
                  ELSE caps[c]]
            /\ ledger' = [a \in DOMAIN ledger |->
                  IF a[3] = pass.now /\ <<a[1], a[2]>> \in pass.alerts
                  THEN ledger[a] + 1 ELSE ledger[a]]
            /\ UNCHANGED rolled
    /\ pass' = Idle
    /\ UNCHANGED <<level, period, tagged, denied, moves>>

\* list_role_tags raises, the database goes away, the worker is killed.
FailPass ==
    /\ pass.busy
    /\ Move
    /\ pass' = Idle
    /\ rolled' = TRUE
    /\ UNCHANGED <<caps, level, period, tagged, denied, ledger>>

-----------------------------------------------------------------------------
(* The admin API and the world *)

\* Mutant of Upsert: the mode is stored as it comes.
UpsertUnchecked(c) ==
    /\ Move
    /\ caps' = [caps EXCEPT ![c] = [mode |-> "block", auto |-> TRUE, blocked |-> FALSE]]
    /\ UNCHANGED <<level, period, tagged, denied, ledger, pass, rolled>>

Upsert(c) ==
    /\ Move
    /\ \E mode \in Modes, auto \in BOOLEAN :
          caps' = [caps EXCEPT ![c] =
             [mode |-> mode, auto |-> auto,
              blocked |-> caps[c] # NoRow /\ caps[c].blocked]]
    /\ UNCHANGED <<level, period, tagged, denied, ledger, pass, rolled>>

DeleteCap(c) ==
    /\ Move
    /\ caps[c] # NoRow
    /\ caps' = [caps EXCEPT ![c] = NoRow]
    /\ UNCHANGED <<level, period, tagged, denied, ledger, pass, rolled>>

ManualUnblock(c) ==
    /\ Move
    /\ caps[c] # NoRow /\ caps[c].blocked
    /\ caps' = [caps EXCEPT ![c].blocked = FALSE]
    /\ UNCHANGED <<level, period, tagged, denied, ledger, pass, rolled>>

Tag(c) ==
    /\ Move
    /\ tagged' = IF c \in tagged THEN tagged \ {c} ELSE tagged \cup {c}
    /\ UNCHANGED <<caps, level, period, denied, ledger, pass, rolled>>

\* Spend is billed, or revised, or the budget is changed.
Spend(c) ==
    /\ Move
    /\ \E at \in Levels : level' = [level EXCEPT ![c][period] = at]
    /\ UNCHANGED <<caps, period, tagged, denied, ledger, pass, rolled>>

NextPeriod ==
    /\ Move
    /\ period < MaxPeriods
    /\ period' = period + 1
    /\ UNCHANGED <<caps, level, tagged, denied, ledger, pass, rolled>>

Pass == StartPass \/ (\E c \in Roles : HandleCap(c)) \/ CommitPass

Next == \/ Pass
        \/ FailPass
        \/ \E c \in Roles : \/ Upsert(c) \/ DeleteCap(c) \/ ManualUnblock(c)
                            \/ Tag(c)    \/ Spend(c)
        \/ NextPeriod

Spec == Init /\ [][Next]_vars
FairSpec == Spec /\ WF_vars(Pass)

-----------------------------------------------------------------------------
(* Properties *)

\* The owners of a role get each alert at most once a period, though the
\* check and the insert are a whole pass apart and the period may change or
\* a pass roll back between them.
AlertOnce == \A a \in DOMAIN ledger : ledger[a] <= 1

\* Between passes, a cap marked blocked has its deny on the role, unless some
\* pass has rolled back what IAM had already done.
BlockedIsDenied ==
    (~pass.busy /\ ~rolled)
        => \A c \in Roles : (caps[c] # NoRow /\ caps[c].blocked) => c \in denied

\* Once the world rests, an exhausted budget that is to block, on a role
\* tagged for it, is denied, whatever caps were deleted, unblocked or failed
\* to commit before, short of a blocked_at that a rollback made a lie.
ExhaustedIsDenied ==
    <>[](\A c \in Roles :
            (/\ caps[c] # NoRow /\ caps[c].mode = "alert_and_block"
             /\ level[c][period] = "over" /\ c \in tagged /\ ~rolled)
            => c \in denied)

\* service_accounts.py:162-165: clearing blocked_at makes the next tick
\* remove the inline deny, of a role with spend left in its budget.
UnblockRemoves ==
    \A c \in Roles :
        (/\ c \in denied /\ ~pass.busy /\ ~rolled
         /\ caps[c] # NoRow /\ ~caps[c].blocked /\ caps[c].mode # "disabled"
         /\ level[c][period] # "over")
        ~> (c \notin denied \/ level[c][period] = "over")
=============================================================================
