---------------------------- MODULE DenyDecision ----------------------------
(***************************************************************************)
(* The pure decisions of the deny reconciler: who is denied, what the tick *)
(* writes back to a principal's row, and which spend alerts it sends.      *)
(*                                                                         *)
(* A row holds the columns of the `users` table the reconciler reads or    *)
(* writes.  force_blocked_at only mirrors status and is left out.  Money   *)
(* is a natural number; spend is the billed month to date and `unbilled`   *)
(* what the estimate adds to it (0 when nothing can be projected).         *)
(***************************************************************************)
EXTENDS Naturals

CONSTANTS
    NoCap,    \* cap_usd IS NULL: the org default applies
    NoRole,   \* principal_arn is absent or is not a role ARN
    Roles,    \* names of IAM roles
    Models    \* model tokens an admin may block (region prefix stripped)

ASSUME NoCapIsNoNumber == NoCap \notin Nat
ASSUME NoRoleIsNoRole  == NoRole \notin Roles

Status == {"active", "blocked", "force_blocked"}
Barred == {"blocked", "force_blocked"}

Row == [ status   : Status,
         governed : BOOLEAN,
         cap      : Nat \cup {NoCap},
         role     : Roles \cup {NoRole},
         idc      : BOOLEAN,                \* role_type = "idc"
         warned   : BOOLEAN,                \* last_warn_sent_at is set
         notified : Status \cup {"none"} ]  \* last_status_notified

\* The org settings one pass of the reconciler reads at its start.
Org == [ cap         : Nat,       \* default cap
         blockedOn   : BOOLEAN,   \* spend_alert_exceeded
         warnPct     : Nat,       \* spend_alert_warn_pct
         onEstimate  : BOOLEAN,   \* spend_estimate_enforcement = "enforce"
         blocked     : SUBSET Models ]  \* the model block-list

NewRow == [ status |-> "active", governed |-> FALSE, cap |-> NoCap,
            role |-> NoRole, idc |-> FALSE,
            warned |-> FALSE, notified |-> "none" ]

-----------------------------------------------------------------------------
(* Who is denied *)

CapOf(org, row) == IF row.cap = NoCap THEN org.cap ELSE row.cap

ShouldDeny(status, spend, cap) == status = "force_blocked" \/ spend >= cap

\* The estimate widens the figure for a governed principal that billed spend
\* alone leaves under its cap.
Effective(org, row, spend, unbilled) ==
    IF org.onEstimate /\ row.governed /\ spend < CapOf(org, row)
    THEN spend + unbilled
    ELSE spend

\* Mutant of Denied: whether the principal is governed is not asked.
DeniedAnybody(org, row, spend, unbilled) ==
    ShouldDeny(row.status, Effective(org, row, spend, unbilled), CapOf(org, row))

Denied(org, row, spend, unbilled) ==
    /\ row.governed
    /\ ShouldDeny(row.status, Effective(org, row, spend, unbilled),
                  CapOf(org, row))

\* What the API takes for the same decision: billed spend only.
DeniedOnBilled(org, row, spend) ==
    row.governed /\ ShouldDeny(row.status, spend, CapOf(org, row))

\* Mutants of GovernedRole: a principal without a role, or with one of
\* Identity Center's.
RoleOrNone(row) == IF row.governed /\ ~row.idc THEN {row.role} ELSE {}
RoleOfAnyType(row) == IF row.governed /\ row.role # NoRole THEN {row.role} ELSE {}

\* The role the policy must sit on for this row, if tg may attach it there.
GovernedRole(row) ==
    IF row.governed /\ ~row.idc /\ row.role # NoRole THEN {row.role} ELSE {}

-----------------------------------------------------------------------------
(* What one pass writes to the row *)

\* Mutants of StatusAfter: the label goes up with the estimate and down
\* without it; an ungoverned row keeps its label; a force-block is lifted
\* like a block.
StatusFlaps(org, row, spend, unbilled) ==
    LET denied == Denied(org, row, spend, unbilled)
        over   == spend >= CapOf(org, row)
    IN  CASE ~row.governed                           -> "active"
          [] denied /\ row.status = "active"         -> "blocked"
          [] row.governed /\ row.status = "blocked"
             /\ ~over                                -> "active"
          [] OTHER                                   -> row.status

StatusKept(org, row, spend, unbilled) ==
    LET over == spend >= CapOf(org, row)
    IN  CASE row.governed /\ row.status = "active" /\ over   -> "blocked"
          [] row.governed /\ row.status = "blocked"
             /\ ~Denied(org, row, spend, unbilled) /\ ~over  -> "active"
          [] OTHER                                           -> row.status

StatusForgets(org, row, spend, unbilled) ==
    LET over == spend >= CapOf(org, row)
    IN  CASE ~row.governed                          -> "active"
          [] row.governed /\ row.status = "active"
             /\ over                                -> "blocked"
          [] row.governed /\ row.status # "active"
             /\ ~over                               -> "active"
          [] OTHER                                  -> row.status

\* The label follows billed spend only; an ungoverned row heals to active.
StatusAfter(org, row, spend, unbilled) ==
    LET denied == Denied(org, row, spend, unbilled)
        over   == spend >= CapOf(org, row)
    IN  CASE ~row.governed                                  -> "active"
          [] denied /\ row.status = "active" /\ over        -> "blocked"
          [] ~denied /\ row.status = "blocked" /\ ~over
             /\ row.governed                                -> "active"
          [] OTHER                                          -> row.status

OverWarn(org, row, effective) ==
    100 * effective >= org.warnPct * CapOf(org, row)

\* The alert events of a pass that takes the row to status `new`.
Events(org, row, new, effective) ==
    LET becameBlocked   == row.status = "active" /\ new \in Barred
        becameUnblocked == row.status \in Barred /\ new = "active"
    IN  IF becameBlocked THEN {e \in {"blocked"} : org.blockedOn}
        ELSE IF becameUnblocked THEN {"unblocked"}
        ELSE {e \in {"warn"} : /\ new = "active"
                               /\ ~row.warned
                               /\ OverWarn(org, row, effective)}

\* Only a governed principal with a positive cap is alerted about.
Alerting(org, row) == row.governed /\ CapOf(org, row) > 0

\* Mutant of Mails: last_status_notified is not compared.
MailsRepeat(org, row, spend, unbilled) ==
    LET new == StatusAfter(org, row, spend, unbilled)
    IN  {e \in Events(org, row, new, Effective(org, row, spend, unbilled)) :
            Alerting(org, row)}

\* The mails that leave after de-duplication against last_status_notified.
Mails(org, row, spend, unbilled) ==
    LET new == StatusAfter(org, row, spend, unbilled)
        evs == Events(org, row, new, Effective(org, row, spend, unbilled))
    IN  {e \in evs :
            /\ Alerting(org, row)
            /\ e = "blocked"   => row.notified # new
            /\ e = "unblocked" => row.notified # "active"}

\* Mutant of WarnedAfter: a block clears the latch as well.
WarnedUnlessBlocked(org, row, spend, unbilled) ==
    LET new == StatusAfter(org, row, spend, unbilled)
        eff == Effective(org, row, spend, unbilled)
    IN  /\ new = "active"
        /\ \/ "warn" \in Events(org, row, new, eff)
           \/ row.warned /\ OverWarn(org, row, eff)

\* The latch: set by a warn, cleared under the threshold.
WarnedAfter(org, row, spend, unbilled) ==
    LET new == StatusAfter(org, row, spend, unbilled)
        eff == Effective(org, row, spend, unbilled)
    IN  IF ~Alerting(org, row) THEN row.warned
        ELSE \/ "warn" \in Events(org, row, new, eff)
             \/ row.warned /\ OverWarn(org, row, eff)

\* Mutant of NotifiedAfter: remembers the event instead of the status.
NotifiedEvent(org, row, spend, unbilled) ==
    LET mails == Mails(org, row, spend, unbilled)
    IN  CASE "blocked"   \in mails -> "blocked"
          [] "unblocked" \in mails -> "unblocked"
          [] OTHER                 -> row.notified

\* The last status mailed.
NotifiedAfter(org, row, spend, unbilled) ==
    LET mails == Mails(org, row, spend, unbilled)
    IN  CASE "blocked"   \in mails -> StatusAfter(org, row, spend, unbilled)
          [] "unblocked" \in mails -> "active"
          [] OTHER                 -> row.notified

\* The whole row after the pass.
After(org, row, spend, unbilled) ==
    [row EXCEPT !.status   = StatusAfter(org, row, spend, unbilled),
                !.warned   = WarnedAfter(org, row, spend, unbilled),
                !.notified = NotifiedAfter(org, row, spend, unbilled)]
=============================================================================
