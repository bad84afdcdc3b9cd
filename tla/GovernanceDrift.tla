--------------------------- MODULE GovernanceDrift ---------------------------
(***************************************************************************)
(* What tg says of its own enforcement: the verdict on one principal       *)
(* (governance.py), the sweep that records those that drifted              *)
(* (worker/jobs/governance_drift_check.py, db/drift_sweep.py), the banner  *)
(* (api/routes/governance.py), and the state of a governed Identity Center *)
(* user as its badge and the governance diagnostics give it                *)
(* (api/idc_enforcement.py, diagnostics/checks/governance.py).             *)
(*                                                                         *)
(* Enforcement models the code that moves what is read here; in this       *)
(* module it just moves.  A sweep reads the flags first, the policy of a   *)
(* role when it meets the first principal of that role, the deny document  *)
(* when it first needs it, and puts its findings in the place of the rows  *)
(* its DELETE sees.  The daily sweep and one an admin starts may overlap.  *)
(***************************************************************************)
EXTENDS Naturals, FiniteSets

CONSTANTS
    People,
    Kind,           \* users.role_type, or "none" without an attachable role
    RoleOf,         \* the role of users.principal_arn
    AllRoles,       \* the roles there are
    Consumer,       \* the tg-consumer role
    Sweeps,         \* sweeps at once
    Daily,          \* the scheduled one of them
    MaxDrift        \* bound on changes, faults and sweeps by hand

DriftAssumption ==
    /\ IsFiniteSet(People) /\ Kind \in [People -> {"iam", "idc", "none"}]
    /\ RoleOf \in [People -> AllRoles] /\ Consumer \in AllRoles
    /\ Daily \in Sweeps /\ MaxDrift \in Nat

VARIABLES
    governed,   \* users.governed
    attached,   \* roles the deny policy is attached to
    inPolicy,   \* identities its document has a statement for
    wired,      \* Identity Center users tg-consumer trusts
    rows,       \* governance_drift
    checked,    \* last_drift_sweep_at: which sweep came last
    sweep,      \* per sweep, its progress
    drifts

driftVars == <<governed, attached, inPolicy, wired, rows, checked, sweep, drifts>>
truth == <<governed, attached, inPolicy, wired>>

Directions == {"governed_no_deny", "deny_no_governed"}
Row == People \X Directions \X Sweeps
Verdicts == {"managed", "unmanaged", "drift", "idc", "unknown"}

\* "calm" is history: nothing changed and every read came through.
NoSweep == [step |-> "idle", todo |-> {}, governed |-> {}, known |-> {}, on |-> {},
            doc |-> {}, docRead |-> FALSE, found |-> {}, view |-> {}, calm |-> TRUE]

DriftTypeOK ==
    /\ governed \subseteq People /\ attached \subseteq AllRoles
    /\ inPolicy \subseteq People /\ wired \subseteq People
    /\ rows \subseteq Row
    /\ checked \in Sweeps \cup {"never"}
    /\ sweep \in [Sweeps -> [step : {"idle", "reading", "replacing"},
                             todo : SUBSET People, governed : SUBSET People,
                             known : SUBSET AllRoles, on : SUBSET AllRoles,
                             doc : SUBSET People, docRead : BOOLEAN,
                             found : SUBSET Row, view : SUBSET Row, calm : BOOLEAN]]
    /\ drifts \in 0..MaxDrift

Drift == drifts < MaxDrift /\ drifts' = drifts + 1
-----------------------------------------------------------------------------
(* verify *)

\* Mutant of Verdict: the policy on a shared role denies everybody there.
RoleWide(p, flag, on, doc) ==
    CASE Kind[p] = "idc"  -> "idc"
      [] Kind[p] = "none" -> "unmanaged"
      [] OTHER -> IF flag # (RoleOf[p] \in on) THEN "drift"
                  ELSE IF flag THEN "managed" ELSE "unmanaged"

\* tg attaches nothing to an Identity Center role; without a role there is
\* nothing to be attached to; the policy on a shared role denies those its
\* document names.
Verdict(p, flag, on, doc) ==
    CASE Kind[p] = "idc"  -> "idc"
      [] Kind[p] = "none" -> "unmanaged"
      [] OTHER ->
            IF flag THEN IF RoleOf[p] \in on THEN "managed" ELSE "drift"
            ELSE IF RoleOf[p] \in on /\ p \in doc THEN "drift" ELSE "unmanaged"

Direction(flag) == IF flag THEN "governed_no_deny" ELSE "deny_no_governed"
-----------------------------------------------------------------------------
(* The sweep *)

Goes(s, progress) == sweep' = [sweep EXCEPT ![s] = progress]

\* The scheduler's daily sweep, and an admin's run now.
BeginSweep(s) ==
    /\ sweep[s].step = "idle"
    /\ IF s = Daily THEN UNCHANGED drifts ELSE Drift
    /\ Goes(s, [NoSweep EXCEPT !.step = "reading", !.todo = People, !.governed = governed])
    /\ UNCHANGED <<truth, rows, checked>>

Asks(s, p, on) == p \notin sweep[s].governed /\ RoleOf[p] \in on

\* One principal: the role's policies and the document are read once a sweep.
VerifyNext(s) ==
    LET w == sweep[s] IN
    /\ w.step = "reading"
    /\ \E p \in w.todo :
          LET looks == Kind[p] = "iam"
              on == IF looks /\ RoleOf[p] \notin w.known
                    THEN w.on \cup ({RoleOf[p]} \cap attached) ELSE w.on
              asks == looks /\ Asks(s, p, on)
              doc == IF asks /\ ~w.docRead THEN inPolicy ELSE w.doc
              flag == p \in w.governed
              drifted == Verdict(p, flag, on, doc) = "drift"
          IN  Goes(s, [w EXCEPT
                 !.todo = @ \ {p},
                 !.known = IF looks THEN @ \cup {RoleOf[p]} ELSE @,
                 !.on = on, !.doc = doc, !.docRead = @ \/ asks,
                 !.found = IF drifted THEN @ \cup {<<p, Direction(flag), s>>} ELSE @])
    /\ UNCHANGED <<truth, rows, checked, drifts>>

\* IAM does not answer: "unknown", no row, and nothing is cached.
Unreadable(s) ==
    /\ Drift
    /\ sweep[s].step = "reading"
    /\ \E p \in sweep[s].todo :
          /\ Kind[p] = "iam"
          /\ Goes(s, [sweep[s] EXCEPT !.todo = @ \ {p}, !.calm = FALSE])
    /\ UNCHANGED <<truth, rows, checked>>

\* The DELETE of the clean slate, and what it can see.
ReplaceRows(s) ==
    /\ sweep[s].step = "reading" /\ sweep[s].todo = {}
    /\ Goes(s, [sweep[s] EXCEPT !.step = "replacing", !.view = rows])
    /\ UNCHANGED <<truth, rows, checked, drifts>>

\* Mutant of CleanSlate: the findings are added to what is there.
NoSlate(s) == {}

CleanSlate(s) == sweep[s].view

CommitSweep(s) ==
    /\ sweep[s].step = "replacing"
    /\ rows' = (rows \ CleanSlate(s)) \cup sweep[s].found
    /\ checked' = s
    /\ sweep' = [q \in Sweeps |->
          IF q = s THEN NoSweep
          ELSE [sweep[q] EXCEPT !.view = @ \ sweep[s].view, !.calm = FALSE]]
    /\ UNCHANGED <<truth, drifts>>

\* The worker or the request dies, or two first time stamps collide.
FailSweep(s) ==
    /\ Drift
    /\ sweep[s].step # "idle" /\ Goes(s, NoSweep)
    /\ UNCHANGED <<truth, rows, checked>>

\* Manage, Unmanage, the reconciler, an admin with the console, the identity
\* administrator: what is read here changes.
World ==
    /\ Drift
    /\ \/ \E p \in People :
             governed' = (governed \ {p}) \cup ({p} \ governed)
             /\ UNCHANGED <<attached, inPolicy, wired>>
       \/ \E r \in AllRoles :
             attached' = (attached \ {r}) \cup ({r} \ attached)
             /\ UNCHANGED <<governed, inPolicy, wired>>
       \/ \E p \in People :
             inPolicy' = (inPolicy \ {p}) \cup ({p} \ inPolicy)
             /\ UNCHANGED <<governed, attached, wired>>
       \/ \E p \in People : Kind[p] = "idc"
             /\ wired' = (wired \ {p}) \cup ({p} \ wired)
             /\ UNCHANGED <<governed, attached, inPolicy>>
    /\ sweep' = [s \in Sweeps |-> [sweep[s] EXCEPT !.calm = sweep[s].step = "idle"]]
    /\ UNCHANGED <<rows, checked>>
-----------------------------------------------------------------------------
(* Identity Center: what the badge and the diagnostics say *)

\* classify: a policy on the user's own role, or the consumer role with the
\* policy and the trust.
Classify(own, consumer, trusted) ==
    IF own = "yes" THEN "enforced_here"
    ELSE IF consumer = "yes" /\ trusted THEN "enforced_via_consumer"
    ELSE IF "unread" \in {own, consumer} THEN "unknown" ELSE "pending"

Says(role, readable) ==
    IF ~readable THEN "unread" ELSE IF role \in attached THEN "yes" ELSE "no"

IsEnforced(state) == state \in {"enforced_here", "enforced_via_consumer"}

\* GET /users/{email}/idc-enforcement; a trust it cannot read is no trust.
Badge(p, readable) ==
    IF Kind[p] # "idc" \/ p \notin governed THEN "pending"
    ELSE Classify(Says(RoleOf[p], readable), Says(Consumer, readable),
                  readable /\ p \in wired)

\* governance.idc-reference takes the trust for granted.
Reference(p, readable) ==
    Classify(Says(RoleOf[p], readable), Says(Consumer, readable), TRUE)

GovernedIdc == {p \in governed : Kind[p] = "idc"}

CheckIdcReference(readable) ==
    IF \A p \in GovernedIdc : IsEnforced(Reference(p, readable)) THEN "pass" ELSE "warn"

\* governance.deny-attached: the consumer role as a governed principal, and
\* the rows of the latest sweep that left any.
CheckDenyAttached(readable) ==
    IF ~readable THEN "warn"
    ELSE IF Consumer \notin attached THEN "fail"
    ELSE IF rows # {} THEN "warn" ELSE "pass"

DriftInit ==
    /\ governed = {} /\ attached = {} /\ inPolicy = {} /\ wired = {}
    /\ rows = {} /\ checked = "never"
    /\ sweep = [s \in Sweeps |-> NoSweep]
    /\ drifts = 0

SweepGoesOn(s) == VerifyNext(s) \/ ReplaceRows(s) \/ CommitSweep(s)

DriftNext ==
    \/ World
    \/ \E s \in Sweeps : BeginSweep(s) \/ SweepGoesOn(s) \/ Unreadable(s) \/ FailSweep(s)

DriftSpec == DriftInit /\ [][DriftNext]_driftVars

\* The daily sweep is scheduled again and again, and a sweep goes on.
DriftFairness == WF_driftVars(BeginSweep(Daily)) /\ \A s \in Sweeps : WF_driftVars(SweepGoesOn(s))

DriftFairSpec == DriftSpec /\ DriftFairness
-----------------------------------------------------------------------------
(* Properties *)

\* Who the flag and IAM disagree about.
Drifted ==
    {<<p, "governed_no_deny">> : p \in
        {q \in governed : Kind[q] = "iam" /\ RoleOf[q] \notin attached}}
    \cup
    {<<p, "deny_no_governed">> : p \in
        {q \in inPolicy \ governed : Kind[q] = "iam" /\ RoleOf[q] \in attached}}

Reported == {<<row[1], row[2]>> : row \in rows}

\* governance_drift_check.py:18-27, governance.py:192-253: a sweep during
\* which nothing changed, that could read everything and that no other
\* overlapped leaves in the table those the flag and IAM disagree about and
\* nobody else, once each, through one cache for all the principals of a role.
SweepIsExact ==
    [][ \A s \in Sweeps :
          sweep[s].step = "replacing" /\ sweep[s].calm /\ sweep'[s].step = "idle" /\ drifts' = drifts
          => Reported' = Drifted /\ Cardinality(rows') = Cardinality(Drifted) ]_driftVars

\* governance_drift_check.py:18-27: when the world has come to rest, the table
\* is in the end the drift there is, once each, whatever sweeps overlapped or
\* died on the way.
DriftSettles ==
    <>[](Reported = Drifted /\ Cardinality(rows) = Cardinality(Drifted))

\* governance_drift_check.py:20-22: "So the table always holds exactly the
\* current sweep's drift".
TableIsLatestSweep == \A row \in rows : row[3] = checked

\* idc_enforcement.py:28-31, checks/governance.py:275-283: the diagnostics pass
\* only when each governed Identity Center user is enforced somewhere; "A
\* governed IDC user with neither is 'pending'".
PassMeansEnforced ==
    CheckIdcReference(TRUE) = "pass" =>
        \A p \in GovernedIdc : IsEnforced(Badge(p, TRUE))
=============================================================================
