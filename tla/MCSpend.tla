------------------------------- MODULE MCSpend -------------------------------
(***************************************************************************)
(* From spend to denies, for TLC: ServiceAccountMonitor, PolicyVersions,   *)
(* CurSpendSync and GovernanceDrift side by side.  They share no state;    *)
(* `active' says which of them a behaviour is about, so the states are     *)
(* those of the four, not their product.                                   *)
(***************************************************************************)
EXTENDS ServiceAccountMonitor, PolicyVersions, CurSpendSync, GovernanceDrift

VARIABLE active

\* Two roles and the key of an IAM user, who is ann's.
SessionOf(arn) == IF arn = "key" THEN "key user" ELSE "ann"

\* Two people of one role, and one of Identity Center.
KindOf == [p \in People |-> IF p = "ivy" THEN "idc" ELSE "iam"]
RolesOf == [p \in People |-> IF p = "ivy" THEN "sso" ELSE "dev"]

ASSUME SpendAssumption ==
    BudgetAssumption /\ VersionsAssumption /\ CurAssumption /\ DriftAssumption

spendVars == <<active, vars, versionsVars, curVars, driftVars>>

\* The initial state of a part whose turn it is not is one of its own.
SpendInit ==
    /\ active \in {"budget", "versions", "cur", "drift"}
    /\ Init /\ VersionsInit /\ CurInit /\ DriftInit
    /\ active # "budget" => tagged = {}
    /\ active # "versions" =>
          /\ want = (CHOOSE d \in Docs : TRUE)
          /\ last = 1 /\ versions = {[id |-> 1, doc |-> want]}

SpendNext ==
    \/ active = "budget" /\ Next /\ UNCHANGED <<active, versionsVars, curVars, driftVars>>
    \/ active = "versions" /\ VersionsNext /\ UNCHANGED <<active, vars, curVars, driftVars>>
    \/ active = "cur" /\ CurNext /\ UNCHANGED <<active, vars, versionsVars, driftVars>>
    \/ active = "drift" /\ DriftNext /\ UNCHANGED <<active, vars, versionsVars, curVars>>

\* The fairness of each part, when it is its turn.
SpendFairness ==
    /\ WF_vars(active = "budget" /\ Pass)
    /\ \A p \in Runs :
          /\ WF_versionsVars(active = "versions" /\ Start(p))
          /\ WF_versionsVars(active = "versions" /\ RunStep(p))
    /\ WF_curVars(active = "cur" /\ Query(Scheduled))
    /\ \A s \in Syncs : WF_curVars(active = "cur" /\ SyncGoesOn(s))
    /\ WF_driftVars(active = "drift" /\ BeginSweep(Daily))
    /\ \A s \in Sweeps : WF_driftVars(active = "drift" /\ SweepGoesOn(s))

SpendSpec == SpendInit /\ [][SpendNext]_spendVars /\ SpendFairness
-----------------------------------------------------------------------------
(* Properties, beside those of the modules extended *)

\* The type invariants of the four parts.
TypesOK == TypeOK /\ VersionsTypeOK /\ CurTypeOK /\ DriftTypeOK

\* cur_spend_sync.py:277-281, 447-478: the month is in the end what CUR says.
MonthConverges == active = "cur" => SpendConverges

\* governance_drift_check.py:18-27: the table is in the end the drift there is.
TableSettles == active = "drift" => DriftSettles

\* cur_spend_sync.py:277-281, governance_drift_check.py:18-27: what a run that
\* nothing has overtaken puts in the place of the rows it deletes is exact.
RunsAreExact == RunIsExact /\ SweepIsExact
=============================================================================
