---------------------------- MODULE MCOperations ----------------------------
(***************************************************************************)
(* What operators do to an installation and what runs in it unattended,    *)
(* for TLC: Installer, Startup, InvocationLogs and JobRunner side by side. *)
(* `active' says which of the four a behaviour is about, so the states are *)
(* theirs and not their product.                                           *)
(***************************************************************************)
EXTENDS JobRunner, InvocationLogs, Startup, Installer

VARIABLE active

CurThenDeny == <<"cur", "deny">>

\* A plain shell, one that names account y, and one that also has answers.
Shells == {[acct |-> None, conf |-> None, vpc |-> None],
           [acct |-> "y", conf |-> None, vpc |-> None],
           [acct |-> "y", conf |-> "shell", vpc |-> None]}

\* Catalogues of two regions: both on, one or both off, one not listed, none.
TwoRegions ==
    {[g |-> "noText", h |-> "noText"], [g |-> "text", h |-> "disabled"],
     [g |-> "disabled", h |-> "disabled"], [g |-> NoEntry, h |-> "text"],
     [g |-> NoEntry, h |-> NoEntry]}

ASSUME OperationsAssumption ==
    InstallAssumption /\ UpgradeAssumption /\ LogsAssumption /\ JobAssumption

operationsVars == <<active, installVars, upgradeVars, logsVars, vars>>

\* The initial state of a part whose turn it is not is one of its own.
OperationsInit ==
    /\ active \in {"install", "upgrade", "logs", "jobs"}
    /\ InstallInit /\ UpgradeInit /\ LogsInit /\ Init
    /\ active # "install" => ~legacy.there
    /\ active # "upgrade" => db.rows = {} /\ db.token = "null" /\ db.status = "active"
    /\ active # "logs" => live = [g \in Regions |-> "none"]

OperationsNext ==
    \/ active = "install" /\ InstallNext /\ UNCHANGED <<active, upgradeVars, logsVars, vars>>
    \/ active = "upgrade" /\ UpgradeNext /\ UNCHANGED <<active, installVars, logsVars, vars>>
    \/ active = "logs" /\ LogsNext /\ UNCHANGED <<active, installVars, upgradeVars, vars>>
    \/ active = "jobs" /\ Next /\ UNCHANGED <<active, installVars, upgradeVars, logsVars>>

\* The fairness of each part, when it is its turn.
OperationsFairness ==
    /\ WF_installVars(active = "install" /\ InstallGoesOn)
    /\ WF_installVars(active = "install" /\ OthersEnd)
    /\ WF_installVars(active = "install" /\ ConsoleFix)
    /\ WF_upgradeVars(active = "upgrade" /\ UpgradeStep)
    /\ \A t \in Tasks : WF_upgradeVars(active = "upgrade" /\ StartTask(t))
    /\ WF_vars(active = "jobs" /\ Tick)
    /\ WF_vars(active = "jobs" /\ Start)
    /\ WF_vars(active = "jobs" /\ Exit)
    /\ WF_vars(active = "jobs" /\ NextName)
    /\ \A j \in Jobs :
          /\ WF_vars(active = "jobs" /\ Fire(j))
          /\ \A by \in By : WF_vars(active = "jobs" /\ Step(j, by))

OperationsSpec == OperationsInit /\ [][OperationsNext]_operationsVars /\ OperationsFairness
-----------------------------------------------------------------------------
(* Properties, beside those of the modules extended *)

\* The type invariants of the four parts.
TypesOK == InstallTypeOK /\ UpgradeTypeOK /\ LogsTypeOK /\ TypeOK

\* __main__.py:601-640, 768-820: done means complete, and a run that is
\* repeated is done in the end.
InstallHeals ==
    DoneIsComplete /\ (active = "install" => InstallsInTheEnd)

\* main.py:56-278: the upgrade keeps every block, and ends.
UpgradeHolds ==
    []BlocksSurvive /\ (active = "upgrade" => ComesUp)

\* invlogs_apply.py:10-16, settings.py:411-452: a customer's configuration is
\* the customer's, and the catalogue is what Bedrock does.
LoggingHolds == CustomersStay /\ []CatalogueHolds

\* worker/main.py:50-155, job_runner.py:46-60: jobs run again and again.
JobsGoOn == active = "jobs" => JobsKeepRunning
=============================================================================
