----------------------------- MODULE Installer -----------------------------
(***************************************************************************)
(* `tg install` and `tg destroy` (scripts/python/tg_cli): the questions,   *)
(* the answers they leave on disk for the next run, and the deployment the *)
(* shell installers carry out with them.                                   *)
(*                                                                         *)
(* A site is an AWS account.  An answer is named for the account it was    *)
(* given for, "shell" when the environment supplies it.  One operator's    *)
(* machine; stacks are changed by others too.                              *)
(***************************************************************************)
EXTENDS Naturals

CONSTANTS
    Accounts, None,     \* None is no account, and an answer not given
    OldConfigs,         \* the accounts a config.json older than the keyed
                        \* files may be of; None if there may be none
    Exports,            \* the answers a shell may have in its environment
    MaxInstall          \* bound on interruptions, failures and outside changes

InstallAssumption ==
    /\ None \notin Accounts
    /\ OldConfigs \subseteq Accounts \cup {None}
    /\ Exports \subseteq [acct : Accounts \cup {None}, conf : {"shell", None},
                          vpc : {None, "new", "own"}]
    /\ MaxInstall \in Nat

VARIABLES
    legacy,     \* config.json
    keyed,      \* config-<account>.json
    stack,      \* tg-container-stack of each account
    cur,        \* tg-cur-athena of each account
    run,        \* the run of `tg install`
    operatorTroubles

installVars == <<legacy, keyed, stack, cur, run, operatorTroubles>>

Confs == Accounts \cup {"shell", None}
Vpcs == {None, "new", "own"}        \* "own": the customer's
Answers == [acct : Accounts \cup {None}, conf : Confs, vpc : Vpcs]
NoAnswers == [acct |-> None, conf |-> None, vpc |-> None]
NoFile == [there |-> FALSE, a |-> NoAnswers]
File(a) == [there |-> TRUE, a |-> a]

NoStack == [status |-> "none", conf |-> None, vpc |-> None]
Healthy == {"complete"}

Updatable == Healthy \cup {"rolled_back"}

NoRun == [step |-> "idle", asks |-> FALSE, caller |-> None, vpc |-> None,
          supplied |-> NoAnswers, a |-> NoAnswers, upgrade |-> FALSE, rc |-> "none"]

InstallTypeOK ==
    /\ legacy \in [there : BOOLEAN, a : Answers]
    /\ keyed \in [Accounts -> [there : BOOLEAN, a : Answers]]
    /\ stack \in [Accounts -> [status : {"none", "busy", "stuck"} \cup Updatable,
                               conf : Confs, vpc : Vpcs]]
    /\ cur \in [Accounts -> {"none", "broken", "complete"}]
    /\ run.step \in {"idle", "detect", "ask", "deploy", "result", "cur", "done"}
    /\ run.a \in Answers /\ run.supplied \in Answers
    /\ operatorTroubles \in 0..MaxInstall

OperatorTrouble == operatorTroubles < MaxInstall /\ operatorTroubles' = operatorTroubles + 1

\* The second record where the first has no answer.
Under(a, b) == [k \in {"acct", "conf", "vpc"} |-> IF a[k] # None THEN a[k] ELSE b[k]]
-----------------------------------------------------------------------------
(* The answers kept on disk *)

\* Mutant of KeyedAs: one file for all accounts.
SharedFile(acct, a) == [x \in Accounts |-> File(a)]

KeyedAs(acct, a) == [keyed EXCEPT ![acct] = File(a)]

SaveAnswers(a) ==
    IF a.acct = None THEN legacy' = File(a) /\ UNCHANGED keyed
    ELSE keyed' = KeyedAs(a.acct, a) /\ UNCHANGED legacy

\* A neutral file is taken over by an account it is not another one's.
Adoptable(acct) ==
    ~keyed[acct].there /\ legacy.there /\ legacy.a.acct \in {None, acct}

Migrated(acct) == IF Adoptable(acct) THEN legacy.a ELSE keyed[acct].a

\* Answers that came from another account's neutral file are dropped.
Dropped(acct, a) ==
    IF legacy.there /\ legacy.a.acct \notin {None, acct}
    THEN [k \in DOMAIN a |-> IF k # "acct" /\ a[k] = legacy.a[k] THEN None ELSE a[k]]
    ELSE a
-----------------------------------------------------------------------------
(* tg install *)

\* The environment over the neutral file; credentials have been verified.
Seed(env, reset) == Under(env, IF reset THEN NoAnswers ELSE legacy.a)

\* The account, asked for when nothing supplies it.  One that is not the
\* caller's must be confirmed: what was supplied confirms itself.
Chosen(seed, caller, asks) ==
    IF seed.acct # None THEN {seed.acct}
    ELSE IF asks THEN Accounts ELSE {caller}

BeginInstall ==
    /\ run.step \in {"idle", "done"}
    /\ \E asks, reset \in BOOLEAN, caller \in Accounts, env \in Exports :
       LET seed == Seed(env, reset) IN
       \E acct \in Chosen(seed, caller, asks) :
          LET known == [seed EXCEPT !.acct = acct]
              \* A prompt refused saves what there is and ends the run.
              refused == ~asks /\ acct # caller
              a == IF reset THEN known ELSE Under(Dropped(acct, known), Migrated(acct)) IN
          /\ run' = IF refused THEN NoRun ELSE
                    [NoRun EXCEPT !.step = "detect", !.asks = asks, !.caller = caller,
                        !.vpc = env.vpc, !.supplied = seed, !.a = a]
          /\ IF refused THEN keyed' = KeyedAs(acct, known)
             ELSE IF reset THEN keyed' = [keyed EXCEPT ![acct] = NoFile]
             ELSE IF Adoptable(acct) THEN keyed' = KeyedAs(acct, legacy.a)
             ELSE UNCHANGED keyed
    /\ UNCHANGED <<legacy, stack, cur, operatorTroubles>>

\* The answers with the parameters of a deployed stack, which yield to what
\* was supplied; the kind of VPC is the stack's.
Deployed(s) ==
    [run.a EXCEPT !.conf = IF run.supplied.conf = None /\ s.conf # None THEN s.conf ELSE @,
                  !.vpc = s.vpc]

\* The deployed stack of the caller's own account: refused while it cannot be
\* updated, otherwise upgraded.
Detect ==
    /\ run.step = "detect"
    /\ LET s == stack[run.a.acct] IN
       run' = IF run.caller # run.a.acct \/ s.status = "none" THEN [run EXCEPT !.step = "ask"]
              ELSE IF s.status \notin Updatable THEN NoRun
              ELSE [run EXCEPT !.step = "ask", !.upgrade = TRUE, !.a = Deployed(s)]
    /\ UNCHANGED <<legacy, keyed, stack, cur, operatorTroubles>>

\* The stack cannot be described: the run goes on as if there was none.
DetectFails ==
    /\ OperatorTrouble /\ run.step = "detect"
    /\ run' = [run EXCEPT !.step = "ask"]
    /\ UNCHANGED <<legacy, keyed, stack, cur>>

\* What is supplied is never asked; without a terminal the default is taken;
\* otherwise the operator takes the default or types one for the account.
Resolved(supplied, default, typed) ==
    IF supplied # None THEN {supplied}
    ELSE (IF default # None THEN {default} ELSE {}) \cup (IF run.asks THEN typed ELSE {})

VpcAnswers ==
    IF run.upgrade THEN {run.a.vpc}
    ELSE IF "own" \in {run.a.vpc, run.supplied.vpc} THEN {"own"}
    ELSE IF run.asks THEN {"new", "own"} ELSE {"new"}

AskAll ==
    /\ run.step = "ask"
    /\ \E conf \in Resolved(run.supplied.conf, run.a.conf, {run.a.acct}), vpc \in VpcAnswers :
          LET a == [run.a EXCEPT !.conf = conf, !.vpc = vpc] IN
          /\ run' = [run EXCEPT !.step = "deploy", !.a = a, !.supplied = NoAnswers]
          /\ SaveAnswers(a)
    /\ UNCHANGED <<stack, cur, operatorTroubles>>

\* Ctrl-C at a question, or a required value nothing supplies.
AskAborted ==
    /\ run.step = "ask"
    /\ \/ run.asks /\ OperatorTrouble
       \/ Resolved(run.supplied.conf, run.a.conf, {run.a.acct}) = {} /\ UNCHANGED operatorTroubles
    /\ SaveAnswers(run.a) /\ run' = NoRun
    /\ UNCHANGED <<stack, cur>>

\* What the installer reads: the answers over the shell's own environment,
\* which an empty answer does not unset.
Sent == [conf |-> run.a.conf, vpc |-> IF run.a.vpc = "own" \/ run.vpc = "own" THEN "own" ELSE "new"]

\* tg-ecs-install.sh: a preflight refuses another account's credentials or a
\* stack in motion, the operator may decline, and CloudFormation takes back
\* what it cannot do, the change of the kind of VPC always.
Deploy ==
    /\ run.step = "deploy"
    /\ LET acct == run.a.acct
           s == stack[acct]
           Ends(rc) == run' = [run EXCEPT !.step = "result", !.rc = rc]
           fits == s.status = "none" \/ s.vpc = Sent.vpc
           open == run.caller = acct /\ s.status \in Updatable \cup {"none"}
       IN
       \/ ~open /\ Ends("abort") /\ UNCHANGED <<stack, operatorTroubles>>
       \/ /\ open /\ fits
          /\ stack' = [stack EXCEPT ![acct] = [status |-> "complete", conf |-> Sent.conf, vpc |-> Sent.vpc]]
          /\ \/ Ends("ok") /\ UNCHANGED operatorTroubles
             \/ Ends("error") /\ OperatorTrouble        \* the summary after it fails
       \/ /\ open
          /\ IF fits THEN OperatorTrouble ELSE UNCHANGED operatorTroubles
          /\ \/ Ends("abort")                   \* rolled back
                /\ stack' = [stack EXCEPT ![acct].status = IF s.status = "none" THEN "stuck" ELSE "rolled_back"]
             \/ Ends("abort") /\ UNCHANGED stack    \* declined
             \/ Ends("error") /\ UNCHANGED stack    \* a command before it fails
    /\ UNCHANGED <<legacy, keyed, cur>>

\* Mutant of GoesOn: a failure of the core is not looked at.
Always == TRUE

\* Anything but an abort is ignored when the stack is healthy.
GoesOn == run.rc = "ok" \/ (run.rc # "abort" /\ stack[run.a.acct].status \in Healthy)

Judge ==
    /\ run.step = "result"
    /\ run' = IF GoesOn THEN [run EXCEPT !.step = "cur"] ELSE NoRun
    /\ UNCHANGED <<legacy, keyed, stack, cur, operatorTroubles>>

\* The CUR stacks a run can deploy: it deletes a broken one first.
Deployable == {"none", "broken", "complete"}

\* The cost reports are part of the install: their failure is its failure.
DeployCur ==
    /\ run.step = "cur"
    /\ \/ cur[run.a.acct] \in Deployable
          /\ cur' = [cur EXCEPT ![run.a.acct] = "complete"]
          /\ run' = [NoRun EXCEPT !.step = "done", !.a.acct = run.a.acct] /\ UNCHANGED operatorTroubles
       \/ cur' = [cur EXCEPT ![run.a.acct] = IF @ = "complete" THEN @ ELSE "broken"]
          /\ run' = NoRun
          /\ IF cur[run.a.acct] \in Deployable THEN OperatorTrouble ELSE UNCHANGED operatorTroubles
    /\ UNCHANGED <<legacy, keyed, stack>>

\* The process is killed: nothing is saved beyond what was.
Killed ==
    /\ OperatorTrouble /\ run.step \notin {"idle", "done"}
    /\ run' = NoRun
    /\ UNCHANGED <<legacy, keyed, stack, cur>>
-----------------------------------------------------------------------------
(* tg destroy, and other hands *)

Destroy ==
    /\ OperatorTrouble /\ run.step \in {"idle", "done"}
    /\ \E acct \in Accounts, full \in BOOLEAN :
          /\ stack' = [stack EXCEPT ![acct] = NoStack]
          /\ cur' = IF full THEN [cur EXCEPT ![acct] = "none"] ELSE cur
    /\ UNCHANGED <<legacy, keyed, run>>

\* Another operator's update starts, and ends.
OthersBegin ==
    /\ OperatorTrouble
    /\ \E acct \in Accounts :
          /\ stack[acct].status \in Updatable
          /\ stack' = [stack EXCEPT ![acct].status = "busy"]
    /\ UNCHANGED <<legacy, keyed, cur, run>>

OthersEnd ==
    /\ \E acct \in Accounts :
          /\ stack[acct].status = "busy"
          /\ stack' = [stack EXCEPT ![acct].status = "complete"]
    /\ UNCHANGED <<legacy, keyed, cur, run, operatorTroubles>>

\* A stack whose creation failed is deleted in the console.
ConsoleFix ==
    /\ \E acct \in Accounts :
          /\ stack[acct].status = "stuck"
          /\ stack' = [stack EXCEPT ![acct] = NoStack]
    /\ UNCHANGED <<legacy, keyed, cur, run, operatorTroubles>>

\* What a version before the keyed files left on the machine.
LeftBy(old) == IF old = None THEN NoFile
               ELSE File([acct |-> old, conf |-> old, vpc |-> "new"])

InstallInit ==
    /\ legacy \in {LeftBy(old) : old \in OldConfigs}
    /\ keyed = [a \in Accounts |-> NoFile]
    /\ stack = [a \in Accounts |-> NoStack] /\ cur = [a \in Accounts |-> "none"]
    /\ run = NoRun /\ operatorTroubles = 0

InstallGoesOn == Detect \/ AskAll \/ AskAborted \/ Deploy \/ Judge \/ DeployCur

InstallNext == BeginInstall \/ InstallGoesOn \/ DetectFails \/ Killed \/ Destroy \/ OthersBegin \/ OthersEnd \/ ConsoleFix

InstallSpec == InstallInit /\ [][InstallNext]_installVars

\* A run goes on, and stacks do not stay as they are for ever.
InstallFairness == WF_installVars(InstallGoesOn) /\ WF_installVars(OthersEnd) /\ WF_installVars(ConsoleFix)
InstallFairSpec == InstallSpec /\ InstallFairness
-----------------------------------------------------------------------------
(* Properties *)

\* config.py:48-140, __main__.py:139-180: "so a multi-install box can't
\* cross-contaminate": what is deployed to an account was answered for it, or
\* is in the environment of the run, however many runs for other accounts,
\* interrupted or not, the machine has seen.  A config.json of before the
\* keyed files is the exception: its answers count as supplied.
OwnAnswers ==
    \A a \in Accounts : stack[a].conf \in {a, "shell", None, legacy.a.conf}

\* __main__.py:601-640, 768-820: a run that says it is done leaves a healthy
\* stack with the cost reports beside it, also after failures it has ignored.
DoneIsComplete ==
    [][ run.step # "done" /\ run'.step = "done" =>
            cur'[run.a.acct] = "complete" /\ stack'[run.a.acct].status \in Updatable \cup {"busy"} ]_installVars

\* __main__.py:789: "it resumes idempotently (and self-heals a broken CUR
\* stack)": an operator who installs into one account again and again ends
\* with an install, whatever went wrong before.
InstallsInTheEnd ==
    []<><<BeginInstall /\ run'.step = "detect" /\ run'.caller = run'.a.acct /\ run'.asks>>_installVars
        => <>(\E a \in Accounts : cur[a] = "complete" /\ stack[a].status = "complete")

\* runner.py:8-9: "it prints the confirm screen + the exact TG_* env that WOULD
\* be exported": the installer gets the kind of VPC the operator confirmed.
ConfirmedIsSent ==
    run.step = "deploy" => Sent.vpc = run.a.vpc
=============================================================================
