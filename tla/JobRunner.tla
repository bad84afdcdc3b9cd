----------------------------- MODULE JobRunner -----------------------------
(***************************************************************************)
(* How jobs are run: the worker's scheduler (worker/main.py), the wrapper  *)
(* that logs a JobRun row around every call (worker/job_runner.py), the    *)
(* global pause (db/jobs_pause.py) and the runs an admin starts from the   *)
(* API (api/routes/jobs.py).                                               *)
(*                                                                         *)
(* Time is a count-down per job.  An interval job counts from the start of *)
(* the worker, a cron job by the clock, whether a worker is there or not.  *)
(* A job has one scheduled instance at a time, in the worker, and may have *)
(* one of an admin's in the API.  Of a job's rows only the last of each    *)
(* kind is kept.                                                           *)
(***************************************************************************)
EXTENDS Naturals, Sequences

CONSTANTS
    Jobs,
    Cron,           \* those on a CronTrigger; the others have an IntervalTrigger
    Triggerable,    \* _JOBS_BY_NAME: those an admin can start
    Pipeline,       \* what POST /jobs/run without a name runs, in order
    Period,         \* ticks from one run of a job to the next
    MaxPause,       \* the longest pause, in ticks (24 hours)
    MaxTroubles     \* bound on faults, pauses and requests

JobAssumption ==
    /\ Cron \subseteq Jobs /\ Triggerable \subseteq Jobs
    /\ Pipeline \in Seq(Triggerable)
    /\ Period \in Nat \ {0} /\ MaxPause \in Nat /\ MaxTroubles \in Nat

By == {"scheduler", "admin"}        \* JobRun.triggered_by

VARIABLES
    worker,     \* the worker's process
    wait,       \* per job, ticks to its next run
    pause,      \* jobs_paused_until, as ticks from now; 0 is not paused
    at,         \* per job and trigger, where the wrapper is
    row,        \* per job and trigger, the status of its last JobRun row
    click,      \* the names POST /jobs/run still has to run, in order
    lost,       \* history: the last row lost its writer, or no row could be made
    troubles

vars == <<worker, wait, pause, at, row, click, lost, troubles>>
runs == <<at, row, lost>>

\* "checked" is past the pause check, "working" is in the job, and a result is
\* one the row does not show yet.
Results == {"succeeded", "skipped", "failed"}

TypeOK ==
    /\ worker \in {"up", "stopping", "down"}
    /\ wait \in [Jobs -> 0..Period]
    /\ pause \in 0..MaxPause
    /\ at \in [Jobs -> [By -> {"idle", "checked", "working"} \cup Results]]
    /\ row \in [Jobs -> [By -> {"none", "running"} \cup Results]]
    /\ click \in Seq(Triggerable)
    /\ lost \in [Jobs -> [By -> BOOLEAN]]
    /\ troubles \in 0..MaxTroubles

Trouble == troubles < MaxTroubles /\ troubles' = troubles + 1

Move(j, by, place) == at' = [at EXCEPT ![j][by] = place]
-----------------------------------------------------------------------------
(* The scheduler *)

\* Jobs due are started before time goes on; a cron time nobody was there for
\* is gone.
Tick ==
    /\ worker = "up" => \A j \in Jobs : wait[j] > 0
    /\ pause' = IF pause > 0 THEN pause - 1 ELSE 0
    /\ wait' = [j \in Jobs |->
          IF worker # "up" /\ j \notin Cron THEN wait[j]
          ELSE IF wait[j] = 0 THEN Period - 1 ELSE wait[j] - 1]
    /\ UNCHANGED <<worker, runs, click, troubles>>

\* Mutant of NextWait: a job found paused is not scheduled again.
OnceOnly(j) == IF pause > 0 THEN Period ELSE wait[j]

NextWait(j) == Period

\* max_instances=1: a run due while the last one goes on is dropped, and so is
\* one found in a pause, which leaves no row.
Fire(j) ==
    /\ worker = "up" /\ wait[j] = 0
    /\ wait' = [wait EXCEPT ![j] = NextWait(j)]
    /\ IF at[j]["scheduler"] = "idle" /\ pause = 0
       THEN Move(j, "scheduler", "checked") ELSE UNCHANGED at
    /\ UNCHANGED <<worker, pause, row, click, lost, troubles>>

\* A worker too busy to start the job within a second drops the run.
Misfire(j) ==
    /\ Trouble
    /\ worker = "up" /\ wait[j] = 0
    /\ wait' = [wait EXCEPT ![j] = Period]
    /\ UNCHANGED <<worker, pause, runs, click>>

\* The schedule is in memory: an interval begins when the worker does.
FirstWait(j) == IF j \in Cron THEN wait[j] ELSE Period

Start ==
    /\ worker = "down"
    /\ worker' = "up"
    /\ wait' = [j \in Jobs |-> FirstWait(j)]
    /\ UNCHANGED <<pause, runs, click, troubles>>

\* SIGTERM: no more runs are started, those under way are waited for.
Terminate ==
    /\ Trouble
    /\ worker = "up" /\ worker' = "stopping"
    /\ UNCHANGED <<wait, pause, runs, click>>

Exit ==
    /\ worker = "stopping" /\ \A j \in Jobs : at[j]["scheduler"] = "idle"
    /\ worker' = "down"
    /\ UNCHANGED <<wait, pause, runs, click, troubles>>

Dies(by) ==
    /\ at' = [j \in Jobs |-> [at[j] EXCEPT ![by] = "idle"]]
    /\ lost' = [j \in Jobs |-> [lost[j] EXCEPT ![by] = @ \/ at[j][by] # "idle"]]
    /\ UNCHANGED row

Kill ==
    /\ Trouble
    /\ worker # "down" /\ worker' = "down"
    /\ Dies("scheduler")
    /\ UNCHANGED <<wait, pause, click>>
-----------------------------------------------------------------------------
(* An admin's requests *)

Click ==
    /\ Trouble
    /\ click = <<>>
    /\ \E names \in {Pipeline} \cup {<<j>> : j \in Triggerable} : click' = names
    /\ UNCHANGED <<worker, wait, pause, runs>>

\* One name after another, and no look at the pause.
NextName ==
    /\ click # <<>> /\ \A j \in Jobs : at[j]["admin"] = "idle"
    /\ Move(Head(click), "admin", "checked")
    /\ click' = Tail(click)
    /\ UNCHANGED <<worker, wait, pause, row, lost, troubles>>

KillApi ==
    /\ Trouble
    /\ click' = <<>>
    /\ Dies("admin")
    /\ UNCHANGED <<worker, wait, pause>>

\* Mutant of Pause: pauses add up.
PauseLonger ==
    /\ Trouble
    /\ pause' \in {pause + n : n \in 1..MaxPause}
    /\ UNCHANGED <<worker, wait, runs, click>>

\* A pause replaces the one there is, the shorter one too.
Pause ==
    /\ Trouble
    /\ pause' \in 1..MaxPause
    /\ UNCHANGED <<worker, wait, runs, click>>

Resume ==
    /\ Trouble
    /\ pause' = 0
    /\ UNCHANGED <<worker, wait, runs, click>>
-----------------------------------------------------------------------------
(* The wrapper *)

Settled(j, by) == UNCHANGED <<worker, wait, pause, click, troubles>>

\* The row is committed before the job begins.
Begin(j, by) ==
    /\ at[j][by] = "checked"
    /\ Move(j, by, "working")
    /\ row' = [row EXCEPT ![j][by] = "running"]
    /\ lost' = [lost EXCEPT ![j][by] = FALSE]
    /\ Settled(j, by)

\* A job returns, says that it did nothing, or raises.
Work(j, by) ==
    /\ at[j][by] = "working"
    /\ \E result \in Results : Move(j, by, result)
    /\ Settled(j, by) /\ UNCHANGED <<row, lost>>

\* Mutant of OwnRow: the row is found by the job's name.
NamedRow(j, by) == {by2 \in By : row[j][by2] = "running"}

OwnRow(j, by) == {by}

Finish(j, by) ==
    /\ at[j][by] \in Results
    /\ row' = [row EXCEPT ![j] = [by2 \in By |->
                  IF by2 \in OwnRow(j, by) THEN at[j][by] ELSE @[by2]]]
    /\ Move(j, by, "idle")
    /\ Settled(j, by) /\ UNCHANGED lost

\* The database is out: no row no run; a result that cannot be written is a
\* failure, and a failure that cannot be written leaves the row as it is.
DbFault(j, by) ==
    /\ Trouble
    /\ at[j][by] \in {"checked"} \cup Results
    /\ Move(j, by, IF at[j][by] \in {"checked", "failed"} THEN "idle" ELSE "failed")
    /\ lost' = [lost EXCEPT ![j][by] = @ \/ at[j][by] \in {"checked", "failed"}]
    /\ UNCHANGED <<worker, wait, pause, click, row>>

Init ==
    /\ worker = "up" /\ pause = 0
    /\ wait = [j \in Jobs |-> Period]
    /\ at = [j \in Jobs |-> [by \in By |-> "idle"]]
    /\ row = [j \in Jobs |-> [by \in By |-> "none"]]
    /\ click = <<>>
    /\ lost = [j \in Jobs |-> [by \in By |-> FALSE]]
    /\ troubles = 0

Step(j, by) == Begin(j, by) \/ Work(j, by) \/ Finish(j, by)

Next ==
    \/ Tick \/ Start \/ Terminate \/ Exit \/ Kill
    \/ Click \/ NextName \/ KillApi \/ Pause \/ Resume
    \/ \E j \in Jobs : Fire(j) \/ Misfire(j)
    \/ \E j \in Jobs, by \in By : Step(j, by) \/ DbFault(j, by)

Spec == Init /\ [][Next]_vars

\* Time goes on, a due job is started, a job ends, and a worker that is down
\* is started again by its service.
Fairness ==
    /\ WF_vars(Tick) /\ WF_vars(Start) /\ WF_vars(Exit) /\ WF_vars(NextName)
    /\ \A j \in Jobs : WF_vars(Fire(j))
    /\ \A j \in Jobs, by \in By : WF_vars(Step(j, by))

FairSpec == Spec /\ Fairness
-----------------------------------------------------------------------------
(* Properties *)

\* job_runner.py:62-118: a row shows "running" while its run goes on, and only
\* a run whose process died, or whose last write failed, leaves it there; two
\* runs of one job never write each other's row.
RowsMatch ==
    \A j \in Jobs, by \in By :
        /\ at[j][by] \in {"working"} \cup Results => row[j][by] = "running"
        /\ row[j][by] = "running" /\ at[j][by] = "idle" => lost[j][by]

\* main.py:55-140, jobs_pause.py: whatever worker restarts, pauses and missed
\* runs there were, every scheduled job is run again and again.
JobsKeepRunning == \A j \in Jobs : []<>(at[j]["scheduler"] = "working")
=============================================================================
