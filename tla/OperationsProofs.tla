-------------------------- MODULE OperationsProofs --------------------------
(***************************************************************************)
(* What is proved of the operations: of JobRunner, InvocationLogs, Startup *)
(* and Installer, each for any values of its constants, and of the four    *)
(* side by side in MCOperations.                                           *)
(***************************************************************************)
EXTENDS MCOperations, TLAPS

-----------------------------------------------------------------------------
(* Jobs.  RowsMatch is inductive beside the types: every step moves one    *)
(* run and its own row, or ends the runs of a process that dies.           *)

Places   == {"idle", "checked", "working"} \cup Results
Statuses == {"none", "running"} \cup Results

\* What RowsMatch says of one run.
Matches(place, status, gone) ==
    /\ place \in {"working"} \cup Results => status = "running"
    /\ status = "running" /\ place = "idle" => gone

LEMMA RowsMatchEach ==
    RowsMatch <=> \A j \in Jobs, by \in By : Matches(at[j][by], row[j][by], lost[j][by])
BY DEF RowsMatch, Matches

\* The variables that the runs of the jobs do not touch.
Around == /\ worker \in {"up", "stopping", "down"}
          /\ wait \in [Jobs -> 0..Period]
          /\ pause \in 0..MaxPause
          /\ click \in Seq(Triggerable)
          /\ troubles \in 0..MaxTroubles

Runs == /\ at \in [Jobs -> [By -> Places]]
        /\ row \in [Jobs -> [By -> Statuses]]
        /\ lost \in [Jobs -> [By -> BOOLEAN]]

JobsInv == Around /\ Runs /\ RowsMatch

LEMMA JobsInitInv == ASSUME JobAssumption, Init PROVE JobsInv
<1>1. Around
  BY DEF Init, Around, JobAssumption
<1>2. Runs
  BY DEF Init, Runs, Places, Statuses
<1>3. RowsMatch
  BY DEF Init, RowsMatch, Results
<1>4. QED
  BY <1>1, <1>2, <1>3 DEF JobsInv

-----------------------------------------------------------------------------
(* Steps around the runs *)

LEMMA TroubleType ==
    ASSUME JobAssumption, Around, Trouble PROVE troubles' \in 0..MaxTroubles
BY DEF Around, Trouble, JobAssumption

\* Whatever leaves the runs alone keeps the rows.
LEMMA AroundInv == ASSUME JobsInv, UNCHANGED runs, Around' PROVE JobsInv'
<1>1. Runs' /\ RowsMatch'
  BY DEF JobsInv, runs, Runs, RowsMatch
<1>2. QED
  BY <1>1 DEF JobsInv

LEMMA ClockInv ==
    ASSUME JobAssumption, JobsInv,
           Tick \/ Start \/ Terminate \/ Exit \/ Pause \/ Resume
             \/ \E j \in Jobs : Misfire(j)
    PROVE  JobsInv'
<1>1. Around
  BY DEF JobsInv
<1>2. CASE Tick
  <2>1. wait' \in [Jobs -> 0..Period]
    BY <1>1, <1>2 DEF Tick, Around, JobAssumption
  <2>2. pause' \in 0..MaxPause
    BY <1>1, <1>2 DEF Tick, Around, JobAssumption
  <2>3. QED
    BY <1>1, <1>2, <2>1, <2>2, AroundInv DEF Tick, Around
<1>3. CASE Start
  <2>1. wait' \in [Jobs -> 0..Period]
    BY <1>1, <1>3 DEF Start, FirstWait, Around, JobAssumption
  <2>2. QED
    BY <1>1, <1>3, <2>1, AroundInv DEF Start, Around
<1>4. CASE Terminate
  BY <1>1, <1>4, TroubleType, AroundInv DEF Terminate, Around
<1>5. CASE Exit
  BY <1>1, <1>5, AroundInv DEF Exit, Around
<1>6. CASE Pause
  <2>1. pause' \in 0..MaxPause
    BY <1>6 DEF Pause, JobAssumption
  <2>2. QED
    BY <1>1, <1>6, <2>1, TroubleType, AroundInv DEF Pause, Around
<1>7. CASE Resume
  <2>1. pause' \in 0..MaxPause
    BY <1>7 DEF Resume, JobAssumption
  <2>2. QED
    BY <1>1, <1>7, <2>1, TroubleType, AroundInv DEF Resume, Around
<1>8. CASE \E j \in Jobs : Misfire(j)
  <2>1. wait' \in [Jobs -> 0..Period]
    BY <1>1, <1>8 DEF Misfire, Around, JobAssumption
  <2>2. QED
    BY <1>1, <1>8, <2>1, TroubleType, AroundInv DEF Misfire, Around
<1>9. QED
  BY <1>2, <1>3, <1>4, <1>5, <1>6, <1>7, <1>8

LEMMA ClickInv == ASSUME JobAssumption, JobsInv, Click PROVE JobsInv'
<1>1. Around
  BY DEF JobsInv
<1>2. click' \in Seq(Triggerable)
  <2>1. PICK names \in {Pipeline} \cup {<<j>> : j \in Triggerable} : click' = names
    BY DEF Click
  <2>2. \A j \in Triggerable : <<j>> \in Seq(Triggerable)
    OBVIOUS
  <2>3. QED
    BY <2>1, <2>2 DEF JobAssumption
<1>3. QED
  BY <1>1, <1>2, TroubleType, AroundInv DEF Click, Around

-----------------------------------------------------------------------------
(* Steps of the runs *)

\* A step that moves one run, with its row, and leaves the others alone.
LEMMA OneRunInv ==
    ASSUME JobsInv, Around', Runs', NEW j \in Jobs, NEW by \in By,
           \A i \in Jobs, b \in By : i # j \/ b # by =>
              at'[i][b] = at[i][b] /\ row'[i][b] = row[i][b] /\ lost'[i][b] = lost[i][b],
           Matches(at'[j][by], row'[j][by], lost'[j][by])
    PROVE  JobsInv'
<1>1. ASSUME NEW i \in Jobs, NEW b \in By
      PROVE  Matches(at'[i][b], row'[i][b], lost'[i][b])
  <2>1. CASE i # j \/ b # by
    <3>1. at'[i][b] = at[i][b] /\ row'[i][b] = row[i][b] /\ lost'[i][b] = lost[i][b]
      BY <2>1
    <3>2. QED
      BY <3>1, RowsMatchEach DEF JobsInv
  <2>2. QED
    BY <2>1
<1>2. RowsMatch'
  BY <1>1 DEF RowsMatch, Matches
<1>3. QED
  BY <1>2 DEF JobsInv

\* Such a step, of a run that only goes to another place.
LEMMA PlaceInv ==
    ASSUME JobsInv, Around', NEW j \in Jobs, NEW by \in By, NEW place \in Places,
           at' = [at EXCEPT ![j][by] = place], row' = row, lost' = lost,
           place \in Results => row[j][by] = "running",
           place # "idle", place # "working"
    PROVE  JobsInv'
<1>1. Runs'
  BY DEF JobsInv, Runs
<1>2. /\ at'[j][by] = place
      /\ \A i \in Jobs, b \in By : i # j \/ b # by => at'[i][b] = at[i][b]
  BY DEF JobsInv, Runs
<1>3. Matches(at'[j][by], row'[j][by], lost'[j][by])
  BY <1>2 DEF Matches
<1>4. QED
  BY <1>1, <1>2, <1>3, OneRunInv

\* A run is past the pause check before it has a row.
LEMMA FireInv == ASSUME JobAssumption, JobsInv, NEW j \in Jobs, Fire(j) PROVE JobsInv'
<1>1. Around /\ Runs
  BY DEF JobsInv
<1>2. Around'
  BY <1>1 DEF Fire, NextWait, Around, JobAssumption
<1>3. CASE UNCHANGED at
  BY <1>2, <1>3, AroundInv DEF Fire, runs
<1>4. CASE Move(j, "scheduler", "checked")
  <2>1. "scheduler" \in By /\ "checked" \in Places /\ "checked" \notin Results
    BY DEF By, Places, Results
  <2>2. QED
    BY <1>2, <1>4, <2>1, PlaceInv DEF Fire, Move
<1>5. QED
  BY <1>3, <1>4 DEF Fire

\* A name is run as a job is, and no look at the pause.
LEMMA NextNameInv == ASSUME JobAssumption, JobsInv, NextName PROVE JobsInv'
<1> DEFINE j == Head(click)
<1>1. Around /\ Runs
  BY DEF JobsInv
<1>2. j \in Jobs /\ Tail(click) \in Seq(Triggerable)
  BY <1>1 DEF NextName, Around, JobAssumption
<1>3. Around'
  BY <1>1, <1>2 DEF NextName, Around
<1>4. "admin" \in By /\ "checked" \in Places /\ "checked" \notin Results
  BY DEF By, Places, Results
<1>5. row' = row /\ lost' = lost /\ at' = [at EXCEPT ![j]["admin"] = "checked"]
  BY DEF NextName, Move
<1> HIDE DEF j
<1>6. QED
  BY <1>2, <1>3, <1>4, <1>5, PlaceInv

\* A process that dies takes its runs with it, and marks their rows lost.
LEMMA DiesInv ==
    ASSUME JobsInv, Around', NEW by \in By, Dies(by) PROVE JobsInv'
<1>1. Runs
  BY DEF JobsInv
<1>2. ASSUME NEW i \in Jobs
      PROVE  at'[i] = [at[i] EXCEPT ![by] = "idle"]
  BY DEF Dies
<1>3. Runs'
  <2>1. at' \in [Jobs -> [By -> Places]]
    BY <1>1 DEF Dies, Runs, Places
  <2>2. lost' \in [Jobs -> [By -> BOOLEAN]]
    BY <1>1 DEF Dies, Runs
  <2>3. QED
    BY <1>1, <2>1, <2>2 DEF Dies, Runs
<1>4. ASSUME NEW i \in Jobs, NEW b \in By
      PROVE  Matches(at'[i][b], row'[i][b], lost'[i][b])
  <2>1. Matches(at[i][b], row[i][b], lost[i][b]) /\ row' = row
    BY RowsMatchEach DEF JobsInv, Dies
  <2>2. CASE b = by
    <3>1. at'[i][b] = "idle"
      BY <1>1, <1>2, <2>2 DEF Runs
    <3>2. lost'[i][b] <=> (lost[i][b] \/ at[i][b] # "idle")
      <4>1. lost'[i] = [lost[i] EXCEPT ![by] = lost[i][by] \/ at[i][by] # "idle"]
        BY DEF Dies
      <4>2. lost[i] \in [By -> BOOLEAN]
        BY <1>1 DEF Runs
      <4>3. QED
        BY <2>2, <4>1, <4>2
    <3>3. QED
      BY <2>1, <3>1, <3>2 DEF Matches, Results
  <2>3. CASE b # by
    <3>1. at'[i][b] = at[i][b]
      BY ZenonT(30), <1>1, <1>2, <2>3 DEF Runs
    <3>2. lost'[i][b] <=> lost[i][b]
      BY <2>3 DEF Dies
    <3>3. QED
      BY <2>1, <3>1, <3>2 DEF Matches
  <2>4. QED
    BY <2>2, <2>3
<1>5. RowsMatch'
  BY <1>4 DEF RowsMatch, Matches
<1>6. QED
  BY <1>3, <1>5 DEF JobsInv

LEMMA KillInv == ASSUME JobAssumption, JobsInv, Kill \/ KillApi PROVE JobsInv'
<1>1. Around
  BY DEF JobsInv
<1>2. CASE Kill
  <2>1. Around' /\ "scheduler" \in By
    BY <1>1, <1>2, TroubleType DEF Kill, Around, By
  <2>2. QED
    BY <1>2, <2>1, DiesInv DEF Kill
<1>3. CASE KillApi
  <2>1. Around' /\ "admin" \in By
    BY <1>1, <1>3, TroubleType DEF KillApi, Around, By
  <2>2. QED
    BY <1>3, <2>1, DiesInv DEF KillApi
<1>4. QED
  BY <1>2, <1>3

\* The row is written as running, and then with its result.
LEMMA StepInv ==
    ASSUME JobAssumption, JobsInv, NEW j \in Jobs, NEW by \in By, Step(j, by)
    PROVE  JobsInv'
<1>1. Around /\ Runs
  BY DEF JobsInv
<1>2. Around'
  BY <1>1 DEF Step, Begin, Work, Finish, Settled, Around
<1>3. CASE Begin(j, by)
  <2>1. /\ at' = [at EXCEPT ![j][by] = "working"]
        /\ row' = [row EXCEPT ![j][by] = "running"]
        /\ lost' = [lost EXCEPT ![j][by] = FALSE]
    BY <1>3 DEF Begin, Move
  <2>2. Runs'
    BY <1>1, <2>1 DEF Runs, Places, Statuses
  <2>3. \A i \in Jobs, b \in By : i # j \/ b # by =>
           at'[i][b] = at[i][b] /\ row'[i][b] = row[i][b] /\ lost'[i][b] = lost[i][b]
    BY <1>1, <2>1 DEF Runs
  <2>4. at'[j][by] = "working" /\ row'[j][by] = "running"
    BY <1>1, <2>1 DEF Runs
  <2>5. Matches(at'[j][by], row'[j][by], lost'[j][by])
    BY <2>4 DEF Matches
  <2>6. QED
    BY <1>2, <2>2, <2>3, <2>5, OneRunInv
<1>4. CASE Work(j, by)
  <2>1. PICK result \in Results : at' = [at EXCEPT ![j][by] = result]
    BY <1>4 DEF Work, Move
  <2>2. row[j][by] = "running" /\ row' = row /\ lost' = lost
    BY <1>4 DEF Work, JobsInv, RowsMatch
  <2>3. result \in Places /\ result # "idle" /\ result # "working"
    BY <2>1 DEF Places, Results
  <2>4. QED
    BY <1>2, <2>1, <2>2, <2>3, PlaceInv
<1>5. CASE Finish(j, by)
  <2>1. /\ at[j][by] \in Results /\ at' = [at EXCEPT ![j][by] = "idle"] /\ lost' = lost
    BY <1>5 DEF Finish, Move
  <2>2. row' = [row EXCEPT ![j][by] = at[j][by]]
    BY <1>1, <1>5 DEF Finish, OwnRow, Runs
  <2>3. Runs'
    BY <1>1, <2>1, <2>2 DEF Runs, Places, Statuses
  <2>4. \A i \in Jobs, b \in By : i # j \/ b # by =>
           at'[i][b] = at[i][b] /\ row'[i][b] = row[i][b]
    BY <1>1, <2>1, <2>2 DEF Runs
  <2>5. at'[j][by] = "idle" /\ row'[j][by] = at[j][by]
    BY <1>1, <2>1, <2>2 DEF Runs
  <2>6. Matches(at'[j][by], row'[j][by], lost'[j][by])
    BY <2>1, <2>5 DEF Matches, Results
  <2>7. QED
    BY <1>2, <2>1, <2>3, <2>4, <2>6, OneRunInv
<1>6. QED
  BY <1>3, <1>4, <1>5 DEF Step

\* A row that cannot be written is lost; a result that cannot be is a failure.
LEMMA DbFaultInv ==
    ASSUME JobAssumption, JobsInv, NEW j \in Jobs, NEW by \in By, DbFault(j, by)
    PROVE  JobsInv'
<1>1. Around /\ Runs
  BY DEF JobsInv
<1>2. Around'
  BY <1>1, TroubleType DEF DbFault, Around
<1>3. lost' = [lost EXCEPT ![j][by] = lost[j][by] \/ at[j][by] \in {"checked", "failed"}]
  BY DEF DbFault
<1>4. /\ lost'[j][by] <=> lost[j][by] \/ at[j][by] \in {"checked", "failed"}
      /\ \A i \in Jobs, b \in By : i # j \/ b # by => lost'[i][b] = lost[i][b]
      /\ lost' \in [Jobs -> [By -> BOOLEAN]]
  BY <1>1, <1>3 DEF Runs
<1>5. PICK place \in {"idle", "failed"} :
        /\ at' = [at EXCEPT ![j][by] = place] /\ row' = row
        /\ place = "idle" => at[j][by] \in {"checked", "failed"}
        /\ place = "failed" => at[j][by] \in Results
  BY DEF DbFault, Move
<1>6. Runs'
  BY <1>1, <1>4, <1>5 DEF Runs, Places, Results
<1>7. /\ at'[j][by] = place
      /\ \A i \in Jobs, b \in By : i # j \/ b # by => at'[i][b] = at[i][b]
  BY <1>1, <1>5 DEF Runs
<1>8. place = "failed" => row[j][by] = "running"
  BY <1>5 DEF JobsInv, RowsMatch
<1>9. place = "idle" => lost'[j][by]
  BY <1>4, <1>5
<1>10. Matches(at'[j][by], row'[j][by], lost'[j][by])
  BY <1>5, <1>7, <1>8, <1>9 DEF Matches, Results
<1>11. QED
  BY <1>2, <1>4, <1>5, <1>6, <1>7, <1>10, OneRunInv

LEMMA JobsNextInv == ASSUME JobAssumption, JobsInv, [Next]_vars PROVE JobsInv'
<1>1. CASE UNCHANGED vars
  <2>1. Around' /\ UNCHANGED runs
    BY <1>1 DEF vars, runs, JobsInv, Around
  <2>2. QED
    BY <2>1, AroundInv
<1>2. QED
  BY <1>1, ClockInv, ClickInv, FireInv, NextNameInv, KillInv, StepInv, DbFaultInv DEF Next

LEMMA JobsInvariant == ASSUME JobAssumption PROVE Spec => []JobsInv
<1>1. Init => JobsInv
  BY JobsInitInv
<1>2. JobsInv /\ [Next]_vars => JobsInv'
  BY JobsNextInv
<1>3. QED
  BY <1>1, <1>2, PTL DEF Spec

-----------------------------------------------------------------------------
(* The theorems on jobs *)

\* Type correctness: a wait never exceeds a period, a pause never the longest.
THEOREM JobsTypeCorrect == ASSUME JobAssumption PROVE Spec => []TypeOK
<1>1. JobsInv => TypeOK
  BY DEF JobsInv, TypeOK, Around, Runs, Places, Statuses
<1>2. Spec => []JobsInv
  BY JobsInvariant
<1>3. QED
  BY <1>1, <1>2, PTL

\* job_runner.py:62-118: a row says running while its run goes on, and after it
\* only if its process died or the row could not be written, however a job's
\* scheduled run and an admin's overlap.
THEOREM RowsAlwaysMatch == ASSUME JobAssumption PROVE Spec => []RowsMatch
<1>1. JobsInv => RowsMatch
  BY DEF JobsInv
<1>2. Spec => []JobsInv
  BY JobsInvariant
<1>3. QED
  BY <1>1, <1>2, PTL


-----------------------------------------------------------------------------
(* Invocation logs.  What a region's entry asks of its configuration; the  *)
(* entry that counts is that of the request that holds the row, once it    *)
(* has been there, else the committed one.                                 *)

HoldsFor(e, l) ==
    /\ Enabled(e) => l # "none"
    /\ e = "disabled" => l \in {"none", "theirs"}

\* A request is at a region it has still to do, or at none, and holds the row
\* only while it applies.
InPlace(r) ==
    /\ r.left \subseteq Listed(r.want)
    /\ r.at \in r.left \cup {NoRegion}
    /\ r.locks => r.step = "applies"
    /\ r.step # "applies" => r.left = Listed(r.want) /\ r.at = NoRegion

OneHolds == \A p, q \in Puts : put[p].locks /\ put[q].locks => p = q

\* The holder of the row has been at g.
Beyond(p, g) == put[p].locks /\ g \in Listed(put[p].want) \ put[p].left

\* What is known of one region.
RegionHolds(g) ==
    IF \E p \in Puts : Beyond(p, g)
    THEN \A p \in Puts : Beyond(p, g) => HoldsFor(put[p].want[g], live[g])
    ELSE HoldsFor(catalogue[g], live[g])

LogsInv ==
    /\ LogsTypeOK
    /\ \A p \in Puts : InPlace(put[p])
    /\ OneHolds
    /\ \A g \in Regions : g \in missed \cup crossed \/ RegionHolds(g)

LEMMA NoPutType == NoPut \in PutRecords /\ InPlace(NoPut) /\ ~NoPut.locks
BY DEF NoPut, PutRecords, Catalogues, Live, InPlace, Listed

LEMMA LogsInitInv == ASSUME LogsAssumption, LogsInit PROVE LogsInv
<1>1. LogsTypeOK
  <2>1. live \in [Regions -> Live]
    BY DEF LogsInit, Live
  <2>2. catalogue \in Catalogues /\ stored \in BOOLEAN
    BY DEF LogsInit, Catalogues
  <2>3. acts \in 0..MaxLogs /\ crossed \subseteq Regions /\ missed \subseteq Regions
    BY DEF LogsInit, LogsAssumption
  <2>4. put \in [Puts -> PutRecords] /\ admin \in BOOLEAN
    BY NoPutType DEF LogsInit
  <2>5. QED
    BY <2>1, <2>2, <2>3, <2>4 DEF LogsTypeOK
<1>2. \A p \in Puts : put[p] = NoPut
  BY DEF LogsInit
<1>3. (\A p \in Puts : InPlace(put[p])) /\ OneHolds
  BY <1>2, NoPutType DEF OneHolds
<1>4. \A g \in Regions : RegionHolds(g)
  BY <1>2, NoPutType DEF LogsInit, RegionHolds, HoldsFor, Enabled, NoEntry, Beyond
<1>5. QED
  BY <1>1, <1>3, <1>4 DEF LogsInv

LEMMA ActType == ASSUME LogsAssumption, LogsTypeOK, Act PROVE acts' \in 0..MaxLogs
BY DEF LogsTypeOK, Act, LogsAssumption

\* A step of one request leaves the others, and the lock with one of them.
LEMMA OneMoves ==
    ASSUME LogsInv, NEW p \in Puts, NEW r \in PutRecords, InPlace(r),
           put' = [put EXCEPT ![p] = r], r.locks => put[p].locks \/ ~RowHeld
    PROVE  /\ put' \in [Puts -> PutRecords]
           /\ put'[p] = r /\ \A q \in Puts : q # p => put'[q] = put[q]
           /\ \A q \in Puts : InPlace(put'[q])
           /\ OneHolds'
<1>1. put \in [Puts -> PutRecords] /\ OneHolds /\ \A q \in Puts : InPlace(put[q])
  BY DEF LogsInv, LogsTypeOK
<1>2. put'[p] = r /\ \A q \in Puts : q # p => put'[q] = put[q]
  BY <1>1
<1>3. put' \in [Puts -> PutRecords]
  BY <1>1
<1>4. \A q \in Puts : InPlace(put'[q])
  BY <1>1, <1>2 DEF InPlace
<1>5. OneHolds'
  BY <1>1, <1>2 DEF OneHolds, RowHeld
<1>6. QED
  BY <1>2, <1>3, <1>4, <1>5

\* A step that neither is beyond a region nor leaves one keeps what is known,
\* as long as catalogue and configurations stay.
LEMMA SameRegions ==
    ASSUME LogsInv, UNCHANGED <<catalogue, live, missed, crossed>>,
           \A q \in Puts, g \in Regions : /\ Beyond(q, g)' <=> Beyond(q, g)
                                          /\ Beyond(q, g) => put'[q].want = put[q].want
    PROVE  \A g \in Regions : g \in missed' \cup crossed' \/ RegionHolds(g)'
<1> SUFFICES ASSUME NEW g \in Regions, RegionHolds(g) PROVE RegionHolds(g)'
  BY DEF LogsInv
<1>1. CASE \E p \in Puts : Beyond(p, g)
  <2>1. \A q \in Puts : Beyond(q, g) => HoldsFor(put[q].want[g], live[g])
    BY <1>1 DEF RegionHolds
  <2>2. \A q \in Puts : Beyond(q, g)' => HoldsFor(put'[q].want[g], live'[g])
    BY <2>1 DEF Beyond, HoldsFor
  <2>3. \E p \in Puts : Beyond(p, g)'
    BY <1>1 DEF Beyond
  <2>4. QED
    BY <2>2, <2>3 DEF RegionHolds, HoldsFor
<1>2. CASE ~\E p \in Puts : Beyond(p, g)
  BY <1>2 DEF RegionHolds, HoldsFor, Beyond
<1>3. QED
  BY <1>1, <1>2

LEMMA PutInv ==
    ASSUME LogsAssumption, LogsInv, NEW p \in Puts, NEW want \in Saves, Put(p, want)
    PROVE  LogsInv'
<1>1. LogsTypeOK /\ want \in Catalogues /\ ~put[p].locks
  BY DEF LogsInv, LogsAssumption, InPlace, Put
<1> DEFINE step == IF ~stored THEN "inserts" ELSE IF want = catalogue THEN "applies" ELSE "updates"
           r == [step |-> step, locks |-> FALSE, want |-> want, left |-> Listed(want),
                 at |-> NoRegion, saw |-> "none"]
<1>2. put' = [put EXCEPT ![p] = r]
  BY DEF Put
<1>3. step \in {"inserts", "updates", "applies"}
  OBVIOUS
<1> HIDE DEF step
<1>4. r \in PutRecords /\ InPlace(r) /\ ~r.locks
  BY <1>1, <1>3 DEF PutRecords, InPlace, Listed, Live
<1>5. put' = [put EXCEPT ![p] = r]
  BY <1>2
<1> HIDE DEF r
<1>6. /\ put' \in [Puts -> PutRecords] /\ OneHolds' /\ (\A q \in Puts : InPlace(put'[q]))
      /\ put'[p] = r /\ \A q \in Puts : q # p => put'[q] = put[q]
  BY <1>4, <1>5, OneMoves
<1>7. LogsTypeOK'
  BY <1>1, <1>6, ActType DEF Put, LogsTypeOK
<1>8. \A q \in Puts, g \in Regions : /\ Beyond(q, g)' <=> Beyond(q, g)
                                     /\ Beyond(q, g) => put'[q].want = put[q].want
  BY <1>1, <1>4, <1>6 DEF Beyond
<1>9. \A g \in Regions : g \in missed' \cup crossed' \/ RegionHolds(g)'
  BY <1>8, SameRegions DEF Put
<1>10. QED
  BY <1>6, <1>7, <1>9 DEF LogsInv

\* The lock is taken before any region has had its turn.
LEMMA ReplaceInv ==
    ASSUME LogsAssumption, LogsInv, NEW p \in Puts, Replace(p) PROVE LogsInv'
<1>1. LogsTypeOK /\ put[p] \in PutRecords /\ InPlace(put[p]) /\ ~put[p].locks /\ ~RowHeld
  BY DEF LogsInv, LogsTypeOK, Replace, RowHeld
<1>0. put[p].left = Listed(put[p].want)
  BY <1>1 DEF Replace, InPlace
<1> DEFINE r == [put[p] EXCEPT !.step = "applies", !.locks = TRUE]
<1>2. /\ r \in PutRecords /\ InPlace(r) /\ r.want = put[p].want /\ r.left = put[p].left
  BY <1>1 DEF PutRecords, InPlace
<1>3. put' = [put EXCEPT ![p] = r]
  BY <1>1 DEF Replace, LogsTypeOK
<1> HIDE DEF r
<1>4. /\ put' \in [Puts -> PutRecords] /\ OneHolds' /\ (\A q \in Puts : InPlace(put'[q]))
      /\ put'[p] = r /\ \A q \in Puts : q # p => put'[q] = put[q]
  BY <1>1, <1>2, <1>3, OneMoves
<1>5. LogsTypeOK'
  BY <1>1, <1>4 DEF Replace, LogsTypeOK
<1>6. \A q \in Puts, g \in Regions : /\ Beyond(q, g)' <=> Beyond(q, g)
                                     /\ Beyond(q, g) => put'[q].want = put[q].want
  BY <1>0, <1>1, <1>2, <1>4 DEF Beyond
<1>7. \A g \in Regions : g \in missed' \cup crossed' \/ RegionHolds(g)'
  BY <1>6, SameRegions DEF Replace
<1>8. QED
  BY <1>4, <1>5, <1>7 DEF LogsInv

\* A look at a region leaves what is known of the regions as it is.
LEMMA ReadInv ==
    ASSUME LogsAssumption, LogsInv, NEW p \in Puts, NEW g \in Regions,
           ReadRegion(p, g) \/ ReadFails(p, g)
    PROVE  LogsInv'
<1>1. LogsTypeOK /\ put[p] \in PutRecords /\ InPlace(put[p])
  BY DEF LogsInv, LogsTypeOK
<1>2. PICK saw \in Live : put' = [put EXCEPT ![p].at = g, ![p].saw = saw]
  BY <1>1 DEF ReadRegion, ReadFails, LogsTypeOK, Live
<1> DEFINE r == [put[p] EXCEPT !.at = g, !.saw = saw]
<1>3. /\ r \in PutRecords /\ InPlace(r) /\ r.want = put[p].want /\ r.left = put[p].left
      /\ r.locks = put[p].locks
  BY <1>1 DEF PutRecords, InPlace, ReadRegion, ReadFails, Between
<1>4. put' = [put EXCEPT ![p] = r]
  BY <1>1, <1>2 DEF LogsTypeOK
<1> HIDE DEF r
<1>5. /\ put' \in [Puts -> PutRecords] /\ OneHolds' /\ (\A q \in Puts : InPlace(put'[q]))
      /\ put'[p] = r /\ \A q \in Puts : q # p => put'[q] = put[q]
  BY <1>3, <1>4, OneMoves
<1>6. UNCHANGED <<catalogue, stored, live, admin, missed, crossed>> /\ acts' \in 0..MaxLogs
  BY <1>1, ActType DEF ReadRegion, ReadFails, LogsTypeOK
<1>7. LogsTypeOK'
  BY <1>1, <1>5, <1>6 DEF LogsTypeOK
<1>8. \A q \in Puts, h \in Regions : /\ Beyond(q, h)' <=> Beyond(q, h)
                                     /\ Beyond(q, h) => put'[q].want = put[q].want
  BY <1>3, <1>5 DEF Beyond
<1>9. \A h \in Regions : h \in missed' \cup crossed' \/ RegionHolds(h)'
  BY <1>6, <1>8, SameRegions
<1>10. QED
  BY <1>5, <1>7, <1>9 DEF LogsInv

\* The call leaves what the entry asks, if nobody came between it and the look,
\* and what any entry asks that is not opposed to it.
LEMMA OutcomeHolds ==
    ASSUME NEW e \in Entries, NEW saw \in Live, NEW f \in Entries \cup {NoEntry},
           ~Opposed(e, f)
    PROVE  HoldsFor(f, Outcome(e, saw, saw))
BY DEF Entries, NoEntry, Live, HoldsFor, Outcome, Enabled, MayEnable, MayDisable, Opposed

\* A request leaves the region it is at, whether its call fails or not.
LEMMA PastOne ==
    ASSUME LogsAssumption, LogsInv, NEW p \in Puts, NEW g \in Regions, put[p].at = g,
           put' = Past(p)
    PROVE  /\ put' \in [Puts -> PutRecords] /\ OneHolds' /\ \A q \in Puts : InPlace(put'[q])
           /\ g \in put[p].left /\ put[p].want[g] \in Entries /\ put[p].saw \in Live
           /\ \A q \in Puts, h \in Regions :
                 /\ put'[q].want = put[q].want /\ put'[q].locks = put[q].locks
                 /\ Beyond(q, h)' <=> Beyond(q, h) \/ (q = p /\ h = g /\ put[p].locks)
<1>1. LogsTypeOK /\ put[p] \in PutRecords /\ InPlace(put[p])
  BY DEF LogsInv, LogsTypeOK
<1>2. g \in put[p].left /\ g \in Listed(put[p].want) /\ put[p].want[g] \in Entries
      /\ put[p].step = "applies"
  BY <1>1 DEF InPlace, LogsAssumption, NoRegion, Listed, PutRecords, Catalogues
<1> DEFINE rest == put[p].left \ {g}
           r == [put[p] EXCEPT !.left = rest, !.at = NoRegion, !.saw = "none"]
<1>3. rest \subseteq Regions /\ \A h \in Regions : h \in rest <=> h \in put[p].left /\ h # g
  BY <1>1 DEF PutRecords
<1>4. /\ r \in PutRecords /\ r.want = put[p].want /\ r.left = rest /\ r.locks = put[p].locks
      /\ r.at = NoRegion /\ r.step = put[p].step
  BY <1>1, <1>3 DEF PutRecords, Live
<1>5. put' = [put EXCEPT ![p] = r]
  BY <1>1 DEF Past, LogsTypeOK
<1> HIDE DEF r
<1>6. InPlace(r)
  BY <1>1, <1>2, <1>3, <1>4 DEF InPlace
<1>7. /\ put' \in [Puts -> PutRecords] /\ OneHolds' /\ (\A q \in Puts : InPlace(put'[q]))
      /\ put'[p] = r /\ \A q \in Puts : q # p => put'[q] = put[q]
  BY <1>4, <1>5, <1>6, OneMoves
<1>8. ASSUME NEW q \in Puts, NEW h \in Regions
      PROVE  /\ put'[q].want = put[q].want /\ put'[q].locks = put[q].locks
             /\ Beyond(q, h)' <=> Beyond(q, h) \/ (q = p /\ h = g /\ put[p].locks)
  <2>1. CASE q # p
    BY <1>7, <2>1 DEF Beyond
  <2>2. CASE q = p
    BY <1>2, <1>3, <1>4, <1>7, <2>2 DEF Beyond
  <2>3. QED
    BY <2>1, <2>2
<1>9. put[p].saw \in Live
  BY <1>1 DEF PutRecords
<1>10. QED
  BY <1>2, <1>7, <1>8, <1>9

\* The entry that counts for g, in the model's words.
LEMMA CountsHas ==
    ASSUME NEW g \in Regions
    PROVE  /\ \A q \in Puts : Beyond(q, g) => put[q].want[g] \in Counts(g)
           /\ (\A q \in Puts : ~Beyond(q, g)) => catalogue[g] \in Counts(g)
<1> DEFINE past == {p \in Puts : put[p].locks /\ g \in Listed(put[p].want) \ put[p].left}
<1>1. \A q \in Puts : q \in past <=> Beyond(q, g)
  BY DEF Beyond
<1>2. Counts(g) = IF past = {} THEN {catalogue[g]} ELSE {put[p].want[g] : p \in past}
  BY DEF Counts
<1>3. past \subseteq Puts
  OBVIOUS
<1> HIDE DEF past
<1>4. ASSUME NEW q \in Puts, Beyond(q, g) PROVE put[q].want[g] \in Counts(g)
  BY <1>1, <1>2, <1>4
<1>5. ASSUME \A q \in Puts : ~Beyond(q, g) PROVE catalogue[g] \in Counts(g)
  BY <1>1, <1>2, <1>3, <1>5
<1>6. QED
  BY <1>4, <1>5

LEMMA ApplyInv ==
    ASSUME LogsAssumption, LogsInv, NEW p \in Puts, NEW g \in Regions,
           Apply(p, g) \/ ApplyFails(p, g)
    PROVE  LogsInv'
<1>1. LogsTypeOK /\ put[p].at = g /\ put' = Past(p)
  BY DEF LogsInv, Apply, ApplyFails
<1>2. /\ put' \in [Puts -> PutRecords] /\ OneHolds' /\ \A q \in Puts : InPlace(put'[q])
      /\ g \in put[p].left /\ put[p].want[g] \in Entries /\ put[p].saw \in Live
  BY <1>1, PastOne
<1>3. \A q \in Puts, h \in Regions :
         /\ put'[q].want = put[q].want /\ put'[q].locks = put[q].locks
         /\ Beyond(q, h)' <=> Beyond(q, h) \/ (q = p /\ h = g /\ put[p].locks)
  BY <1>1, PastOne
<1>4. /\ live' \in [Regions -> Live] /\ missed' \subseteq Regions /\ crossed' \subseteq Regions
      /\ acts' \in 0..MaxLogs /\ UNCHANGED <<catalogue, stored, admin>>
      /\ \A h \in Regions : h # g =>
            /\ live'[h] = live[h]
            /\ h \in missed \cup crossed <=> h \in missed' \cup crossed'
  <2>1. CASE Apply(p, g)
    <3>1. Outcome(put[p].want[g], put[p].saw, live[g]) \in Live
      BY <1>1, <1>2 DEF Outcome, LogsTypeOK, Entries, Live, Enabled
    <3>2. live' = [live EXCEPT ![g] = Outcome(put[p].want[g], put[p].saw, live[g])]
      BY <2>1 DEF Apply
    <3>3. live' \in [Regions -> Live] /\ \A h \in Regions : h # g => live'[h] = live[h]
      BY <1>1, <3>1, <3>2 DEF LogsTypeOK
    <3>4. /\ missed' \subseteq Regions /\ \A h \in Regions : h # g => (h \in missed <=> h \in missed')
      BY <1>1, <2>1 DEF Apply, LogsTypeOK
    <3>5. crossed' = crossed \cup {g} \/ crossed' = crossed \ {g}
      BY <2>1 DEF Apply
    <3>6. /\ crossed' \subseteq Regions
          /\ \A h \in Regions : h # g => (h \in crossed <=> h \in crossed')
      BY <1>1, <3>5 DEF LogsTypeOK
    <3>7. QED
      BY <1>1, <2>1, <3>3, <3>4, <3>6 DEF Apply, LogsTypeOK
  <2>2. CASE ApplyFails(p, g)
    BY <1>1, <2>2, ActType DEF ApplyFails, LogsTypeOK
  <2>3. QED
    BY <2>1, <2>2
<1>5. LogsTypeOK'
  BY <1>1, <1>2, <1>4 DEF LogsTypeOK
<1>6. ASSUME NEW h \in Regions, h # g PROVE h \in missed' \cup crossed' \/ RegionHolds(h)'
  <2>1. \A q \in Puts : Beyond(q, h)' <=> Beyond(q, h)
    BY <1>3, <1>6
  <2>2. h \in missed \cup crossed \/ RegionHolds(h)
    BY DEF LogsInv
  <2>3. live'[h] = live[h] /\ catalogue' = catalogue /\ \A q \in Puts : put'[q].want = put[q].want
    BY <1>3, <1>4, <1>6
  <2>4. RegionHolds(h) => RegionHolds(h)'
    BY <2>1, <2>3 DEF RegionHolds, HoldsFor
  <2>5. QED
    BY <1>4, <1>6, <2>2, <2>4
<1>7. ASSUME g \notin missed' \cup crossed' PROVE RegionHolds(g)'
  <2>1. /\ Apply(p, g) /\ put[p].saw = live[g]
        /\ put[p].locks \/ \A e \in Counts(g) : ~Opposed(put[p].want[g], e)
    BY <1>7 DEF Apply, ApplyFails
  <2>2. live'[g] = Outcome(put[p].want[g], put[p].saw, put[p].saw)
    BY <1>1, <2>1 DEF Apply, LogsTypeOK
  <2>3. CASE put[p].locks
    <3>1. \A q \in Puts : Beyond(q, g)' => q = p
      BY <1>2, <1>3, <2>3 DEF OneHolds, Beyond
    <3>2. Beyond(p, g)'
      BY <1>3, <2>3
    <3>3. HoldsFor(put[p].want[g], live'[g])
      BY <1>2, <2>2, OutcomeHolds DEF Opposed
    <3>4. QED
      BY <1>3, <3>1, <3>2, <3>3 DEF RegionHolds, HoldsFor
  <2>4. CASE ~put[p].locks
    <3>1. \A q \in Puts : Beyond(q, g)' <=> Beyond(q, g)
      BY <1>3, <2>4
    <3>2. \A f \in Counts(g) \cap (Entries \cup {NoEntry}) : HoldsFor(f, live'[g])
      BY <1>2, <2>1, <2>2, <2>4, OutcomeHolds
    <3>3. CASE \E q \in Puts : Beyond(q, g)
      <4>1. ASSUME NEW q \in Puts, Beyond(q, g) PROVE HoldsFor(put[q].want[g], live'[g])
        <5>1. put[q].want[g] \in Entries \cup {NoEntry}
          BY <1>1 DEF LogsTypeOK, PutRecords, Catalogues
        <5>2. QED
          BY <3>2, <4>1, <5>1, CountsHas
      <4>2. QED
        BY <1>3, <3>1, <3>3, <4>1 DEF RegionHolds, HoldsFor
    <3>4. CASE ~\E q \in Puts : Beyond(q, g)
      <4>1. catalogue[g] \in Counts(g) /\ catalogue[g] \in Entries \cup {NoEntry}
        BY <1>1, <3>4, CountsHas DEF LogsTypeOK, Catalogues
      <4>2. HoldsFor(catalogue[g], live'[g])
        BY <3>2, <4>1
      <4>3. QED
        BY <1>4, <3>1, <3>4, <4>2 DEF RegionHolds, HoldsFor
    <3>5. QED
      BY <3>3, <3>4
  <2>5. QED
    BY <2>3, <2>4
<1>8. QED
  BY <1>2, <1>5, <1>6, <1>7 DEF LogsInv

\* With no region left every entry of the holder has had its turn; of one that
\* ends before that, what it was beyond is missed.
LEMMA SaveEndsInv ==
    ASSUME LogsAssumption, LogsInv, NEW p \in Puts, CommitSave(p) \/ CrashSave(p) \/ InsertFails(p)
    PROVE  LogsInv'
<1>1. LogsTypeOK /\ put[p] \in PutRecords /\ InPlace(put[p])
  BY DEF LogsInv, LogsTypeOK
<1>2. put' = [put EXCEPT ![p] = NoPut] /\ live' = live /\ crossed' = crossed
  BY DEF CommitSave, CrashSave, InsertFails
<1>3. /\ put' \in [Puts -> PutRecords] /\ OneHolds' /\ (\A q \in Puts : InPlace(put'[q]))
      /\ put'[p] = NoPut /\ \A q \in Puts : q # p => put'[q] = put[q]
  BY <1>2, NoPutType, OneMoves
<1>4. \A q \in Puts, g \in Regions : Beyond(q, g)' <=> Beyond(q, g) /\ q # p
  BY <1>3, NoPutType DEF Beyond
<1>5. LogsTypeOK'
  <2>1. CASE CommitSave(p)
    BY <1>1, <1>3, <2>1 DEF CommitSave, LogsTypeOK, PutRecords
  <2>2. CASE CrashSave(p)
    BY <1>1, <1>3, <2>2, ActType DEF CrashSave, LogsTypeOK, Listed
  <2>3. CASE InsertFails(p)
    BY <1>1, <1>3, <2>3 DEF InsertFails, LogsTypeOK
  <2>4. QED
    BY <2>1, <2>2, <2>3
<1>6. ASSUME ~put[p].locks PROVE \A g \in Regions : g \in missed' \cup crossed' \/ RegionHolds(g)'
  <2>1. UNCHANGED <<catalogue, missed>>
    BY <1>6 DEF CommitSave, CrashSave, InsertFails
  <2>2. \A q \in Puts, g \in Regions : /\ Beyond(q, g)' <=> Beyond(q, g)
                                       /\ Beyond(q, g) => put'[q].want = put[q].want
    BY <1>3, <1>4, <1>6 DEF Beyond
  <2>3. QED
    BY <1>2, <2>1, <2>2, SameRegions
<1>7. ASSUME put[p].locks, NEW g \in Regions, g \notin missed' \cup crossed'
      PROVE  RegionHolds(g)'
  <2>1. \A q \in Puts : ~Beyond(q, g)' /\ (q # p => ~Beyond(q, g))
    BY <1>4, <1>7 DEF LogsInv, OneHolds, Beyond
  <2>2. CASE CommitSave(p)
    <3>1. RegionHolds(g) /\ put[p].left = {} /\ catalogue' = put[p].want
      BY <1>2, <1>7, <2>2 DEF LogsInv, CommitSave
    <3>2. CASE put[p].want[g] # NoEntry
      <4>1. Beyond(p, g)
        BY <1>7, <3>1, <3>2 DEF Beyond, Listed
      <4>2. HoldsFor(put[p].want[g], live[g])
        BY <3>1, <4>1 DEF RegionHolds
      <4>3. QED
        BY <1>2, <2>1, <3>1, <4>2 DEF RegionHolds, HoldsFor
    <3>3. CASE put[p].want[g] = NoEntry
      BY <2>1, <3>1, <3>3 DEF RegionHolds, HoldsFor, Enabled, NoEntry
    <3>4. QED
      BY <3>2, <3>3
  <2>3. CASE CrashSave(p)
    <3>1. g \notin missed \cup crossed /\ ~Beyond(p, g) /\ catalogue' = catalogue
      BY <1>2, <1>7, <2>3 DEF CrashSave, Beyond
    <3>2. HoldsFor(catalogue[g], live[g])
      BY <2>1, <3>1 DEF LogsInv, RegionHolds
    <3>3. QED
      BY <1>2, <2>1, <3>1, <3>2 DEF RegionHolds, HoldsFor
  <2>4. CASE InsertFails(p)
    BY <1>1, <1>7, <2>4 DEF InsertFails, InPlace
  <2>5. QED
    BY <2>2, <2>3, <2>4
<1>8. QED
  BY <1>3, <1>5, <1>6, <1>7 DEF LogsInv

LEMMA SeedInv == ASSUME LogsAssumption, LogsInv, SeedAtStart PROVE LogsInv'
<1>1. LogsTypeOK
  BY DEF LogsInv
<1>2. UNCHANGED <<live, put, admin, crossed>> /\ missed' = missed \cup SeedRegions /\ stored'
  BY DEF SeedAtStart
<1>3. /\ catalogue' \in Catalogues
      /\ \A g \in Regions : g \notin SeedRegions => catalogue'[g] = NoEntry
  BY DEF SeedAtStart, Catalogues, Entries
<1>4. LogsTypeOK'
  BY <1>1, <1>2, <1>3, ActType DEF SeedAtStart, LogsTypeOK, LogsAssumption
<1>5. (\A p \in Puts : InPlace(put'[p])) /\ OneHolds'
  BY <1>2 DEF LogsInv, OneHolds
<1>6. \A p \in Puts, g \in Regions : ~Beyond(p, g)'
  BY <1>2 DEF SeedAtStart, LogsInv, InPlace, Beyond
<1>7. \A g \in Regions : g \in missed' \cup crossed' \/ RegionHolds(g)'
  BY <1>2, <1>3, <1>6 DEF RegionHolds, HoldsFor, Enabled, NoEntry
<1>8. QED
  BY <1>4, <1>5, <1>7 DEF LogsInv

LEMMA CustomerInv ==
    ASSUME LogsAssumption, LogsInv, NEW g \in Regions, Customer(g) PROVE LogsInv'
<1>1. LogsTypeOK
  BY DEF LogsInv
<1>2. /\ UNCHANGED <<catalogue, stored, put, admin, crossed>> /\ missed' = missed \cup {g}
      /\ live' \in [Regions -> Live] /\ \A h \in Regions : h # g => live'[h] = live[h]
  BY <1>1 DEF Customer, LogsTypeOK, Live
<1>3. LogsTypeOK'
  BY <1>1, <1>2, ActType DEF Customer, LogsTypeOK
<1>4. (\A p \in Puts : InPlace(put'[p])) /\ OneHolds'
  BY <1>2 DEF LogsInv, OneHolds
<1>5. ASSUME NEW h \in Regions PROVE h \in missed' \cup crossed' \/ RegionHolds(h)'
  <2>1. CASE h = g
    BY <1>2, <2>1
  <2>2. CASE h # g
    <3>1. live'[h] = live[h] /\ catalogue' = catalogue /\ put' = put
      BY <1>2, <2>2
    <3>2. RegionHolds(h) => RegionHolds(h)'
      BY <3>1 DEF RegionHolds, HoldsFor, Beyond
    <3>3. QED
      BY <1>2, <3>2 DEF LogsInv
  <2>3. QED
    BY <2>1, <2>2
<1>6. QED
  BY <1>3, <1>4, <1>5 DEF LogsInv

LEMMA LogsInvariant == ASSUME LogsAssumption PROVE LogsSpec => []LogsInv
<1>1. LogsInit => LogsInv
  BY LogsInitInv
<1>2. LogsInv /\ [LogsNext]_logsVars => LogsInv'
  <2>1. ASSUME LogsInv, UNCHANGED logsVars PROVE LogsInv'
    BY <2>1 DEF LogsInv, LogsTypeOK, OneHolds, RegionHolds, HoldsFor, Beyond, logsVars
  <2>2. ASSUME LogsInv, LogsNext PROVE LogsInv'
    BY <2>2, PutInv, ReplaceInv, ReadInv, ApplyInv, SaveEndsInv, SeedInv, CustomerInv DEF LogsNext
  <2>3. QED
    BY <2>1, <2>2
<1>3. QED
  BY <1>1, <1>2, PTL DEF LogsSpec

\* Type correctness of the catalogue, the configurations and the requests.
THEOREM LogsTypeCorrect == ASSUME LogsAssumption PROVE LogsSpec => []LogsTypeOK
<1>1. LogsInv => LogsTypeOK
  BY DEF LogsInv
<1>2. QED
  BY <1>1, LogsInvariant, PTL

\* settings.py:411-452: however requests overlap, while none is replacing it the
\* catalogue is what Bedrock has, but for the regions where a call failed, a
\* look was stale, or a request that saved nothing crossed one that did.
THEOREM CatalogueIsTrue == ASSUME LogsAssumption PROVE LogsSpec => []CatalogueHolds
<1>1. LogsInv => CatalogueHolds
  BY DEF LogsInv, CatalogueHolds, RegionHolds, HoldsFor, Told, RowHeld, Beyond
<1>2. QED
  BY <1>1, LogsInvariant, PTL

\* invlogs_apply.py:10-16: a customer's configuration ends by the customer's
\* hand, or under a call whose look at it failed or was before it.
THEOREM CustomersAreSafe == ASSUME LogsAssumption PROVE LogsSpec => CustomersStay
<1> DEFINE Kept == \A g \in Regions : live[g] = "theirs" /\ live'[g] # "theirs"
                      => \/ Customer(g)
                         \/ \E p \in Puts : put[p].at = g /\ put[p].saw # "theirs"
<1>1. LogsInv /\ [LogsNext]_logsVars => [Kept]_logsVars
  <2> SUFFICES ASSUME LogsInv, LogsNext, NEW g \in Regions,
                      live[g] = "theirs", live'[g] # "theirs"
               PROVE  Customer(g) \/ \E p \in Puts : put[p].at = g /\ put[p].saw # "theirs"
    OBVIOUS
  <2>1. live \in [Regions -> Live]
    BY DEF LogsInv, LogsTypeOK
  <2>2. CASE \E p \in Puts, h \in Regions : Apply(p, h)
    <3>1. PICK p \in Puts, h \in Regions : Apply(p, h)
      BY <2>2
    <3>2. h = g /\ live'[g] = Outcome(put[p].want[g], put[p].saw, "theirs")
      BY <2>1, <3>1 DEF Apply
    <3>3. put[p].saw # "theirs"
      BY <3>2 DEF Outcome, MayEnable, MayDisable
    <3>4. QED
      BY <3>1, <3>2, <3>3 DEF Apply
  <2>3. CASE \E h \in Regions : Customer(h)
    BY <2>1, <2>3 DEF Customer
  <2>4. CASE live' = live
    BY <2>4
  <2>5. QED
    BY <2>2, <2>3, <2>4 DEF LogsNext, SeedAtStart, CommitSave, CrashSave, Put, Replace,
                            InsertFails, ReadRegion, ReadFails, ApplyFails
<1>2. QED
  BY <1>1, LogsInvariant, PTL DEF LogsSpec, CustomersStay


-----------------------------------------------------------------------------
(* The upgrade.  Users is locked while it goes on, so what the transaction  *)
(* sees of the block is what is committed, until the statement that renames *)
(* it; after that it is what the new version calls a block.                 *)

Sees(d) ==
    IF upgrade.next = "commit"
    THEN /\ d.status # "disabled" /\ ~d.disabledAt
         /\ blocked => d.status = "force_blocked"
    ELSE d.status = db.status /\ (d.disabledAt <=> db.disabledAt)

BlockKept(d) ==
    /\ blocked => d.status \in {"disabled", "force_blocked"}
    /\ d.newColumns => d.status # "disabled" /\ ~d.disabledAt

UpgradeInv == UpgradeTypeOK /\ BlockKept(db) /\ (Upgrading => Sees(upgrade.sees))

\* The types of the upgrade's record and of a table changed in some fields.
UpgradeRecords == [by : Tasks \cup {NoTask}, next : Statements, sees : Db]

LEMMA DbFields ==
    ASSUME NEW d \in Db
    PROVE  /\ d.disabledAt \in BOOLEAN /\ d.newColumns \in BOOLEAN
           /\ d.status \in {"active", "disabled", "force_blocked"}
           /\ d.stamp \in {"none", "disabled_at", "force_blocked_at"}
           /\ d.rows \in SUBSET {"parent_team_admin", "team_admin"}
           /\ d.token \in {"null", "default", "repo", "unprobed"}
BY DEF Db

LEMMA UpgradeInitInv == ASSUME UpgradeAssumption, UpgradeInit PROVE UpgradeInv
<1>1. /\ db \in Db /\ db.disabledAt /\ ~db.newColumns /\ db.status # "force_blocked"
      /\ blocked = (db.status = "disabled") /\ upgrade = NoUpgrade /\ oldServes = TRUE
      /\ task = [t \in Tasks |-> "off"] /\ steps = 0
  BY Zenon DEF UpgradeInit
<1>2. upgrade \in UpgradeRecords /\ ~Upgrading
  BY <1>1 DEF NoUpgrade, UpgradeRecords, Statements, Upgrading
<1>3. blocked \in BOOLEAN /\ (blocked => db.status = "disabled")
  BY <1>1
<1>4. task \in [Tasks -> {"off", "serving"}] /\ steps \in 0..MaxUpgrade
  BY <1>1 DEF UpgradeAssumption
<1>5. UpgradeTypeOK
  BY <1>1, <1>2, <1>3, <1>4 DEF UpgradeTypeOK, UpgradeRecords
<1>6. QED
  BY <1>1, <1>2, <1>3, <1>5 DEF UpgradeInv, BlockKept

\* A statement: the tables stay, the transaction sees the next ones.
LEMMA StatementInv ==
    ASSUME UpgradeInv, NEW after \in Db, NEW next \in Statements,
           NEW following \in Statements, Execute(next, following, after),
           IF following = "commit"
           THEN /\ after.status # "disabled" /\ ~after.disabledAt
                /\ blocked => after.status = "force_blocked"
           ELSE after.status = db.status /\ (after.disabledAt <=> db.disabledAt)
    PROVE  UpgradeInv'
<1>1. upgrade \in UpgradeRecords
  BY DEF UpgradeInv, UpgradeTypeOK, UpgradeRecords
<1>2. upgrade' = [upgrade EXCEPT !.next = following, !.sees = after]
  BY DEF Execute
<1>3. upgrade'.next = following /\ upgrade'.sees = after /\ upgrade' \in UpgradeRecords
  BY <1>1, <1>2 DEF UpgradeRecords
<1>4. UNCHANGED <<db, task, oldServes, blocked, steps>>
  BY DEF Execute
<1>5. UpgradeTypeOK' /\ BlockKept(db)'
  BY <1>3, <1>4 DEF UpgradeInv, UpgradeTypeOK, UpgradeRecords, BlockKept
<1>6. Sees(upgrade.sees)'
  BY <1>3, <1>4 DEF Sees
<1>7. QED
  BY <1>5, <1>6 DEF UpgradeInv

LEMMA UpgradeStepInv == ASSUME UpgradeAssumption, UpgradeInv, UpgradeStep PROVE UpgradeInv'
<1> DEFINE d == upgrade.sees
<1>1. /\ d \in Db /\ db \in Db
      /\ Upgrading => Sees(d)
      /\ blocked => db.status \in {"disabled", "force_blocked"}
  BY DEF UpgradeInv, UpgradeTypeOK, BlockKept
<1>2. \A s \in {"addColumns", "collapseRoles", "unprobeRepos", "renameDisabled", "commit"} :
         s \in Statements
  BY DEF Statements
<1>3. CASE AddColumns
  <2> DEFINE after == [d EXCEPT !.newColumns = TRUE]
  <2>1. Execute("addColumns", "collapseRoles", after)
    BY <1>3 DEF AddColumns
  <2>2. after \in Db /\ after.status = d.status /\ after.disabledAt = d.disabledAt
    BY <1>1 DEF Db
  <2>3. d.status = db.status /\ (d.disabledAt <=> db.disabledAt)
    BY <1>1, <2>1 DEF Execute, Sees
  <2> HIDE DEF after
  <2>4. QED
    BY <1>2, <2>1, <2>2, <2>3, StatementInv
<1>4. CASE CollapseRoles
  <2> DEFINE after == [d EXCEPT !.rows = IF d.rows = {} THEN {} ELSE {"team_admin"}]
  <2>1. Execute("collapseRoles", "unprobeRepos", after)
    BY <1>4 DEF CollapseRoles
  <2>2. after \in Db /\ after.status = d.status /\ after.disabledAt = d.disabledAt
    BY <1>1 DEF Db
  <2>3. d.status = db.status /\ (d.disabledAt <=> db.disabledAt)
    BY <1>1, <2>1 DEF Execute, Sees
  <2> HIDE DEF after
  <2>4. QED
    BY <1>2, <2>1, <2>2, <2>3, StatementInv
<1>5. CASE UnprobeRepos
  <2> DEFINE after == [d EXCEPT !.token = IF d.token \in {"null", "default"}
                                          THEN "unprobed" ELSE d.token]
  <2>1. Execute("unprobeRepos", "renameDisabled", after)
    BY <1>5 DEF UnprobeRepos
  <2>2. after \in Db /\ after.status = d.status /\ after.disabledAt = d.disabledAt
    BY <1>1 DEF Db
  <2>3. d.status = db.status /\ (d.disabledAt <=> db.disabledAt)
    BY <1>1, <2>1 DEF Execute, Sees
  <2> HIDE DEF after
  <2>4. QED
    BY <1>2, <2>1, <2>2, <2>3, StatementInv
<1>6. CASE RenameDisabled
  <2> DEFINE after == Renamed(d)
  <2>1. Execute("renameDisabled", "commit", after)
    BY <1>6 DEF RenameDisabled
  <2>2. /\ after \in Db /\ ~after.disabledAt
        /\ after.status = IF d.status = "disabled" THEN "force_blocked" ELSE d.status
    BY ZenonT(30), <1>1 DEF Db, Renamed
  <2>3. d.status = db.status
    BY <1>1, <2>1 DEF Execute, Sees
  <2>4. after.status # "disabled" /\ (blocked => after.status = "force_blocked")
    BY <1>1, <2>2, <2>3
  <2> HIDE DEF after
  <2>5. QED
    BY <1>2, <2>1, <2>2, <2>4, StatementInv
<1>7. CASE CommitUpgrade
  <2>1. /\ db' = d /\ task' = [task EXCEPT ![upgrade.by] = "serving"]
        /\ upgrade' = [by |-> NoTask, next |-> "addColumns", sees |-> d]
        /\ UNCHANGED <<oldServes, blocked, steps>>
        /\ Sees(d) /\ upgrade.next = "commit"
    BY <1>1, <1>7 DEF CommitUpgrade, NoUpgrade
  <2>2. UpgradeTypeOK'
    BY <1>1, <2>1 DEF UpgradeInv, UpgradeTypeOK, Statements
  <2>3. BlockKept(db)'
    BY <2>1 DEF BlockKept, Sees
  <2>4. QED
    BY <2>1, <2>2, <2>3 DEF UpgradeInv, Upgrading
<1>8. CASE Refused
  <2>1. /\ upgrade' = [by |-> NoTask, next |-> "addColumns", sees |-> db]
        /\ UNCHANGED <<db, task, oldServes, blocked, steps>>
    BY <1>8 DEF Refused, Abort, NoUpgrade
  <2>2. QED
    BY <1>1, <2>1 DEF UpgradeInv, UpgradeTypeOK, Statements, BlockKept, Upgrading
<1>9. QED
  BY <1>3, <1>4, <1>5, <1>6, <1>7, <1>8 DEF UpgradeStep


\* A writer of the tables: it has the new ones' types right, keeps the block
\* as it is, and changes no block while an upgrade goes on.
LEMMA WriteInv ==
    ASSUME UpgradeAssumption, UpgradeInv, NEW new \in Db, NEW seen \in Db,
           WriteTables(new, seen), UNCHANGED <<task, oldServes>>, blocked' \in BOOLEAN,
           blocked' => new.status \in {"disabled", "force_blocked"},
           new.newColumns => new.status # "disabled" /\ ~new.disabledAt,
           Upgrading => /\ blocked' = blocked
                        /\ new.status = db.status /\ (new.disabledAt <=> db.disabledAt)
                        /\ seen.status = upgrade.sees.status
                        /\ (seen.disabledAt <=> upgrade.sees.disabledAt)
    PROVE  UpgradeInv'
<1>1. upgrade \in UpgradeRecords /\ steps \in 0..MaxUpgrade
  BY DEF UpgradeInv, UpgradeTypeOK, UpgradeRecords
<1>2. PICK view \in Db : /\ upgrade' = [upgrade EXCEPT !.sees = view]
                         /\ Upgrading => view = seen
  BY DEF WriteTables
<1>3. /\ upgrade'.by = upgrade.by /\ upgrade'.next = upgrade.next /\ upgrade'.sees = view
      /\ upgrade' \in UpgradeRecords
  BY <1>1, <1>2 DEF UpgradeRecords
<1>4. db' = new /\ steps' \in 0..MaxUpgrade
  BY <1>1 DEF WriteTables, UpgradeAct, UpgradeAssumption
<1>5. UpgradeTypeOK'
  BY <1>3, <1>4 DEF UpgradeInv, UpgradeTypeOK, UpgradeRecords
<1>6. BlockKept(db)'
  BY <1>4 DEF BlockKept
<1>7. ASSUME Upgrading' PROVE Sees(upgrade.sees)'
  <2>1. Upgrading /\ Sees(upgrade.sees)
    BY <1>3, <1>7 DEF Upgrading, UpgradeInv
  <2>2. QED
    BY <1>2, <1>3, <1>4, <2>1 DEF Sees
<1>8. QED
  BY <1>5, <1>6, <1>7 DEF UpgradeInv

LEMMA WritersInv ==
    ASSUME UpgradeAssumption, UpgradeInv,
           \/ OldDisable \/ OldEnable \/ \E on \in BOOLEAN : NewBlock(on)
           \/ \E role \in {"parent_team_admin", "team_admin"} : OldGrant(role)
    PROVE  UpgradeInv'
<1>1. db \in Db /\ upgrade.sees \in Db /\ BlockKept(db)
  BY DEF UpgradeInv, UpgradeTypeOK
<1>2. CASE OldDisable
  <2> DEFINE new == [db EXCEPT !.status = "disabled", !.stamp = "disabled_at"]
  <2>1. new \in Db /\ new.status = "disabled" /\ new.newColumns = db.newColumns
    BY <1>1 DEF Db
  <2>2. ~Upgrading /\ ~db.newColumns
    BY <1>1, <1>2 DEF OldDisable, UsersFree, BlockKept
  <2>3. WriteTables(new, new) /\ blocked' = TRUE /\ UNCHANGED <<task, oldServes>>
    BY <1>2 DEF OldDisable
  <2> HIDE DEF new
  <2>4. QED
    BY <2>1, <2>2, <2>3, WriteInv
<1>3. CASE OldEnable
  <2> DEFINE new == [db EXCEPT !.status = "active", !.stamp = "none"]
  <2>1. /\ new \in Db /\ new.status = "active" /\ new.newColumns = db.newColumns
        /\ new.disabledAt = db.disabledAt
    BY <1>1 DEF Db
  <2>2. ~Upgrading /\ ~db.newColumns
    BY <1>1, <1>3 DEF OldEnable, UsersFree, BlockKept
  <2>3. WriteTables(new, new) /\ blocked' = FALSE /\ UNCHANGED <<task, oldServes>>
    BY <1>3 DEF OldEnable
  <2> HIDE DEF new
  <2>4. QED
    BY <2>1, <2>2, <2>3, WriteInv
<1>4. ASSUME NEW on \in BOOLEAN, NewBlock(on) PROVE UpgradeInv'
  <2> DEFINE status == IF on THEN "force_blocked" ELSE "active"
             stamp  == IF on THEN "force_blocked_at" ELSE "none"
             new    == [db EXCEPT !.status = status, !.stamp = stamp]
  <2>1. /\ status \in {"active", "force_blocked"} /\ (on => status = "force_blocked")
        /\ stamp \in {"none", "force_blocked_at"}
    OBVIOUS
  <2>2. WriteTables(new, new) /\ blocked' = on /\ UNCHANGED <<task, oldServes>> /\ ~Upgrading
    BY <1>4 DEF NewBlock
  <2> HIDE DEF status, stamp
  <2>3. /\ new \in Db /\ new.status = status /\ new.newColumns = db.newColumns
        /\ new.disabledAt = db.disabledAt
    BY <1>1, <2>1 DEF Db
  <2>4. new.newColumns => new.status # "disabled" /\ ~new.disabledAt
    BY <1>1, <2>1, <2>3 DEF BlockKept
  <2> HIDE DEF new
  <2>5. QED
    BY <2>1, <2>2, <2>3, <2>4, WriteInv
<1>5. ASSUME NEW role \in {"parent_team_admin", "team_admin"}, OldGrant(role) PROVE UpgradeInv'
  <2> DEFINE new  == [db EXCEPT !.rows = db.rows \cup {role}]
             seen == [upgrade.sees EXCEPT !.rows = upgrade.sees.rows \cup {role}]
  <2>1. /\ new \in Db /\ new.status = db.status /\ new.newColumns = db.newColumns
        /\ new.disabledAt = db.disabledAt
    BY <1>1 DEF Db
  <2>2. /\ seen \in Db /\ seen.status = upgrade.sees.status
        /\ seen.disabledAt = upgrade.sees.disabledAt
    BY <1>1 DEF Db
  <2>3. WriteTables(new, seen) /\ UNCHANGED <<task, oldServes, blocked>>
    BY <1>5 DEF OldGrant
  <2>4. /\ blocked' \in BOOLEAN /\ (blocked' => new.status \in {"disabled", "force_blocked"})
        /\ new.newColumns => new.status # "disabled" /\ ~new.disabledAt
    BY <1>1, <2>1, <2>3 DEF UpgradeInv, UpgradeTypeOK, BlockKept
  <2> HIDE DEF new, seen
  <2>5. QED
    BY <2>1, <2>2, <2>3, <2>4, WriteInv
<1>6. QED
  BY <1>2, <1>3, <1>4, <1>5

LEMMA TasksInv ==
    ASSUME UpgradeAssumption, UpgradeInv,
           OldStops \/ CrashUpgrade \/ \E t \in Tasks : StartTask(t) \/ Restart(t)
    PROVE  UpgradeInv'
<1>1. UpgradeTypeOK /\ BlockKept(db) /\ (Upgrading => Sees(upgrade.sees))
  BY DEF UpgradeInv
<1>2. CASE OldStops
  BY <1>1, <1>2 DEF OldStops, UpgradeInv, UpgradeTypeOK, BlockKept, Sees, Upgrading
<1>3. CASE CrashUpgrade
  <2>1. /\ upgrade' = [by |-> NoTask, next |-> "addColumns", sees |-> db]
        /\ UNCHANGED <<db, task, oldServes, blocked>> /\ steps' \in 0..MaxUpgrade
    BY <1>1, <1>3 DEF CrashUpgrade, Abort, NoUpgrade, UpgradeAct, UpgradeAssumption, UpgradeTypeOK
  <2>2. QED
    BY <1>1, <2>1 DEF UpgradeInv, UpgradeTypeOK, Statements, BlockKept, Upgrading
<1>4. ASSUME NEW t \in Tasks, StartTask(t) PROVE UpgradeInv'
  <2>1. /\ upgrade' = [by |-> t, next |-> "addColumns", sees |-> db]
        /\ UNCHANGED <<db, task, oldServes, blocked, steps>>
    BY <1>4 DEF StartTask
  <2>2. UpgradeTypeOK' /\ BlockKept(db)'
    BY <1>1, <2>1 DEF UpgradeTypeOK, Statements, BlockKept
  <2>3. Sees(upgrade.sees)'
    BY <2>1 DEF Sees
  <2>4. QED
    BY <2>2, <2>3 DEF UpgradeInv
<1>5. ASSUME NEW t \in Tasks, Restart(t) PROVE UpgradeInv'
  <2>1. /\ task' = [task EXCEPT ![t] = "off"] /\ steps' \in 0..MaxUpgrade
        /\ UNCHANGED <<db, upgrade, oldServes, blocked>>
    BY <1>1, <1>5 DEF Restart, UpgradeAct, UpgradeAssumption, UpgradeTypeOK
  <2>2. QED
    BY <1>1, <2>1 DEF UpgradeInv, UpgradeTypeOK, BlockKept, Sees, Upgrading
<1>6. QED
  BY <1>2, <1>3, <1>4, <1>5

LEMMA UpgradeInvariant == ASSUME UpgradeAssumption PROVE UpgradeSpec => []UpgradeInv
<1>1. UpgradeInit => UpgradeInv
  BY UpgradeInitInv
<1>2. UpgradeInv /\ [UpgradeNext]_upgradeVars => UpgradeInv'
  <2>1. ASSUME UpgradeInv, UNCHANGED upgradeVars PROVE UpgradeInv'
    BY <2>1 DEF UpgradeInv, UpgradeTypeOK, BlockKept, Sees, Upgrading, upgradeVars
  <2>2. ASSUME UpgradeInv, UpgradeNext PROVE UpgradeInv'
    BY <2>2, UpgradeStepInv, WritersInv, TasksInv DEF UpgradeNext
  <2>3. QED
    BY <2>1, <2>2
<1>3. QED
  BY <1>1, <1>2, PTL DEF UpgradeSpec

\* Type correctness: what is committed and what a transaction sees are tables.
THEOREM UpgradeTypeCorrect == ASSUME UpgradeAssumption PROVE UpgradeSpec => []UpgradeTypeOK
<1>1. UpgradeInv => UpgradeTypeOK
  BY DEF UpgradeInv
<1>2. QED
  BY <1>1, UpgradeInvariant, PTL

\* main.py:245-278: whoever is blocked stays so through any crashes, restarts
\* and old tasks, and is blocked in the new version's words once it has its
\* columns.
THEOREM BlocksDoSurvive == ASSUME UpgradeAssumption PROVE UpgradeSpec => []BlocksSurvive
<1>1. UpgradeInv => BlocksSurvive
  BY DEF UpgradeInv, BlockKept, BlocksSurvive
<1>2. QED
  BY <1>1, UpgradeInvariant, PTL


-----------------------------------------------------------------------------
(* Installs.  The answers a run has, and those on disk for an account, are  *)
(* its own, the environment's or those of the old config.json; and a run    *)
(* that goes on to the cost reports has left a stack that stands.           *)

Own(acct) == {acct, "shell", None, legacy.a.conf}
Supplied == {"shell", None, legacy.a.conf}
Stands == Updatable \cup {"busy"}

StackRecords == [status : {"none", "busy", "stuck"} \cup Updatable, conf : Confs, vpc : Vpcs]
Files == [there : BOOLEAN, a : Answers]
InstallRuns == [step : {"idle", "detect", "ask", "deploy", "result", "cur", "done"},
                asks : BOOLEAN, caller : Accounts \cup {None}, vpc : Vpcs,
                supplied : Answers, a : Answers, upgrade : BOOLEAN,
                rc : {"none", "ok", "abort", "error"}]

\* What is on disk and deployed.
SitesInv ==
    /\ legacy \in Files
    /\ keyed \in [Accounts -> Files]
    /\ stack \in [Accounts -> StackRecords]
    /\ cur \in [Accounts -> {"none", "broken", "complete"}]
    /\ operatorTroubles \in 0..MaxInstall
    /\ \A a \in Accounts : keyed[a].a.conf \in Own(a) /\ stack[a].conf \in Own(a)

\* What a run r has; from its deployment on the stack stands.
Active(r) == r.step \notin {"idle", "done"}
RunHolds(r) ==
    /\ r \in InstallRuns
    /\ r.supplied.conf \in Supplied
    /\ Active(r) => r.a.acct \in Accounts /\ r.a.conf \in Own(r.a.acct)
    /\ (r.step = "result" /\ r.rc = "ok") \/ r.step = "cur" => stack[r.a.acct].status \in Stands

InstallInv == SitesInv /\ RunHolds(run)

LEMMA NoRunHolds == RunHolds(NoRun) /\ RunHolds(NoRun)'
BY DEF RunHolds, NoRun, NoAnswers, InstallRuns, Answers, Confs, Vpcs, Supplied, Active

LEMMA FileTypes ==
    /\ NoFile \in Files /\ NoFile.a = NoAnswers /\ NoAnswers \in Answers /\ NoAnswers.conf = None
    /\ \A a \in Answers : File(a) \in Files /\ File(a).a = a
BY DEF NoFile, File, Files, NoAnswers, Answers, Confs, Vpcs

LEMMA InstallInitInv == ASSUME InstallAssumption, InstallInit PROVE InstallInv
<1>1. PICK old \in OldConfigs : legacy = LeftBy(old)
  BY DEF InstallInit
<1>2. legacy \in Files
  BY <1>1, FileTypes DEF LeftBy, InstallAssumption, Answers, Confs, Vpcs
<1>3. /\ keyed = [a \in Accounts |-> NoFile] /\ stack = [a \in Accounts |-> NoStack]
      /\ cur = [a \in Accounts |-> "none"] /\ run = NoRun /\ operatorTroubles = 0
  BY DEF InstallInit
<1>4. NoStack \in StackRecords /\ NoStack.conf = None
  BY DEF NoStack, StackRecords, Confs, Vpcs
<1>5. SitesInv
  BY <1>2, <1>3, <1>4, FileTypes DEF SitesInv, InstallAssumption, Own
<1>6. QED
  BY <1>3, <1>5, NoRunHolds DEF InstallInv

LEMMA TroublesType ==
    ASSUME InstallAssumption, InstallInv, OperatorTrouble PROVE operatorTroubles' \in 0..MaxInstall
BY DEF InstallInv, SitesInv, OperatorTrouble, InstallAssumption

\* The record of answers under another is one, with an answer of either.
LEMMA UnderType ==
    ASSUME NEW a \in Answers, NEW b \in Answers
    PROVE  /\ Under(a, b) \in Answers
           /\ Under(a, b).conf = IF a.conf # None THEN a.conf ELSE b.conf
<1>1. Under(a, b) = [acct |-> IF a.acct # None THEN a.acct ELSE b.acct,
                     conf |-> IF a.conf # None THEN a.conf ELSE b.conf,
                     vpc |-> IF a.vpc # None THEN a.vpc ELSE b.vpc]
  BY DEF Under
<1>2. QED
  BY <1>1 DEF Answers

LEMMA DroppedType ==
    ASSUME InstallInv, NEW acct \in Accounts, NEW a \in Answers
    PROVE  Dropped(acct, a) \in Answers /\ Dropped(acct, a).conf \in {None, a.conf}
<1>1. CASE legacy.there /\ legacy.a.acct \notin {None, acct}
  <2>1. Dropped(acct, a) =
           [acct |-> a.acct,
            conf |-> IF a.conf = legacy.a.conf THEN None ELSE a.conf,
            vpc |-> IF a.vpc = legacy.a.vpc THEN None ELSE a.vpc]
    BY <1>1 DEF Dropped, Answers
  <2>2. QED
    BY <2>1 DEF Answers, Confs, Vpcs
<1>2. CASE ~(legacy.there /\ legacy.a.acct \notin {None, acct})
  BY <1>2 DEF Dropped
<1>3. QED
  BY <1>1, <1>2

\* The step of BeginInstall, for what it has chosen.
Begins(asks, reset, caller, env, acct) ==
    LET seed == Seed(env, reset)
        known == [seed EXCEPT !.acct = acct]
        refused == ~asks /\ acct # caller
        a == IF reset THEN known ELSE Under(Dropped(acct, known), Migrated(acct)) IN
    /\ run' = IF refused THEN NoRun ELSE
              [NoRun EXCEPT !.step = "detect", !.asks = asks, !.caller = caller,
                  !.vpc = env.vpc, !.supplied = seed, !.a = a]
    /\ IF refused THEN keyed' = KeyedAs(acct, known)
       ELSE IF reset THEN keyed' = [keyed EXCEPT ![acct] = NoFile]
       ELSE IF Adoptable(acct) THEN keyed' = KeyedAs(acct, legacy.a)
       ELSE UNCHANGED keyed

\* A run on its way that has the answers its account may have.
LEMMA BeginInv == ASSUME InstallAssumption, InstallInv, BeginInstall PROVE InstallInv'
<1>1. SitesInv /\ RunHolds(run)
  BY DEF InstallInv
<1>2. PICK asks \in BOOLEAN, reset \in BOOLEAN, caller \in Accounts, env \in Exports :
        \E acct \in Chosen(Seed(env, reset), caller, asks) :
           Begins(asks, reset, caller, env, acct)
  BY DEF BeginInstall, Begins
<1>a. PICK acct \in Chosen(Seed(env, reset), caller, asks) :
         Begins(asks, reset, caller, env, acct)
  BY <1>2
<1> DEFINE seed == Seed(env, reset)
           known == [seed EXCEPT !.acct = acct]
           a == IF reset THEN known ELSE Under(Dropped(acct, known), Migrated(acct))
<1>3. UNCHANGED <<legacy, stack, cur, operatorTroubles>>
  BY DEF BeginInstall
<1>4. env \in Answers /\ env.conf \in {"shell", None} /\ env.vpc \in Vpcs
  BY DEF InstallAssumption, Answers, Confs, Vpcs
<1>5. legacy.a \in Answers
  BY <1>1 DEF SitesInv, Files
<1>6. seed \in Answers /\ seed.conf \in Supplied
  BY <1>4, <1>5, UnderType, FileTypes DEF Seed, Supplied
<1>7. acct \in Accounts
  BY <1>a, <1>6 DEF Chosen, Answers
<1>8. known \in Answers /\ known.conf = seed.conf /\ known.acct = acct
  BY <1>6, <1>7 DEF Answers
<1>9. Migrated(acct) \in Answers /\ Migrated(acct).conf \in Own(acct)
  BY <1>1, <1>5, <1>7 DEF Migrated, SitesInv, Files, Own
<1>10. a \in Answers /\ a.conf \in Own(acct) /\ a.acct = acct
  <2>1. CASE reset
    BY <1>6, <1>8, <2>1 DEF Supplied, Own
  <2>2. CASE ~reset
    <3>1. Dropped(acct, known) \in Answers /\ Dropped(acct, known).conf \in {None, known.conf}
      BY <1>7, <1>8, DroppedType
    <3>2. Dropped(acct, known).acct = acct
      BY <1>8 DEF Dropped, Answers
    <3>3. Under(Dropped(acct, known), Migrated(acct)).acct = acct
      BY <1>7, <3>1, <3>2 DEF Under, InstallAssumption
    <3>4. QED
      BY <1>6, <1>8, <1>9, <2>2, <3>1, <3>3, UnderType DEF Supplied, Own
  <2>3. QED
    BY <2>1, <2>2
<1>11. PICK f \in Files : /\ keyed' = keyed \/ keyed' = [keyed EXCEPT ![acct] = f]
                          /\ f.a.conf \in Own(acct)
  <2>1. File(known) \in Files /\ File(known).a.conf \in Own(acct)
    BY <1>6, <1>8, FileTypes DEF Supplied, Own
  <2>2. File(legacy.a) \in Files /\ File(legacy.a).a.conf \in Own(acct)
    BY <1>5, FileTypes DEF Own
  <2>3. NoFile \in Files /\ NoFile.a.conf \in Own(acct)
    BY FileTypes DEF Own
  <2>4. QED
    BY <1>a, <2>1, <2>2, <2>3 DEF KeyedAs, Begins
<1>12. SitesInv'
  BY <1>1, <1>3, <1>7, <1>11 DEF SitesInv, Own
<1> HIDE DEF seed, known, a
<1>13. RunHolds(run)'
  <2>1. CASE run' = NoRun
    BY <2>1, NoRunHolds
  <2>2. CASE run' = [NoRun EXCEPT !.step = "detect", !.asks = asks, !.caller = caller,
                      !.vpc = env.vpc, !.supplied = seed, !.a = a]
    <3>1. run' = [step |-> "detect", asks |-> asks, caller |-> caller, vpc |-> env.vpc,
                  supplied |-> seed, a |-> a, upgrade |-> FALSE, rc |-> "none"]
      BY <2>2 DEF NoRun
    <3>2. QED
      BY <1>3, <1>4, <1>6, <1>7, <1>10, <3>1 DEF RunHolds, InstallRuns, Supplied, Own, Active
  <2>3. QED
    BY <1>a, <2>1, <2>2 DEF Begins, seed, known, a
<1>14. QED
  BY <1>12, <1>13 DEF InstallInv


\* A step that leaves what is deployed and moves the run to where it may be.
LEMMA RunGoesOn ==
    ASSUME InstallAssumption, InstallInv, UNCHANGED <<legacy, stack>>,
           keyed' \in [Accounts -> Files], \A a \in Accounts : keyed'[a].a.conf \in Own(a),
           cur' \in [Accounts -> {"none", "broken", "complete"}],
           operatorTroubles' \in 0..MaxInstall, RunHolds(run')
    PROVE  InstallInv'
<1>1. SitesInv'
  BY DEF InstallInv, SitesInv, Own
<1>2. RunHolds(run)'
  BY DEF RunHolds, Own, Supplied, Active
<1>3. QED
  BY <1>1, <1>2 DEF InstallInv

\* Answers saved under the account that they are for.
LEMMA SaveKeeps ==
    ASSUME InstallAssumption, InstallInv, NEW a \in Answers, a.acct \in Accounts,
           a.conf \in Own(a.acct), SaveAnswers(a)
    PROVE  /\ legacy' = legacy
           /\ keyed' \in [Accounts -> Files] /\ \A b \in Accounts : keyed'[b].a.conf \in Own(b)
<1>1. keyed' = [keyed EXCEPT ![a.acct] = File(a)] /\ legacy' = legacy
  BY DEF SaveAnswers, KeyedAs, InstallAssumption
<1>2. File(a) \in Files /\ File(a).a = a
  BY FileTypes
<1>3. QED
  BY <1>1, <1>2 DEF InstallInv, SitesInv

LEMMA DetectInv ==
    ASSUME InstallAssumption, InstallInv, Detect \/ DetectFails PROVE InstallInv'
<1> DEFINE acct == run.a.acct
           s == stack[acct]
<1>1. SitesInv /\ RunHolds(run)
  BY DEF InstallInv
<1>2. run.step = "detect" /\ UNCHANGED <<legacy, keyed, stack, cur>>
  BY DEF Detect, DetectFails
<1>3. acct \in Accounts /\ run.a \in Answers /\ run \in InstallRuns
  BY <1>1, <1>2 DEF RunHolds, Active, InstallRuns
<1>4. s \in StackRecords /\ s.conf \in Own(acct)
  BY <1>1, <1>3 DEF SitesInv
<1>5. operatorTroubles' \in 0..MaxInstall
  BY <1>1, TroublesType DEF Detect, DetectFails, SitesInv
<1>6. RunHolds(run')
  <2>1. CASE run' = NoRun
    BY <2>1, NoRunHolds
  <2>2. CASE run' = [run EXCEPT !.step = "ask"]
    BY <1>1, <1>2, <1>3, <2>2 DEF RunHolds, InstallRuns, Active
  <2>3. CASE run' = [run EXCEPT !.step = "ask", !.upgrade = TRUE, !.a = Deployed(s)]
    <3>1. /\ Deployed(s) \in Answers /\ Deployed(s).acct = acct
          /\ Deployed(s).conf \in {s.conf, run.a.conf}
      BY <1>3, <1>4 DEF Deployed, Answers, StackRecords
    <3>2. Deployed(s).conf \in Own(acct)
      BY <1>1, <1>2, <1>4, <3>1 DEF RunHolds, Active
    <3>3. /\ run' \in InstallRuns /\ run'.a = Deployed(s) /\ run'.supplied = run.supplied
          /\ run'.step = "ask"
      BY <1>3, <2>3, <3>1 DEF InstallRuns
    <3>4. QED
      BY <1>1, <1>3, <3>1, <3>2, <3>3 DEF RunHolds
  <2>4. QED
    BY <2>1, <2>2, <2>3 DEF Detect, DetectFails
<1>7. QED
  BY <1>1, <1>2, <1>5, <1>6, RunGoesOn DEF SitesInv

\* What is taken at a question was supplied, known, or typed for the account.
LEMMA AskInv ==
    ASSUME InstallAssumption, InstallInv, AskAll \/ AskAborted PROVE InstallInv'
<1> DEFINE acct == run.a.acct
<1>1. SitesInv /\ RunHolds(run)
  BY DEF InstallInv
<1>2. run.step = "ask" /\ UNCHANGED <<stack, cur>>
  BY DEF AskAll, AskAborted
<1>3. acct \in Accounts /\ run.a \in Answers /\ run.a.conf \in Own(acct) /\ run \in InstallRuns
  BY <1>1, <1>2 DEF RunHolds, Active, InstallRuns
<1>4. operatorTroubles' \in 0..MaxInstall
  BY <1>1, TroublesType DEF AskAll, AskAborted, SitesInv
<1>5. CASE AskAborted
  <2>1. run' = NoRun /\ SaveAnswers(run.a)
    BY <1>5 DEF AskAborted
  <2>2. QED
    BY <1>1, <1>2, <1>3, <1>4, <2>1, SaveKeeps, NoRunHolds, RunGoesOn DEF SitesInv
<1>6. CASE AskAll
  <2>1. PICK conf \in Resolved(run.supplied.conf, run.a.conf, {acct}), vpc \in VpcAnswers :
          /\ run' = [run EXCEPT !.step = "deploy", !.a = [run.a EXCEPT !.conf = conf, !.vpc = vpc],
                                !.supplied = NoAnswers]
          /\ SaveAnswers([run.a EXCEPT !.conf = conf, !.vpc = vpc])
    BY <1>6 DEF AskAll
  <2> DEFINE a == [run.a EXCEPT !.conf = conf, !.vpc = vpc]
  <2>2. conf \in Own(acct)
    BY <1>1, <1>3 DEF Resolved, RunHolds, Own, Supplied
  <2>3. conf \in Confs /\ vpc \in Vpcs
    <3>1. conf \in {run.supplied.conf, run.a.conf, acct}
      BY DEF Resolved
    <3>2. run.supplied \in Answers
      BY <1>3 DEF InstallRuns
    <3>3. vpc \in {run.a.vpc, "own", "new"}
      BY DEF VpcAnswers
    <3>4. QED
      BY <1>3, <3>1, <3>2, <3>3 DEF Answers, Confs, Vpcs
  <2>4. a \in Answers /\ a.acct = acct /\ a.conf = conf
    BY <1>3, <2>3 DEF Answers
  <2>5. SaveAnswers(a)
    BY <2>1
  <2>6. run' = [run EXCEPT !.step = "deploy", !.a = a, !.supplied = NoAnswers]
    BY <2>1
  <2> HIDE DEF a
  <2>7. /\ run' \in InstallRuns /\ run'.step = "deploy" /\ run'.a = a
        /\ run'.supplied = NoAnswers
    BY <1>3, <2>4, <2>6, FileTypes DEF InstallRuns
  <2>8. RunHolds(run')
    BY <1>3, <2>2, <2>4, <2>7, FileTypes DEF RunHolds, Supplied
  <2>9. QED
    BY <1>1, <1>2, <1>3, <1>4, <2>2, <2>4, <2>5, <2>8, SaveKeeps, RunGoesOn DEF SitesInv
<1>7. QED
  BY <1>5, <1>6

\* The end of the core's deployment: its stack and its exit.
LEMMA DeployInv == ASSUME InstallAssumption, InstallInv, Deploy PROVE InstallInv'
<1> DEFINE acct == run.a.acct
           s == stack[acct]
<1>1. SitesInv /\ RunHolds(run)
  BY DEF InstallInv
<1>2. run.step = "deploy" /\ UNCHANGED <<legacy, keyed, cur>>
  BY DEF Deploy
<1>3. acct \in Accounts /\ run.a \in Answers /\ run.a.conf \in Own(acct) /\ run \in InstallRuns
  BY <1>1, <1>2 DEF RunHolds, Active, InstallRuns
<1>4. s \in StackRecords /\ s.conf \in Own(acct)
  BY <1>1, <1>3 DEF SitesInv
<1>5. operatorTroubles' \in 0..MaxInstall
  BY <1>1, TroublesType DEF Deploy, SitesInv
<1>6. PICK rc \in {"ok", "abort", "error"}, t \in StackRecords :
        /\ run' = [run EXCEPT !.step = "result", !.rc = rc]
        /\ stack' = [stack EXCEPT ![acct] = t]
        /\ t.conf \in Own(acct) /\ (rc = "ok" => t.status \in Stands)
  <2> DEFINE sent == [status |-> "complete", conf |-> Sent.conf, vpc |-> Sent.vpc]
             Ends(rc) == run' = [run EXCEPT !.step = "result", !.rc = rc]
  <2>1. sent \in StackRecords /\ sent.conf \in Own(acct) /\ sent.status \in Stands
    BY <1>3 DEF Sent, StackRecords, Vpcs, Answers, Stands, Updatable, Healthy
  <2>2. CASE stack' = [stack EXCEPT ![acct] = sent] /\ (Ends("ok") \/ Ends("error"))
    BY <2>1, <2>2
  <2>3. CASE UNCHANGED stack /\ (Ends("abort") \/ Ends("error"))
    <3>1. stack' = [stack EXCEPT ![acct] = s]
      BY <1>1, <1>3, <2>3 DEF SitesInv
    <3>2. QED
      BY <1>4, <2>3, <3>1
  <2>4. CASE \E status \in {"stuck", "rolled_back"} :
                 stack' = [stack EXCEPT ![acct].status = status] /\ Ends("abort")
    <3>1. PICK status \in {"stuck", "rolled_back"} :
                 stack' = [stack EXCEPT ![acct] = [s EXCEPT !.status = status]] /\ Ends("abort")
      BY <2>4
    <3>2. [s EXCEPT !.status = status] \in StackRecords /\ [s EXCEPT !.status = status].conf = s.conf
      BY <1>4 DEF StackRecords, Updatable
    <3>3. QED
      BY <1>4, <3>1, <3>2
  <2> HIDE DEF sent
  <2>5. QED
    BY <2>2, <2>3, <2>4 DEF Deploy, sent
<1>7. SitesInv'
  BY <1>1, <1>2, <1>3, <1>5, <1>6 DEF SitesInv, Own
<1>8. /\ run' \in InstallRuns /\ run'.step = "result" /\ run'.rc = rc /\ run'.a = run.a
      /\ run'.supplied = run.supplied
  BY <1>3, <1>6 DEF InstallRuns
<1>9. stack'[acct] = t
  BY <1>1, <1>3, <1>6 DEF SitesInv
<1>10. RunHolds(run)'
  BY <1>1, <1>2, <1>3, <1>6, <1>8, <1>9 DEF RunHolds, Supplied, Own
<1>11. QED
  BY <1>7, <1>10 DEF InstallInv


\* The rest of a run: on to the cost reports, to the end, or killed.
LEMMA EndsInv ==
    ASSUME InstallAssumption, InstallInv, Judge \/ DeployCur \/ Killed PROVE InstallInv'
<1> DEFINE acct == run.a.acct
<1>1. SitesInv /\ RunHolds(run)
  BY DEF InstallInv
<1>2. UNCHANGED <<legacy, keyed, stack>> /\ run \in InstallRuns
  BY <1>1 DEF Judge, DeployCur, Killed, RunHolds
<1>3. operatorTroubles' \in 0..MaxInstall
  BY <1>1, TroublesType DEF Judge, DeployCur, Killed, SitesInv
<1>4. cur' \in [Accounts -> {"none", "broken", "complete"}]
  BY <1>1 DEF Judge, DeployCur, Killed, SitesInv
<1>5. RunHolds(run')
  <2>1. CASE run' = NoRun
    BY <2>1, NoRunHolds
  <2>2. CASE Judge /\ GoesOn /\ run' = [run EXCEPT !.step = "cur"]
    <3>1. /\ run' \in InstallRuns /\ run'.step = "cur" /\ run'.a = run.a
          /\ run'.supplied = run.supplied
      BY <1>2, <2>2 DEF InstallRuns
    <3>2. stack[acct].status \in Stands
      BY <1>1, <2>2 DEF Judge, GoesOn, RunHolds, Stands, Updatable
    <3>3. QED
      BY <1>1, <2>2, <3>1, <3>2 DEF Judge, RunHolds, Active
  <2>3. CASE DeployCur /\ run' = [NoRun EXCEPT !.step = "done", !.a.acct = acct]
    <3>1. acct \in Accounts
      BY <1>1, <2>3 DEF DeployCur, RunHolds, Active
    <3>2. run' = [step |-> "done", asks |-> FALSE, caller |-> None, vpc |-> None,
                  supplied |-> NoAnswers, a |-> [acct |-> acct, conf |-> None, vpc |-> None],
                  upgrade |-> FALSE, rc |-> "none"]
      BY <2>3 DEF NoRun, NoAnswers
    <3>3. run' \in InstallRuns
      BY <3>1, <3>2, FileTypes DEF InstallRuns, Answers, Confs, Vpcs
    <3>4. QED
      BY <3>2, <3>3, FileTypes DEF RunHolds, Active, Supplied
  <2>4. QED
    BY <2>1, <2>2, <2>3 DEF Judge, DeployCur, Killed
<1>6. QED
  BY <1>1, <1>2, <1>3, <1>4, <1>5, RunGoesOn DEF SitesInv

\* Other hands: no stack that stands goes while a run is on its way.
LEMMA OthersInv ==
    ASSUME InstallAssumption, InstallInv, Destroy \/ OthersBegin \/ OthersEnd \/ ConsoleFix
    PROVE  InstallInv'
<1>1. SitesInv /\ RunHolds(run)
  BY DEF InstallInv
<1>2. UNCHANGED <<legacy, keyed, run>>
  BY DEF Destroy, OthersBegin, OthersEnd, ConsoleFix
<1>3. operatorTroubles' \in 0..MaxInstall /\ cur' \in [Accounts -> {"none", "broken", "complete"}]
  BY <1>1, TroublesType DEF Destroy, OthersBegin, OthersEnd, ConsoleFix, SitesInv
<1>4. PICK acct \in Accounts, t \in StackRecords :
        /\ stack' = [stack EXCEPT ![acct] = t]
        /\ t.conf \in {None, stack[acct].conf}
        /\ \/ run.step \in {"idle", "done"}
           \/ t.status \in Stands
           \/ stack[acct].status \notin Stands
  <2>1. NoStack \in StackRecords /\ NoStack.conf = None
    BY DEF NoStack, StackRecords, Confs, Vpcs
  <2>2. CASE Destroy
    BY <2>1, <2>2 DEF Destroy
  <2>3. CASE ConsoleFix
    BY <2>1, <2>3 DEF ConsoleFix, Stands, Updatable, Healthy
  <2>4. CASE OthersBegin \/ OthersEnd
    <3>1. PICK acct \in Accounts, status \in {"busy", "complete"} :
             stack' = [stack EXCEPT ![acct] = [stack[acct] EXCEPT !.status = status]]
      BY <2>4 DEF OthersBegin, OthersEnd
    <3> DEFINE t == [stack[acct] EXCEPT !.status = status]
    <3>2. t \in StackRecords /\ t.conf = stack[acct].conf /\ t.status = status
      BY <1>1 DEF SitesInv, StackRecords, Updatable, Healthy
    <3>3. status \in Stands
      BY DEF Stands, Updatable, Healthy
    <3>4. stack' = [stack EXCEPT ![acct] = t]
      BY <3>1
    <3> HIDE DEF t
    <3>5. QED
      BY <3>2, <3>3, <3>4
  <2>5. QED
    BY <2>2, <2>3, <2>4
<1>5. SitesInv'
  BY <1>1, <1>2, <1>3, <1>4 DEF SitesInv, Own
<1>6. RunHolds(run)'
  BY <1>1, <1>2, <1>4 DEF RunHolds, SitesInv, Own, Supplied, Active
<1>7. QED
  BY <1>5, <1>6 DEF InstallInv

LEMMA InstallInvariant == ASSUME InstallAssumption PROVE InstallSpec => []InstallInv
<1>1. InstallInit => InstallInv
  BY InstallInitInv
<1>2. InstallInv /\ [InstallNext]_installVars => InstallInv'
  <2>1. ASSUME InstallInv, UNCHANGED installVars PROVE InstallInv'
    BY <2>1 DEF InstallInv, SitesInv, RunHolds, Own, Supplied, Active, installVars
  <2>2. ASSUME InstallInv, InstallNext PROVE InstallInv'
    BY <2>2, BeginInv, DetectInv, AskInv, DeployInv, EndsInv, OthersInv
       DEF InstallNext, InstallGoesOn
  <2>3. QED
    BY <2>1, <2>2
<1>3. QED
  BY <1>1, <1>2, PTL DEF InstallSpec

\* Type correctness: what is kept, what is deployed and where a run may be.
THEOREM InstallTypeCorrect == ASSUME InstallAssumption PROVE InstallSpec => []InstallTypeOK
<1>1. InstallInv => InstallTypeOK
  BY DEF InstallInv, SitesInv, RunHolds, InstallTypeOK, Files, StackRecords, InstallRuns
<1>2. QED
  BY <1>1, InstallInvariant, PTL

\* config.py:48-140, __main__.py:139-180: no answer given for one account is
\* deployed to another, but for those of a config.json of before the keyed
\* files, for any number of accounts, shells and interrupted runs.
THEOREM AnswersStayApart == ASSUME InstallAssumption PROVE InstallSpec => []OwnAnswers
<1>1. InstallInv => OwnAnswers
  BY DEF InstallInv, SitesInv, OwnAnswers, Own
<1>2. QED
  BY <1>1, InstallInvariant, PTL

\* __main__.py:601-640, 768-820: a run that says it is done leaves a stack that
\* stands and the cost reports beside it.
THEOREM DoneMeansComplete == ASSUME InstallAssumption PROVE InstallSpec => DoneIsComplete
<1> DEFINE Complete ==
       run.step # "done" /\ run'.step = "done" =>
          /\ cur'[run.a.acct] = "complete"
          /\ stack'[run.a.acct].status \in Updatable \cup {"busy"}
<1>1. InstallInv /\ [InstallNext]_installVars => [Complete]_installVars
  <2> SUFFICES ASSUME InstallInv, InstallNext, run.step # "done", run'.step = "done"
               PROVE  /\ cur'[run.a.acct] = "complete"
                      /\ stack'[run.a.acct].status \in Updatable \cup {"busy"}
    OBVIOUS
  <2>1. run' # NoRun /\ run' # run
    BY DEF NoRun
  <2>2. run \in InstallRuns
    BY DEF InstallInv, RunHolds
  <2>3. ~BeginInstall
    <3> SUFFICES ASSUME BeginInstall PROVE FALSE
      OBVIOUS
    <3>1. PICK asks \in BOOLEAN, reset \in BOOLEAN, caller \in Accounts, env \in Exports :
            \E acct \in Chosen(Seed(env, reset), caller, asks) :
               Begins(asks, reset, caller, env, acct)
      BY DEF BeginInstall, Begins
    <3>2. PICK acct : Begins(asks, reset, caller, env, acct)
      BY <3>1
    <3>3. run' = NoRun \/ run'.step = "detect"
      BY <3>2 DEF Begins, NoRun
    <3>4. QED
      BY <2>1, <3>3
  <2>4. ~Detect /\ ~DetectFails /\ ~AskAll /\ ~AskAborted /\ ~Deploy /\ ~Judge
    BY <2>1, <2>2 DEF Detect, DetectFails, AskAll, AskAborted, Deploy, Judge, InstallRuns
  <2>5. ~Killed /\ ~Destroy /\ ~OthersBegin /\ ~OthersEnd /\ ~ConsoleFix
    BY <2>1 DEF Killed, Destroy, OthersBegin, OthersEnd, ConsoleFix
  <2>6. DeployCur
    BY <2>3, <2>4, <2>5 DEF InstallNext, InstallGoesOn
  <2>7. run.a.acct \in Accounts /\ stack[run.a.acct].status \in Stands
    BY <2>6 DEF DeployCur, InstallInv, RunHolds, Active
  <2>8. cur' = [cur EXCEPT ![run.a.acct] = "complete"] /\ stack' = stack
    BY <2>1, <2>6 DEF DeployCur
  <2>9. QED
    BY <2>7, <2>8 DEF InstallInv, SitesInv, Stands
<1>2. QED
  BY <1>1, InstallInvariant, PTL DEF InstallSpec, DoneIsComplete

-----------------------------------------------------------------------------
(* The four side by side *)

\* A behaviour of the four is one of each.
LEMMA OperationsParts ==
    OperationsSpec => Spec /\ LogsSpec /\ UpgradeSpec /\ InstallSpec
<1>1. OperationsInit => Init /\ LogsInit /\ UpgradeInit /\ InstallInit
  BY DEF OperationsInit
<1>2. [OperationsNext]_operationsVars =>
         [Next]_vars /\ [LogsNext]_logsVars /\ [UpgradeNext]_upgradeVars /\ [InstallNext]_installVars
  BY Zenon DEF OperationsNext, operationsVars
<1>3. QED
  BY <1>1, <1>2, PTL DEF OperationsSpec, Spec, LogsSpec, UpgradeSpec, InstallSpec

\* TypesOK: the four keep their types side by side.
THEOREM OperationsTypeCorrect == OperationsSpec => []TypesOK
<1>1. Spec => []TypeOK
  BY JobsTypeCorrect, OperationsAssumption
<1>2. LogsSpec => []LogsTypeOK
  BY LogsTypeCorrect, OperationsAssumption
<1>3. UpgradeSpec => []UpgradeTypeOK
  BY UpgradeTypeCorrect, OperationsAssumption
<1>4. InstallSpec => []InstallTypeOK
  BY InstallTypeCorrect, OperationsAssumption
<1>5. TypeOK /\ LogsTypeOK /\ UpgradeTypeOK /\ InstallTypeOK => TypesOK
  BY DEF TypesOK
<1>6. QED
  BY <1>1, <1>2, <1>3, <1>4, <1>5, OperationsParts, PTL

\* LoggingHolds: in the run's own words, what is proved of invocation logs.
THEOREM LoggingDoesHold == OperationsSpec => LoggingHolds
<1>1. LogsSpec => CustomersStay /\ []CatalogueHolds
  BY CustomersAreSafe, CatalogueIsTrue, OperationsAssumption
<1>2. QED
  BY <1>1, OperationsParts DEF LoggingHolds
=============================================================================
