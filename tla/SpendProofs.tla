---------------------------- MODULE SpendProofs ----------------------------
(***************************************************************************)
(* Theorems about ServiceAccountMonitor, PolicyVersions, CurSpendSync and  *)
(* GovernanceDrift, and about MCSpend, which puts them side by side.       *)
(***************************************************************************)
EXTENDS MCSpend, Sums


-----------------------------------------------------------------------------
(* ServiceAccountMonitor.  TypeOK is not inductive: a pass writes          *)
(* blocked_at into the caps it has loaded, so Holds says that it has them; *)
(* and the deny of a role and the mark on its cap are brought to agree by  *)
(* three steps, between which Marks follows them.                          *)

\* A pass still has to do caps it has loaded, and has changed nothing of
\* them; the caps it has done have their loaded row, marked or not.
Holds ==
    \A c \in Roles :
        /\ pass.after[c] = NoRow <=> pass.loaded[c] = NoRow
        /\ c \in pass.todo => pass.loaded[c] # NoRow /\ pass.after[c] = pass.loaded[c]
        /\ ~pass.busy => pass.after[c] = pass.loaded[c]

\* An alert a pass is to queue is not in the ledger of its period.
Queued ==
    /\ AlertOnce
    /\ \A c \in Roles, kind \in Kinds :
          <<c, kind>> \in pass.alerts => ledger[<<c, kind, pass.now>>] = 0

MarkedBlocked(cap) == cap # NoRow /\ cap.blocked

\* Unless a pass has rolled back, what a pass will mark blocked is denied, and
\* so is what is marked, save the caps a pass has unblocked but not committed.
Marks ==
    ~rolled =>
        \A c \in Roles :
            /\ pass.busy /\ MarkedBlocked(pass.after[c]) => c \in denied
            /\ MarkedBlocked(caps[c]) =>
                  c \in denied \/ (c \in Changed /\ ~MarkedBlocked(pass.after[c]))

BudgetInv == TypeOK /\ Holds /\ Queued /\ Marks

\* The specification starts in the invariant.
LEMMA BudgetStarts == ASSUME BudgetAssumption, Init PROVE BudgetInv
<1> USE DEF BudgetAssumption, Init
<1>1. /\ caps \in [Roles -> Cap \cup {NoRow}] /\ pass \in PassState
      /\ 1 \in Period
  BY DEF NoCaps, Idle, PassState, Period
<1>2. TypeOK
  <2>1. level \in [Roles -> [Period -> Levels]]
    BY DEF Levels
  <2>2. ledger \in [Roles \X Kinds \X Period -> Nat]
    OBVIOUS
  <2>3. period \in Period /\ tagged \subseteq Roles /\ denied \subseteq Roles
    BY <1>1
  <2>4. rolled \in BOOLEAN
    OBVIOUS
  <2>5. moves \in 0..MaxMoves
    OBVIOUS
  <2>6. QED
    BY <1>1, <2>1, <2>2, <2>3, <2>4, <2>5 DEF TypeOK
<1>3. Holds /\ Queued
  BY DEF Holds, Queued, AlertOnce, Idle, NoCaps
<1>4. Marks
  BY DEF Marks, MarkedBlocked, NoCaps, Idle
<1>5. QED
  BY <1>2, <1>3, <1>4 DEF BudgetInv

\* No pass is under way when it is as Idle says.
LEMMA IdleRun == BudgetAssumption => Idle \in PassState
BY DEF BudgetAssumption, Idle, PassState, NoCaps, Period

\* A pass starts with the caps as they are.
LEMMA StartPassInv == ASSUME BudgetAssumption, BudgetInv, StartPass PROVE BudgetInv'
<1> USE DEF BudgetInv
<1>1. /\ pass' \in PassState /\ pass'.busy /\ pass'.loaded = caps /\ pass'.after = caps
      /\ pass'.alerts = {} /\ pass'.todo \subseteq {c \in Roles : caps[c] # NoRow}
  BY DEF StartPass, TypeOK, PassState
<1>2. TypeOK'
  BY <1>1 DEF StartPass, TypeOK
<1>3. Holds' /\ Queued'
  BY <1>1 DEF StartPass, Holds, Queued, AlertOnce
<1>4. Marks'
  BY <1>1 DEF StartPass, Marks, MarkedBlocked, Changed, Holds
<1>5. QED
  BY <1>2, <1>3, <1>4

\* One cap is handled: the deny goes before the mark.
LEMMA HandleCapInv ==
    ASSUME BudgetAssumption, BudgetInv, NEW c \in Roles, HandleCap(c) PROVE BudgetInv'
<1> USE DEF BudgetInv
<1> DEFINE cap     == pass.loaded[c]
           at      == level[c][pass.now]
           block   == Blocks(c, cap, at)
           unblock == Unblocks(cap, at)
           mark(done) == Marked(pass.after[c].blocked, block, unblock, done)
<1>1. /\ pass \in PassState /\ pass.busy /\ c \in pass.todo
      /\ cap \in Cap /\ pass.after[c] = cap
  BY DEF HandleCap, Holds, TypeOK, PassState
<1>2. PICK done \in BOOLEAN, new \in SUBSET Kinds :
        /\ \A kind \in new : Fresh(c, kind)
        /\ moves' \in 0..MaxMoves
        /\ denied' = IF block /\ done THEN denied \cup {c}
                     ELSE IF unblock /\ done THEN denied \ {c}
                     ELSE denied
        /\ pass' = [pass EXCEPT !.todo = @ \ {c},
                              !.after[c].blocked = mark(done),
                              !.alerts = @ \cup {<<c, kind>> : kind \in new}]
  <2>1. PICK done \in BOOLEAN :
          LET alerts == {kind \in Kinds :
                /\ Fresh(c, kind)
                /\ \/ kind = "threshold"        /\ at = "near"
                   \/ kind = "budget_exhausted" /\ at = "over"
                   \/ kind = "unblocked"        /\ unblock /\ done}
          IN
          /\ IF done \/ ~(block \/ unblock) THEN UNCHANGED moves ELSE Move
          /\ denied' = IF block /\ done THEN denied \cup {c}
                       ELSE IF unblock /\ done THEN denied \ {c}
                       ELSE denied
          /\ pass' = [pass EXCEPT
                !.todo = @ \ {c},
                !.after[c].blocked = mark(done),
                !.alerts = @ \cup {<<c, kind>> : kind \in alerts}]
    BY DEF HandleCap
  <2>2. moves' \in 0..MaxMoves
    BY <2>1 DEF Move, TypeOK, BudgetAssumption
  <2>3. QED
    BY <2>1, <2>2
<1>3. mark(done) \in BOOLEAN
  BY <1>1 DEF Marked, Blocks, Unblocks, Cap
<1>4. /\ pass'.busy = pass.busy /\ pass'.now = pass.now /\ pass'.loaded = pass.loaded
      /\ pass'.todo = pass.todo \ {c}
      /\ pass'.after = [pass.after EXCEPT ![c] = [cap EXCEPT !.blocked = mark(done)]]
      /\ pass'.alerts = pass.alerts \cup {<<c, kind>> : kind \in new}
  BY <1>1, <1>2 DEF PassState
<1>5. pass' \in PassState
  <2>1. [cap EXCEPT !.blocked = mark(done)] \in Cap
    BY <1>1, <1>3 DEF Cap
  <2>2. pass'.after \in [Roles -> Cap \cup {NoRow}]
    BY <1>1, <1>4, <2>1 DEF PassState
  <2>3. pass'.alerts \in SUBSET (Roles \X Kinds)
    BY <1>1, <1>4 DEF PassState
  <2>4. QED
    BY <1>1, <1>2, <1>4, <2>2, <2>3 DEF PassState
<1>6. /\ caps' = caps /\ level' = level /\ period' = period /\ tagged' = tagged
      /\ ledger' = ledger /\ rolled' = rolled
  BY DEF HandleCap
<1>7. TypeOK'
  BY <1>2, <1>5, <1>6 DEF TypeOK
<1> HIDE DEF mark, block, unblock
<1>8. Holds'
  <2>1. [cap EXCEPT !.blocked = mark(done)] # NoRow
    BY <1>1, <1>3 DEF Cap, BudgetAssumption
  <2>2. ASSUME NEW d \in Roles, d # c
        PROVE  pass'.after[d] = pass.after[d] /\ (d \in pass'.todo <=> d \in pass.todo)
    BY <1>4, <2>2, <1>1 DEF PassState
  <2>3. pass'.after[c] = [cap EXCEPT !.blocked = mark(done)] /\ c \notin pass'.todo
    BY <1>1, <1>4 DEF PassState
  <2>4. cap # NoRow /\ pass'.loaded = pass.loaded /\ pass'.busy
    BY <1>1, <1>4 DEF BudgetAssumption
  <2>5. QED
    BY <2>1, <2>2, <2>3, <2>4 DEF Holds
<1>9. Queued'
  BY <1>2, <1>4, <1>6 DEF Queued, AlertOnce, Fresh
<1>10. Marks'
  <2>1. SUFFICES ASSUME ~rolled, NEW d \in Roles
                 PROVE  /\ MarkedBlocked(pass'.after[d]) => d \in denied'
                        /\ MarkedBlocked(caps[d]) =>
                              \/ d \in denied'
                              \/ /\ pass'.after[d] # pass'.loaded[d]
                                 /\ ~MarkedBlocked(pass'.after[d])
    BY <1>6 DEF Marks, Changed
  <2>2. /\ MarkedBlocked(pass.after[d]) => d \in denied
        /\ MarkedBlocked(caps[d]) =>
              \/ d \in denied
              \/ pass.after[d] # pass.loaded[d] /\ ~MarkedBlocked(pass.after[d])
    BY <1>1, <2>1 DEF Marks, Changed
  <2>3. CASE d # c
    <3>1. pass'.after[d] = pass.after[d] /\ (d \in denied => d \in denied')
      BY <1>1, <1>2, <1>4, <2>3 DEF PassState
    <3>2. QED
      BY <1>4, <2>2, <3>1
  <2>4. CASE d = c
    <3>1. pass'.after[c] = [cap EXCEPT !.blocked = mark(done)]
      BY <1>1, <1>4 DEF PassState
    <3>2. MarkedBlocked(pass'.after[c]) <=> mark(done)
      BY <1>1, <1>3, <3>1 DEF MarkedBlocked, Cap, BudgetAssumption
    <3>3. MarkedBlocked(pass.after[c]) <=> cap.blocked
      BY <1>1 DEF MarkedBlocked, BudgetAssumption
    <3>4. (block => ~cap.blocked) /\ (unblock => cap.blocked)
      BY DEF block, unblock, Blocks, Unblocks
    <3>5. mark(done) = IF done THEN block \/ (cap.blocked /\ ~unblock) ELSE cap.blocked
      BY <1>1 DEF mark, Marked
    <3>6. mark(done) => c \in denied'
      BY <1>2, <2>2, <2>4, <3>3, <3>4, <3>5
    <3>7. ~mark(done) /\ c \notin denied' => c \notin denied \/ cap.blocked
      BY <1>2, <3>4
    <3>8. ~mark(done) /\ cap.blocked => pass'.after[c] # cap
      BY <1>1, <1>3, <3>1 DEF Cap
    <3>9. QED
      BY <1>1, <1>4, <2>2, <2>4, <3>2, <3>3, <3>6, <3>7, <3>8
  <2>5. QED
    BY <2>3, <2>4
<1>11. QED
  BY <1>7, <1>8, <1>9, <1>10

\* A pass that is over leaves nothing behind but what it has committed.
LEMMA Over ==
    ASSUME BudgetAssumption, BudgetInv, pass' = Idle
    PROVE  /\ pass' \in PassState /\ Holds'
           /\ ~pass'.busy /\ pass'.alerts = {} /\ pass'.after = pass'.loaded
BY IdleRun DEF Holds, Idle, NoCaps, BudgetInv

\* The commit marks what the pass has denied and no more.
LEMMA CommitPassInv == ASSUME BudgetAssumption, BudgetInv, CommitPass PROVE BudgetInv'
<1> USE DEF BudgetInv
<1>1. /\ pass' = Idle /\ level' = level /\ period' = period /\ tagged' = tagged
      /\ denied' = denied /\ moves' = moves /\ pass \in PassState /\ pass.busy
  BY DEF CommitPass, TypeOK
<1>2. CASE rolled' = TRUE /\ UNCHANGED <<caps, ledger>>
  <2>1. TypeOK'
    BY <1>1, <1>2, Over DEF TypeOK
  <2>2. Queued' /\ Marks'
    BY <1>1, <1>2, Over DEF Queued, AlertOnce, Marks
  <2>3. QED
    BY <1>1, <2>1, <2>2, Over
<1>3. CASE /\ \A c \in Changed : caps[c] # NoRow
           /\ caps' = [c \in Roles |->
                  IF c \in Changed
                  THEN [caps[c] EXCEPT !.blocked = pass.after[c].blocked]
                  ELSE caps[c]]
           /\ ledger' = [a \in DOMAIN ledger |->
                  IF a[3] = pass.now /\ <<a[1], a[2]>> \in pass.alerts
                  THEN ledger[a] + 1 ELSE ledger[a]]
           /\ rolled' = rolled
  <2>1. ASSUME NEW c \in Changed
        PROVE  caps[c] \in Cap /\ pass.after[c] \in Cap
    BY <1>1, <1>3, <2>1 DEF Changed, TypeOK, PassState, Holds
  <2>2. caps' \in [Roles -> Cap \cup {NoRow}]
    BY <1>3, <2>1 DEF TypeOK, Cap
  <2>3. ledger' \in [Roles \X Kinds \X Period -> Nat]
    BY <1>3 DEF TypeOK
  <2>4. TypeOK'
    BY <1>1, <1>3, <2>2, <2>3, Over DEF TypeOK
  <2>5. AlertOnce'
    <3>1. SUFFICES ASSUME NEW a \in DOMAIN ledger PROVE ledger'[a] <= 1
      BY <1>3 DEF AlertOnce
    <3>2. a = <<a[1], a[2], a[3]>> /\ a[1] \in Roles /\ a[2] \in Kinds /\ ledger[a] \in Nat
      BY DEF TypeOK
    <3>3. ledger[a] <= 1
      BY DEF Queued, AlertOnce
    <3>4. CASE a[3] = pass.now /\ <<a[1], a[2]>> \in pass.alerts
      BY <1>3, <3>2, <3>4 DEF Queued
    <3>5. QED
      BY <1>3, <3>3, <3>4
  <2>6. Queued'
    BY <1>1, <2>5, Over DEF Queued
  <2>7. Marks'
    <3>1. SUFFICES ASSUME ~rolled, NEW c \in Roles, MarkedBlocked(caps'[c])
                   PROVE  c \in denied
      BY <1>1, <1>3, Over DEF Marks
    <3>2. CASE c \in Changed
      <4>1. pass.after[c] \in Cap /\ pass.after[c].blocked
        BY <1>3, <2>1, <3>1, <3>2 DEF MarkedBlocked, Cap
      <4>2. QED
        BY <1>1, <3>1, <4>1 DEF Marks, MarkedBlocked, BudgetAssumption
    <3>3. CASE c \notin Changed
      BY <1>3, <3>1, <3>3 DEF Marks
    <3>4. QED
      BY <3>2, <3>3
  <2>8. QED
    BY <1>1, <2>4, <2>6, <2>7, Over
<1>4. QED
  BY <1>2, <1>3 DEF CommitPass

\* A pass that fails has denied what it has denied, and marks nothing.
LEMMA FailPassInv == ASSUME BudgetAssumption, BudgetInv, FailPass PROVE BudgetInv'
<1> USE DEF BudgetInv
<1>1. moves' \in 0..MaxMoves
  BY DEF FailPass, Move, TypeOK, BudgetAssumption
<1>2. TypeOK'
  BY <1>1, Over DEF FailPass, TypeOK
<1>3. Holds' /\ Queued' /\ Marks'
  BY Over DEF FailPass, Queued, AlertOnce, Marks
<1>4. QED
  BY <1>2, <1>3

\* Whoever changes caps beside the passes marks none blocked that was not.
LEMMA CapsInv ==
    ASSUME BudgetAssumption, BudgetInv, Move, caps' \in [Roles -> Cap \cup {NoRow}],
           \A c \in Roles : MarkedBlocked(caps'[c]) => MarkedBlocked(caps[c]),
           UNCHANGED <<level, period, tagged, denied, ledger, pass, rolled>>
    PROVE  BudgetInv'
<1>1. moves' \in 0..MaxMoves
  BY DEF BudgetInv, TypeOK, Move, BudgetAssumption
<1>2. TypeOK'
  BY <1>1 DEF BudgetInv, TypeOK
<1>3. Holds' /\ Queued'
  BY DEF BudgetInv, Holds, Queued, AlertOnce
<1>4. Marks'
  BY DEF BudgetInv, Marks, Changed
<1>5. QED
  BY <1>2, <1>3, <1>4 DEF BudgetInv

\* What the world does changes neither caps nor denies.
LEMMA WorldInv ==
    ASSUME BudgetAssumption, BudgetInv, Move,
           level' \in [Roles -> [Period -> Levels]], period' \in Period,
           tagged' \subseteq Roles, UNCHANGED <<caps, denied, ledger, pass, rolled>>
    PROVE  BudgetInv'
<1>1. moves' \in 0..MaxMoves
  BY DEF BudgetInv, TypeOK, Move, BudgetAssumption
<1>2. TypeOK'
  BY <1>1 DEF BudgetInv, TypeOK
<1>3. Holds' /\ Queued' /\ Marks'
  BY DEF BudgetInv, Holds, Queued, AlertOnce, Marks, Changed
<1>4. QED
  BY <1>2, <1>3 DEF BudgetInv

\* Every step keeps the invariant.
LEMMA BudgetSteps == ASSUME BudgetAssumption, BudgetInv, [Next]_vars PROVE BudgetInv'
<1>1. ASSUME NEW c \in Roles, Upsert(c) PROVE BudgetInv'
  <2>1. PICK mode \in Modes, auto \in BOOLEAN :
          caps' = [caps EXCEPT ![c] =
             [mode |-> mode, auto |-> auto, blocked |-> caps[c] # NoRow /\ caps[c].blocked]]
    BY <1>1 DEF Upsert
  <2>2. (caps[c] # NoRow /\ caps[c].blocked) \in BOOLEAN
    BY DEF BudgetInv, TypeOK, Cap
  <2>3. caps' \in [Roles -> Cap \cup {NoRow}]
    BY <2>1, <2>2 DEF BudgetInv, TypeOK, Cap
  <2>4. \A d \in Roles : MarkedBlocked(caps'[d]) => MarkedBlocked(caps[d])
    BY <2>1 DEF MarkedBlocked, BudgetInv, TypeOK
  <2>5. QED
    BY <1>1, <2>3, <2>4, CapsInv DEF Upsert
<1>2. ASSUME NEW c \in Roles, DeleteCap(c) PROVE BudgetInv'
  BY <1>2, CapsInv DEF DeleteCap, MarkedBlocked, BudgetInv, TypeOK
<1>3. ASSUME NEW c \in Roles, ManualUnblock(c) PROVE BudgetInv'
  <2>1. caps[c] \in Cap /\ caps' = [caps EXCEPT ![c].blocked = FALSE]
    BY <1>3 DEF ManualUnblock, BudgetInv, TypeOK
  <2>2. caps' \in [Roles -> Cap \cup {NoRow}]
    BY <2>1 DEF BudgetInv, TypeOK, Cap
  <2>3. \A d \in Roles : MarkedBlocked(caps'[d]) => MarkedBlocked(caps[d])
    BY <2>1 DEF MarkedBlocked, BudgetInv, TypeOK, Cap
  <2>4. QED
    BY <1>3, <2>2, <2>3, CapsInv DEF ManualUnblock
<1>4. ASSUME NEW c \in Roles, Tag(c) PROVE BudgetInv'
  BY <1>4, WorldInv DEF Tag, BudgetInv, TypeOK
<1>5. ASSUME NEW c \in Roles, Spend(c) PROVE BudgetInv'
  <2>1. level' \in [Roles -> [Period -> Levels]]
    BY <1>5 DEF Spend, BudgetInv, TypeOK
  <2>2. QED
    BY <1>5, <2>1, WorldInv DEF Spend, BudgetInv, TypeOK
<1>6. CASE NextPeriod
  <2>1. period' \in Period
    BY <1>6 DEF NextPeriod, BudgetInv, TypeOK, Period, BudgetAssumption
  <2>2. QED
    BY <1>6, <2>1, WorldInv DEF NextPeriod, BudgetInv, TypeOK
<1>7. CASE UNCHANGED vars
  BY <1>7 DEF vars, BudgetInv, TypeOK, Holds, Queued, AlertOnce, Marks, Changed
<1>8. QED
  BY <1>1, <1>2, <1>3, <1>4, <1>5, <1>6, <1>7, StartPassInv, HandleCapInv,
     CommitPassInv, FailPassInv DEF Next, Pass

\* Hence it always holds.
LEMMA BudgetInvariant == ASSUME BudgetAssumption PROVE Spec => []BudgetInv
<1>1. Init => BudgetInv
  BY BudgetStarts
<1>2. BudgetInv /\ [Next]_vars => BudgetInv'
  BY BudgetSteps
<1>3. QED
  BY <1>1, <1>2, PTL DEF Spec

-----------------------------------------------------------------------------
(* The theorems *)

\* Type correctness of the monitor and its API.
THEOREM BudgetTypeCorrect == ASSUME BudgetAssumption PROVE Spec => []TypeOK
<1>1. BudgetInv => TypeOK
  BY DEF BudgetInv
<1>2. Spec => []BudgetInv
  BY BudgetInvariant
<1>3. QED
  BY <1>1, <1>2, PTL

\* Each alert is queued at most once a period (service_account_monitor.py,
\* _alert_exists and the insert that follows it), though both are a pass apart.
THEOREM AlertsOnce == ASSUME BudgetAssumption PROVE Spec => []AlertOnce
<1>1. BudgetInv => AlertOnce
  BY DEF BudgetInv, Queued
<1>2. Spec => []BudgetInv
  BY BudgetInvariant
<1>3. QED
  BY <1>1, <1>2, PTL

\* A cap marked blocked has its deny between passes (service_account_monitor.py,
\* _handle_cap: the mark follows the IAM call), until a pass has rolled back.
THEOREM BlockedAreDenied == ASSUME BudgetAssumption PROVE Spec => []BlockedIsDenied
<1>1. BudgetInv => BlockedIsDenied
  BY DEF BudgetInv, Holds, Marks, MarkedBlocked, Changed, BlockedIsDenied
<1>2. Spec => []BudgetInv
  BY BudgetInvariant
<1>3. QED
  BY <1>1, <1>2, PTL
-----------------------------------------------------------------------------
(* PolicyVersions: the calls of a run amount to one step of Publication,   *)
(* and a run that nothing overlaps succeeds.  Undisturbed says what such a *)
(* run knows of the versions after each of its calls; the others may know  *)
(* anything.                                                               *)

\* A run nothing has overlapped is the only one under way; the version it is
\* to read is the one in force, the one it is to delete another, and when it
\* is to create one there is room.
Undisturbed ==
    \A p \in alone :
        /\ \A q \in Runs : q # p => run[q].pc = "idle"
        /\ run[p].pc = "fetch" => run[p].target = default
        /\ run[p].pc = "prune" => run[p].target \in Ids \ {default}
        /\ run[p].pc = "create" => Cardinality(Ids) < Limit

VersionsInv == VersionsTypeOK /\ Undisturbed

\* Ids name versions.
LEMMA DocOfVersion ==
    ASSUME VersionsTypeOK, NEW v \in versions PROVE DocOf(v.id) = v.doc
BY DEF VersionsTypeOK, DocOf

\* Every id in use has a document.
LEMMA DocOfType == ASSUME VersionsTypeOK, NEW id \in Ids PROVE DocOf(id) \in Docs
<1>1. PICK v \in versions : v.id = id
  BY DEF Ids
<1>2. QED
  BY <1>1, DocOfVersion DEF VersionsTypeOK, Version

\* The versions can be counted.
LEMMA IdsAreFinite ==
    ASSUME VersionsAssumption, VersionsTypeOK
    PROVE  IsFiniteSet(Ids) /\ Cardinality(Ids) \in Nat
<1>1. Ids \in SUBSET (1..MaxId)
  BY DEF VersionsTypeOK, Ids, Version, Id
<1>2. IsFiniteSet(1..MaxId)
  BY FS_Interval DEF VersionsAssumption
<1>3. QED
  BY <1>1, <1>2, FS_Subset, FS_CardinalityType

\* The installer has made some versions of one document.
LEMMA VersionsStarts == ASSUME VersionsAssumption, VersionsInit PROVE VersionsInv
<1>1. PICK d \in Docs, n \in 1..Limit :
        /\ versions = [id : 1..n, doc : {d}] /\ default \in 1..n /\ last = n
  BY DEF VersionsInit
<1>2. Ids = 1..n
  <2>1. ASSUME NEW i \in 1..n PROVE i \in Ids
    <3>1. [id |-> i, doc |-> d] \in versions /\ [id |-> i, doc |-> d].id = i
      BY <1>1
    <3>2. QED
      BY <3>1 DEF Ids
  <2>2. ASSUME NEW i \in Ids PROVE i \in 1..n
    BY <1>1 DEF Ids
  <2>3. QED
    BY <2>1, <2>2
<1>3. Cardinality(Ids) <= Limit
  BY <1>1, <1>2, FS_Interval DEF VersionsAssumption
<1>4. versions \subseteq Version
  BY <1>1 DEF Version, Id, VersionsAssumption
<1>5. \A v, w \in versions : v.id = w.id => v = w
  BY <1>1
<1>6. run \in [Runs -> Run]
  BY DEF VersionsInit, Run
<1>7. last \in Id /\ default \in Ids /\ \A id \in Ids : id <= last
  BY <1>1, <1>2 DEF Id, VersionsAssumption
<1>8. want \in Docs /\ alone = {} /\ failed = {} /\ changes \in 0..MaxChanges
  BY DEF VersionsInit, VersionsAssumption
<1>9. QED
  BY <1>3, <1>4, <1>5, <1>6, <1>7, <1>8 DEF VersionsInv, VersionsTypeOK, Undisturbed

-----------------------------------------------------------------------------
(* The steps of a run *)

\* A step that leaves the versions alone keeps the types.
LEMMA ReadType ==
    ASSUME VersionsTypeOK, run' \in [Runs -> Run], alone' \subseteq Runs,
           failed' \subseteq Runs, UNCHANGED <<want, versions, default, last, changes>>
    PROVE  VersionsTypeOK' /\ Ids' = Ids /\ \A id : DocOf(id)' = DocOf(id)
BY DEF VersionsTypeOK, Ids, DocOf

\* A run that ends knows nothing any more, and others that are not alone did not.
LEMMA EndsUndisturbed ==
    ASSUME VersionsInv, NEW p \in Runs, Step(p, "idle", 0), alone' = alone, run[p].pc # "idle"
    PROVE  run' \in [Runs -> Run] /\ Undisturbed'
<1>1. /\ run' \in [Runs -> Run] /\ run'[p].pc = "idle"
      /\ \A q \in Runs : q # p => run'[q] = run[q]
  BY DEF VersionsInv, VersionsTypeOK, Step, Run
<1>2. \A q \in alone : q = p
  BY DEF VersionsInv, Undisturbed
<1>3. QED
  BY <1>1, <1>2 DEF Undisturbed, VersionsInv

\* A run that goes on keeps what it knows up to date; nobody else is alone.
LEMMA GoesOnUndisturbed ==
    ASSUME VersionsInv, NEW p \in Runs, run[p].pc # "idle", alone' = alone,
           \A q \in Runs : q # p => run'[q] = run[q],
           p \in alone =>
              /\ run'[p].pc = "fetch" => run'[p].target = default'
              /\ run'[p].pc = "prune" => run'[p].target \in Ids' \ {default'}
              /\ run'[p].pc = "create" => Cardinality(Ids') < Limit
    PROVE  Undisturbed'
<1>1. \A q \in alone : q = p
  BY DEF VersionsInv, Undisturbed
<1>2. QED
  BY <1>1 DEF Undisturbed, VersionsInv

\* The first run of several is alone, and knows nothing yet.
LEMMA StartInv == ASSUME VersionsAssumption, VersionsInv, NEW p \in Runs, Start(p) PROVE VersionsInv'
<1>1. /\ run' \in [Runs -> Run] /\ run'[p].pc = "get"
      /\ \A q \in Runs : q # p => run'[q] = run[q]
  BY DEF Start, VersionsInv, VersionsTypeOK, Run
<1>2. VersionsTypeOK'
  BY <1>1, ReadType DEF Start, VersionsInv, VersionsTypeOK
<1>3. Undisturbed'
  BY <1>1 DEF Start, Undisturbed, Busy
<1>4. QED
  BY <1>2, <1>3 DEF VersionsInv

\* get_policy finds the version in force.
LEMMA GetPolicyInv ==
    ASSUME VersionsAssumption, VersionsInv, NEW p \in Runs, GetPolicy(p) PROVE VersionsInv'
<1>1. /\ run' \in [Runs -> Run] /\ \A q \in Runs : q # p => run'[q] = run[q]
      /\ run'[p].pc = "fetch" /\ run'[p].target = default
  <2>1. default \in Id
    BY DEF VersionsInv, VersionsTypeOK, Ids, Version
  <2>2. QED
    BY <2>1 DEF GetPolicy, Step, VersionsInv, VersionsTypeOK, Run
<1>2. VersionsTypeOK'
  BY <1>1, ReadType DEF GetPolicy, VersionsInv, VersionsTypeOK
<1>3. Undisturbed'
  BY <1>1, GoesOnUndisturbed DEF GetPolicy
<1>4. QED
  BY <1>2, <1>3 DEF VersionsInv

\* get_policy_version fails, ends the run, or sends it on.
LEMMA FetchInv ==
    ASSUME VersionsAssumption, VersionsInv, NEW p \in Runs, Fetch(p) PROVE VersionsInv'
<1>1. CASE Step(p, "idle", 0)
  <2>1. run' \in [Runs -> Run] /\ Undisturbed'
    BY <1>1, EndsUndisturbed DEF Fetch
  <2>2. failed' \subseteq Runs
    BY DEF Fetch, Fail, Succeed, VersionsInv, VersionsTypeOK
  <2>3. VersionsTypeOK'
    BY <2>1, <2>2, ReadType DEF Fetch, VersionsInv, VersionsTypeOK
  <2>4. QED
    BY <2>1, <2>3 DEF VersionsInv
<1>2. CASE Step(p, "list", 0) /\ UNCHANGED failed
  <2>1. /\ run' \in [Runs -> Run] /\ \A q \in Runs : q # p => run'[q] = run[q]
        /\ run'[p].pc = "list"
    BY <1>2 DEF Step, VersionsInv, VersionsTypeOK, Run
  <2>2. VersionsTypeOK'
    BY <1>2, <2>1, ReadType DEF Fetch, VersionsInv, VersionsTypeOK
  <2>3. Undisturbed'
    BY <2>1, GoesOnUndisturbed DEF Fetch
  <2>4. QED
    BY <2>2, <2>3 DEF VersionsInv
<1>3. QED
  BY <1>1, <1>2 DEF Fetch, Fail, Succeed

\* A run goes on to delete a version that is not in force, or has room.
LEMMA ListInv ==
    ASSUME VersionsAssumption, VersionsInv, NEW p \in Runs, List(p) PROVE VersionsInv'
<1>1. UNCHANGED <<want, versions, default, last, alone, failed, changes>> /\ run[p].pc = "list"
  BY DEF List
<1>2. PICK pc \in {"prune", "create"}, target \in Id \cup {0} :
        /\ Step(p, pc, target)
        /\ pc = "prune" => target \in Ids \ {default}
        /\ pc = "create" => Cardinality(Ids \ {default}) < Limit - 1
  <2>1. CASE Cardinality(Ids \ {default}) >= Limit - 1
    <3>1. PICK id \in Ids \ {default} : Step(p, "prune", id)
      BY <2>1 DEF List
    <3>2. id \in Id
      BY DEF VersionsInv, VersionsTypeOK, Ids, Version
    <3>3. QED
      BY <3>1, <3>2
  <2>2. CASE ~(Cardinality(Ids \ {default}) >= Limit - 1)
    <3>1. Step(p, "create", 0)
      BY <2>2 DEF List
    <3>2. Cardinality(Ids \ {default}) \in Nat /\ Limit \in Nat
      BY IdsAreFinite, FS_RemoveElement, FS_CardinalityType DEF VersionsInv, VersionsAssumption
    <3>3. Cardinality(Ids \ {default}) < Limit - 1
      BY <2>2, <3>2
    <3>4. QED
      BY <3>1, <3>3
  <2>3. QED
    BY <2>1, <2>2
<1>3. /\ run' \in [Runs -> Run] /\ \A q \in Runs : q # p => run'[q] = run[q]
      /\ run'[p].pc = pc /\ run'[p].target = target
  BY <1>2 DEF Step, VersionsInv, VersionsTypeOK, Run
<1>4. pc = "create" => Cardinality(Ids) < Limit
  <2>1. default \in Ids
    BY DEF VersionsInv, VersionsTypeOK
  <2>2. Cardinality(Ids \ {default}) = Cardinality(Ids) - 1
    BY <2>1, IdsAreFinite, FS_RemoveElement DEF VersionsInv
  <2>3. QED
    BY <1>2, <2>2, IdsAreFinite DEF VersionsInv, VersionsAssumption
<1>5. VersionsTypeOK' /\ Ids' = Ids
  BY <1>1, <1>3, ReadType DEF VersionsInv, VersionsTypeOK
<1>6. Undisturbed'
  BY <1>1, <1>2, <1>3, <1>4, <1>5, GoesOnUndisturbed
<1>7. QED
  BY <1>5, <1>6 DEF VersionsInv

\* A version other than the one in force leaves: every document stays.
LEMMA RemoveVersion ==
    ASSUME VersionsAssumption, VersionsTypeOK, NEW id \in Ids \ {default},
           versions' = {v \in versions : v.id # id},
           want' \in Docs, default' = default, last' = last, run' \in [Runs -> Run],
           alone' \subseteq Runs, failed' \subseteq Runs, changes' \in 0..MaxChanges
    PROVE  /\ VersionsTypeOK' /\ Ids' = Ids \ {id} /\ Cardinality(Ids') = Cardinality(Ids) - 1
           /\ InForce' = InForce
<1>1. Ids' = Ids \ {id}
  BY DEF Ids, VersionsTypeOK
<1>2. Cardinality(Ids') = Cardinality(Ids) - 1
  BY <1>1, IdsAreFinite, FS_RemoveElement
<1>3. VersionsTypeOK'
  BY <1>1, <1>2, IdsAreFinite DEF VersionsTypeOK, VersionsAssumption
<1>4. InForce' = InForce
  <2>1. PICK v \in versions : v.id = default
    BY DEF VersionsTypeOK, Ids
  <2>2. v \in versions' /\ DocOf(v.id) = v.doc
    BY <2>1, DocOfVersion
  <2>3. \A w \in versions' : w.id = v.id => w = v
    BY <2>2, <1>3 DEF VersionsTypeOK
  <2>4. DocOf(v.id)' = v.doc
    BY <2>2, <2>3 DEF DocOf
  <2>5. QED
    BY <2>1, <2>2, <2>4 DEF InForce, DocOf
<1>5. QED
  BY <1>1, <1>2, <1>3, <1>4

\* A version is added: its id is new, and there is room for it.
LEMMA AddVersion ==
    ASSUME VersionsAssumption, VersionsTypeOK, NEW doc \in Docs, Add(doc), last < MaxId,
           Cardinality(Ids) < Limit,
           want' \in Docs, default' \in {default, last + 1}, last' = last + 1,
           run' \in [Runs -> Run], alone' \subseteq Runs, failed' \subseteq Runs,
           changes' \in 0..MaxChanges
    PROVE  /\ VersionsTypeOK'
           /\ default' = last + 1 => InForce' = doc
           /\ default' = default => InForce' = InForce
<1> DEFINE new == [id |-> last + 1, doc |-> doc]
<1>1. last \in 1..MaxId /\ last + 1 \in Id /\ new \in Version
  BY DEF VersionsTypeOK, Id, VersionsAssumption, Version
<1>2. versions' = versions \cup {new} /\ Ids' = Ids \cup {last + 1}
  <2>1. versions' = versions \cup {new}
    BY DEF Add
  <2>2. \A i \in Ids' : i \in Ids \cup {last + 1}
    BY <2>1 DEF Ids
  <2>3. \A i \in Ids \cup {last + 1} : i \in Ids'
    <3>1. new \in versions' /\ new.id = last + 1
      BY <2>1
    <3>2. \A i \in Ids : i \in Ids'
      BY <2>1 DEF Ids
    <3> HIDE DEF new
    <3>3. last + 1 \in Ids'
      BY <3>1 DEF Ids
    <3>4. QED
      BY <3>2, <3>3
  <2>4. QED
    BY <2>1, <2>2, <2>3
<1>3. \A i \in Ids : i \in Nat /\ i <= last /\ i # last + 1
  BY <1>1 DEF VersionsTypeOK, Ids, Version, Id
<1>4. Cardinality(Ids') = Cardinality(Ids) + 1
  BY <1>2, <1>3, IdsAreFinite, FS_AddElement
<1>5. \A v, w \in versions' : v.id = w.id => v = w
  <2>1. \A v \in versions : v.id # new.id
    BY <1>3 DEF Ids
  <2>2. QED
    BY <1>2, <2>1 DEF VersionsTypeOK
<1>6. VersionsTypeOK'
  <2>1. versions' \subseteq Version /\ default' \in Ids'
    BY <1>1, <1>2 DEF VersionsTypeOK
  <2>2. last' \in Id /\ \A i \in Ids' : i <= last'
    BY <1>1, <1>2, <1>3
  <2>3. Cardinality(Ids') <= Limit
    BY <1>4, IdsAreFinite DEF VersionsAssumption
  <2>4. QED
    BY <1>5, <2>1, <2>2, <2>3 DEF VersionsTypeOK
<1>7. ASSUME default' = last + 1 PROVE InForce' = doc
  <2>1. new \in versions' /\ new.id = last + 1 /\ new.doc = doc
    BY <1>2
  <2>2. \A w \in versions' : w.id = last + 1 => w = new
    BY <1>5, <2>1
  <2> HIDE DEF new
  <2>3. QED
    BY <1>7, <2>1, <2>2 DEF InForce, DocOf
<1>8. ASSUME default' = default PROVE InForce' = InForce
  <2>1. PICK v \in versions : v.id = default
    BY DEF VersionsTypeOK, Ids
  <2>2. DocOf(v.id) = v.doc
    BY <2>1, DocOfVersion
  <2>3. v \in versions' /\ \A w \in versions' : w.id = v.id => w = v
    BY <1>2, <1>5
  <2>4. DocOf(v.id)' = v.doc
    BY <2>3 DEF DocOf
  <2>5. QED
    BY <1>8, <2>1, <2>2, <2>4 DEF InForce, DocOf
<1>9. QED
  BY <1>6, <1>7, <1>8

\* A deletion makes room.
LEMMA PruneInv ==
    ASSUME VersionsAssumption, VersionsInv, NEW p \in Runs, Prune(p) PROVE VersionsInv' /\ InForce' = InForce
<1> DEFINE id == run[p].target
<1>1. run[p].pc = "prune" /\ UNCHANGED <<want, default, last, alone, changes>>
  BY DEF Prune
<1>2. CASE Fail(p) /\ UNCHANGED versions
  <2>1. run' \in [Runs -> Run] /\ Undisturbed'
    BY <1>1, <1>2, EndsUndisturbed DEF Fail
  <2>2. VersionsTypeOK' /\ InForce' = InForce
    BY <1>1, <1>2, <2>1, ReadType DEF Fail, VersionsInv, VersionsTypeOK, InForce, DocOf
  <2>3. QED
    BY <2>1, <2>2 DEF VersionsInv
<1>3. CASE /\ id \in Ids \ {default} /\ versions' = {v \in versions : v.id # id}
           /\ Step(p, "create", 0) /\ UNCHANGED failed
  <2>1. /\ run' \in [Runs -> Run] /\ \A q \in Runs : q # p => run'[q] = run[q]
        /\ run'[p].pc = "create"
    BY ZenonT(30), <1>3 DEF Step, VersionsInv, VersionsTypeOK, Run
  <2>2. want' \in Docs /\ alone' \subseteq Runs /\ failed' \subseteq Runs
        /\ changes' \in 0..MaxChanges
    BY <1>1, <1>3 DEF VersionsInv, VersionsTypeOK
  <2>3. VersionsTypeOK' /\ Cardinality(Ids') = Cardinality(Ids) - 1 /\ InForce' = InForce
    BY <1>1, <1>3, <2>1, <2>2, RemoveVersion DEF VersionsInv
  <2>4. Cardinality(Ids') < Limit
    BY <2>3, IdsAreFinite DEF VersionsInv, VersionsTypeOK, VersionsAssumption
  <2>5. Undisturbed'
    BY <1>1, <2>1, <2>4, GoesOnUndisturbed
  <2>6. QED
    BY <2>3, <2>5 DEF VersionsInv
<1>4. QED
  BY <1>2, <1>3 DEF Prune
\* The new version is in force, or there is no room and nothing happens.
LEMMA CreateInv ==
    ASSUME VersionsAssumption, VersionsInv, NEW p \in Runs, Create(p)
    PROVE  VersionsInv' /\ (Fail(p) \/ InForce' = run[p].doc)
<1>1. run[p].pc = "create" /\ UNCHANGED <<want, alone, changes>> /\ Step(p, "idle", 0)
  BY DEF Create, Fail, Succeed
<1>2. run' \in [Runs -> Run] /\ Undisturbed'
  BY <1>1, EndsUndisturbed
<1>3. failed' \subseteq Runs
  BY DEF Create, Fail, Succeed, VersionsInv, VersionsTypeOK
<1>4. CASE Fail(p) /\ UNCHANGED <<versions, default, last>>
  <2>1. VersionsTypeOK'
    BY <1>1, <1>2, <1>3, <1>4, ReadType DEF VersionsInv, VersionsTypeOK
  <2>2. QED
    BY <1>2, <1>4, <2>1 DEF VersionsInv
<1>5. CASE /\ ~(Cardinality(Ids) >= Limit) /\ last < MaxId
           /\ Add(run[p].doc) /\ default' = last + 1 /\ last' = last + 1
  <2>1. Cardinality(Ids) < Limit
    BY <1>5, IdsAreFinite DEF VersionsInv, VersionsAssumption
  <2>2. run[p].doc \in Docs
    BY DEF VersionsInv, VersionsTypeOK, Run
  <2>3. want' \in Docs /\ alone' \subseteq Runs /\ changes' \in 0..MaxChanges
    BY <1>1 DEF VersionsInv, VersionsTypeOK
  <2>4. VersionsTypeOK' /\ InForce' = run[p].doc
    BY <1>2, <1>3, <1>5, <2>1, <2>2, <2>3, AddVersion DEF VersionsInv
  <2>5. QED
    BY <1>2, <2>4 DEF VersionsInv
<1>6. QED
  BY <1>4, <1>5 DEF Create

-----------------------------------------------------------------------------
(* The world, and every step *)

LEMMA MoveType ==
    ASSUME VersionsAssumption, VersionsTypeOK, Shift PROVE changes' \in 0..MaxChanges
BY DEF Shift, VersionsTypeOK, VersionsAssumption

LEMMA ChangeInv ==
    ASSUME VersionsAssumption, VersionsInv, Change
    PROVE  VersionsInv' /\ InForce' = InForce /\ Brings' = Brings
<1>1. VersionsTypeOK'
  BY MoveType DEF Change, VersionsInv, VersionsTypeOK, Ids
<1>2. Undisturbed'
  BY DEF Change, VersionsInv, Undisturbed, Ids
<1>3. QED
  BY <1>1, <1>2 DEF VersionsInv, Change, InForce, DocOf, Brings

\* An operator may leave no run alone.
LEMMA OperatorInv ==
    ASSUME VersionsAssumption, VersionsInv, Operator
    PROVE  VersionsInv' /\ alone' = {} /\ UNCHANGED <<want, run, failed>>
<1>1. /\ changes' \in 0..MaxChanges /\ alone' = {} /\ UNCHANGED <<want, run, failed>>
      /\ want' \in Docs /\ run' \in [Runs -> Run] /\ failed' \subseteq Runs
      /\ alone' \subseteq Runs
  BY MoveType DEF Operator, VersionsInv, VersionsTypeOK
<1>2. Undisturbed'
  BY <1>1 DEF Undisturbed
<1>3. ASSUME Cardinality(Ids) < Limit, last < MaxId, NEW d \in Docs, Add(d),
             last' = last + 1, default' = default
      PROVE  VersionsTypeOK'
  BY <1>1, <1>3, AddVersion DEF VersionsInv
<1>4. ASSUME NEW id \in Ids \ {default}, versions' = {v \in versions : v.id # id},
             default' = default, last' = last
      PROVE  VersionsTypeOK'
  BY <1>1, <1>4, RemoveVersion DEF VersionsInv
<1>5. ASSUME default' \in Ids \ {default}, UNCHANGED <<versions, last>>
      PROVE  VersionsTypeOK'
  BY <1>1, <1>5 DEF VersionsInv, VersionsTypeOK, Ids
<1>6. QED
  BY <1>1, <1>2, <1>3, <1>4, <1>5 DEF Operator, VersionsInv

LEMMA VersionsSteps == ASSUME VersionsAssumption, VersionsInv, [VersionsNext]_versionsVars PROVE VersionsInv'
<1>1. CASE UNCHANGED versionsVars
  BY <1>1 DEF versionsVars, VersionsInv, VersionsTypeOK, Undisturbed, Ids
<1>2. CASE VersionsNext
  BY <1>2, StartInv, GetPolicyInv, FetchInv, ListInv, PruneInv, CreateInv,
     ChangeInv, OperatorInv DEF VersionsNext, RunStep
<1>3. QED
  BY <1>1, <1>2

LEMMA VersionsInvariant == ASSUME VersionsAssumption PROVE VersionsSpec => []VersionsInv
<1>1. VersionsInit => VersionsInv
  BY VersionsStarts
<1>2. VersionsInv /\ [VersionsNext]_versionsVars => VersionsInv'
  BY VersionsSteps
<1>3. QED
  BY <1>1, <1>2, PTL DEF VersionsSpec

-----------------------------------------------------------------------------
(* The theorems *)

\* Type correctness: ids grow, the version in force exists, and there are
\* never more versions than IAM keeps.
THEOREM VersionsTypeCorrect == ASSUME VersionsAssumption PROVE VersionsSpec => []VersionsTypeOK
<1>1. VersionsInv => VersionsTypeOK
  BY DEF VersionsInv
<1>2. VersionsSpec => []VersionsInv
  BY VersionsInvariant
<1>3. QED
  BY <1>1, <1>2, PTL

\* What a call of a run amounts to: the run goes on with its document and the
\* one in force stays; or it ends, with its document in force, or not alone.
GoesOn(p) ==
    run[p].pc # "idle" /\ Brings' = Brings /\ InForce' = InForce /\ failed' = failed

EndsRun(p) ==
    /\ run[p].pc # "idle" /\ Brings' = [Brings EXCEPT ![p] = NoDoc]
    /\ \/ InForce' = run[p].doc /\ failed' = failed \ {p}
       \/ InForce' = InForce /\ p \notin alone

\* A step to another call brings what the last one brought.
LEMMA KeepsBringing ==
    ASSUME VersionsTypeOK, NEW p \in Runs, run[p].pc # "idle", run'[p].pc # "idle",
           run'[p].doc = run[p].doc, \A q \in Runs : q # p => run'[q] = run[q]
    PROVE  Brings' = Brings
<1>1. \A q \in Runs : (run'[q].pc = "idle" <=> run[q].pc = "idle") /\ run'[q].doc = run[q].doc
  OBVIOUS
<1>2. QED
  BY <1>1 DEF Brings

\* A run that ends brings nothing any more.
LEMMA EndsBringing ==
    ASSUME VersionsTypeOK, NEW p \in Runs, Step(p, "idle", 0)
    PROVE  Brings' = [Brings EXCEPT ![p] = NoDoc]
<1>1. run'[p].pc = "idle" /\ \A q \in Runs : q # p => run'[q] = run[q]
  BY DEF VersionsTypeOK, Run, Step
<1>2. QED
  BY <1>1 DEF Brings

\* Each call of a run goes on or ends it so.
LEMMA CallsAmount ==
    ASSUME VersionsAssumption, VersionsInv, NEW p \in Runs, RunStep(p)
    PROVE  UNCHANGED <<want, alone>> /\ (GoesOn(p) \/ EndsRun(p))
<1> USE DEF VersionsInv
<1>1. CASE GetPolicy(p)
  <2>1. Brings' = Brings
    <3>1. run'[p].pc = "fetch" /\ run'[p].doc = run[p].doc /\ run[p].pc = "get"
          /\ \A q \in Runs : q # p => run'[q] = run[q]
      BY <1>1 DEF GetPolicy, Step, VersionsTypeOK, Run
    <3>2. QED
      BY <3>1, KeepsBringing
  <2>2. QED
    BY <1>1, <2>1 DEF GetPolicy, GoesOn, InForce, DocOf
<1>2. CASE Fetch(p)
  <2>1. run[p].pc = "fetch" /\ InForce' = InForce /\ UNCHANGED <<want, alone>>
    BY <1>2 DEF Fetch, InForce, DocOf
  <2>2. CASE run[p].target \notin Ids /\ Fail(p)
    <3>1. Brings' = [Brings EXCEPT ![p] = NoDoc]
      BY <2>1, <2>2, EndsBringing DEF Fail
    <3>2. p \notin alone
      BY <2>1, <2>2 DEF Undisturbed, VersionsTypeOK
    <3>3. QED
      BY <2>1, <3>1, <3>2 DEF EndsRun
  <2>3. CASE DocOf(run[p].target) = run[p].doc /\ Succeed(p)
    <3>1. Brings' = [Brings EXCEPT ![p] = NoDoc] /\ failed' = failed \ {p}
      BY <2>1, <2>3, EndsBringing DEF Succeed
    <3>2. p \in alone => InForce = run[p].doc
      BY <2>1, <2>3 DEF Undisturbed, InForce
    <3>3. QED
      BY <2>1, <3>1, <3>2 DEF EndsRun
  <2>4. CASE Step(p, "list", 0) /\ UNCHANGED failed
    <3>1. Brings' = Brings
      <4>1. run'[p].pc = "list" /\ run'[p].doc = run[p].doc
            /\ \A q \in Runs : q # p => run'[q] = run[q]
        BY <2>1, <2>4 DEF Step, VersionsTypeOK, Run
      <4>2. QED
        BY <2>1, <4>1, KeepsBringing
    <3>2. QED
      BY <2>1, <2>4, <3>1 DEF GoesOn
  <2>5. QED
    BY <1>2, <2>2, <2>3, <2>4 DEF Fetch
<1>3. CASE List(p)
  <2>1. Brings' = Brings
    <3>1. run'[p].pc # "idle" /\ run'[p].doc = run[p].doc /\ run[p].pc = "list"
          /\ \A q \in Runs : q # p => run'[q] = run[q]
      BY <1>3 DEF List, Step, VersionsTypeOK, Run
    <3>2. QED
      BY <3>1, KeepsBringing
  <2>2. QED
    BY <1>3, <2>1 DEF List, GoesOn, InForce, DocOf
<1>4. CASE Prune(p)
  <2>1. run[p].pc = "prune" /\ InForce' = InForce /\ UNCHANGED <<want, alone>>
    BY <1>4, PruneInv DEF Prune
  <2>2. CASE (run[p].target \notin Ids \/ run[p].target = default) /\ Fail(p)
    <3>1. Brings' = [Brings EXCEPT ![p] = NoDoc]
      BY <2>1, <2>2, EndsBringing DEF Fail
    <3>2. p \notin alone
      BY <2>1, <2>2 DEF Undisturbed
    <3>3. QED
      BY <2>1, <3>1, <3>2 DEF EndsRun
  <2>3. CASE Step(p, "create", 0) /\ UNCHANGED failed
    <3>1. Brings' = Brings
      <4>1. run'[p].pc = "create" /\ run'[p].doc = run[p].doc
            /\ \A q \in Runs : q # p => run'[q] = run[q]
        BY <2>1, <2>3 DEF Step, VersionsTypeOK, Run
      <4>2. QED
        BY <2>1, <4>1, KeepsBringing
    <3>2. QED
      BY <2>1, <2>3, <3>1 DEF GoesOn
  <2>4. QED
    BY <1>4, <2>2, <2>3 DEF Prune
<1>5. CASE Create(p)
  <2>1. run[p].pc = "create" /\ UNCHANGED <<want, alone>> /\ Step(p, "idle", 0)
    BY <1>5 DEF Create, Fail, Succeed
  <2>2. Brings' = [Brings EXCEPT ![p] = NoDoc]
    BY <2>1, EndsBringing
  <2>3. CASE Cardinality(Ids) >= Limit
    <3>1. InForce' = InForce
      BY <1>5, <2>3 DEF Create, InForce, DocOf
    <3>2. p \notin alone
      BY <2>1, <2>3, IdsAreFinite DEF Undisturbed, VersionsAssumption
    <3>3. QED
      BY <2>1, <2>2, <3>1, <3>2 DEF EndsRun
  <2>4. CASE ~(Cardinality(Ids) >= Limit)
    <3>1. failed' = failed \ {p} /\ Add(run[p].doc) /\ last < MaxId
          /\ default' = last + 1 /\ last' = last + 1
      BY <1>5, <2>4 DEF Create, Succeed
    <3>2. Cardinality(Ids) < Limit /\ run[p].doc \in Docs
      BY <2>4, IdsAreFinite DEF VersionsAssumption, VersionsTypeOK, Run
    <3>3. VersionsTypeOK' /\ want' \in Docs /\ run' \in [Runs -> Run] /\ alone' \subseteq Runs
          /\ failed' \subseteq Runs /\ changes' \in 0..MaxChanges
      BY <1>5, CreateInv DEF VersionsTypeOK
    <3>4. InForce' = run[p].doc
      BY <3>1, <3>2, <3>3, AddVersion
    <3>5. QED
      BY <2>1, <2>2, <3>1, <3>4 DEF EndsRun
  <2>5. QED
    BY <2>3, <2>4
<1>6. QED
  BY <1>1, <1>2, <1>3, <1>4, <1>5 DEF RunStep

\* A run whose calls nobody else's fall between does not fail (the pruning of
\* deny_reconciler.py, run, from list_policy_versions to create_policy_version),
\* whatever the limit of versions and whichever of them is the default.
THEOREM RunsAloneSucceed == ASSUME VersionsAssumption PROVE VersionsSpec => AloneSucceeds
<1>1. VersionsInv /\ [VersionsNext]_versionsVars =>
        [\A p \in Runs : p \in failed' \ failed => p \notin alone]_versionsVars
  <2>1. SUFFICES ASSUME VersionsInv, VersionsNext, NEW p \in Runs, p \in failed' \ failed
                 PROVE  p \notin alone
    OBVIOUS
  <2>2. PICK q \in Runs : RunStep(q)
    BY <2>1 DEF VersionsNext, Start, Change, Operator
  <2>3. GoesOn(q) \/ EndsRun(q)
    BY <2>1, <2>2, CallsAmount
  <2>4. failed' \ failed \subseteq {q}
    BY <2>2 DEF RunStep, GetPolicy, Fetch, List, Prune, Create, Fail, Succeed
  <2>5. QED
    BY <2>1, <2>3, <2>4 DEF GoesOn, EndsRun
<1>2. VersionsSpec => []VersionsInv
  BY VersionsInvariant
<1>3. QED
  BY <1>1, <1>2, PTL DEF VersionsSpec, AloneSucceeds

\* A run that has computed a document brings it.
LEMMA BringsDoc ==
    ASSUME VersionsAssumption, VersionsTypeOK, NEW p \in Runs
    PROVE  /\ Brings[p] = NoDoc <=> run[p].pc = "idle"
           /\ run[p].pc # "idle" => Brings[p] = run[p].doc
BY DEF Brings, VersionsTypeOK, Run, VersionsAssumption

\* The calls of deny_reconciler.py:889-970 implement Publication: a document
\* comes into force in one step or not at all.
THEOREM Refines == ASSUME VersionsAssumption PROVE VersionsSpec => Publishes
<1>1. VersionsInit => P!Init
  <2>1. SUFFICES ASSUME VersionsInit PROVE P!Init
    OBVIOUS
  <2>2. InForce \in Docs
    BY <2>1, VersionsStarts, DocOfType DEF VersionsInv, VersionsTypeOK, InForce
  <2>3. QED
    BY <2>1, <2>2 DEF VersionsInit, P!Init, Brings
<1>2. VersionsInv /\ [VersionsNext]_versionsVars => [P!Next]_(P!vars)
  <2>1. SUFFICES ASSUME VersionsInv, VersionsNext PROVE P!Next \/ UNCHANGED P!vars
    BY DEF versionsVars, P!vars, InForce, DocOf, Brings
  <2>2. ASSUME NEW p \in Runs, Start(p) PROVE P!Next
    <3>1. Brings' = [Brings EXCEPT ![p] = want] /\ Brings[p] = NoDoc
      <4>1. run'[p].pc = "get" /\ run'[p].doc = want /\ run[p].pc = "idle"
            /\ \A q \in Runs : q # p => run'[q] = run[q]
        BY <2>1, <2>2 DEF Start, VersionsInv, VersionsTypeOK
      <4>2. QED
        BY <4>1 DEF Brings
    <3>2. alone' = IF \A q \in Runs : Brings[q] = NoDoc THEN {p} ELSE {}
      <4>1. Busy = {} <=> \A q \in Runs : Brings[q] = NoDoc
        BY <2>1, BringsDoc DEF Busy, VersionsInv
      <4>2. QED
        BY <2>2, <4>1 DEF Start
    <3>3. UNCHANGED <<want, InForce>>
      BY <2>2 DEF Start, InForce, DocOf
    <3>4. QED
      BY <3>1, <3>2, <3>3 DEF P!Next, P!Begin
  <2>3. ASSUME NEW p \in Runs, RunStep(p) PROVE P!Next \/ UNCHANGED P!vars
    <3>1. UNCHANGED <<want, alone>> /\ (GoesOn(p) \/ EndsRun(p))
      BY <2>1, <2>3, CallsAmount
    <3>2. CASE GoesOn(p)
      BY <3>1, <3>2 DEF GoesOn, P!vars
    <3>3. CASE EndsRun(p)
      <4>1. Brings[p] # NoDoc /\ Brings[p] = run[p].doc
        BY <2>1, <3>3, BringsDoc DEF EndsRun, VersionsInv
      <4>2. QED
        BY <3>1, <3>3, <4>1 DEF EndsRun, P!Next, P!Publish, P!GiveUp, P!Ends
    <3>4. QED
      BY <3>1, <3>2, <3>3
  <2>4. CASE Change
    <3>1. want' \in Docs /\ UNCHANGED <<InForce, Brings, alone>>
      BY <2>1, <2>4, ChangeInv DEF Change, VersionsInv, VersionsTypeOK
    <3>2. QED
      BY <3>1 DEF P!Next, P!Change
  <2>5. CASE Operator
    <3>1. VersionsInv' /\ alone' = {} /\ UNCHANGED <<want, run>>
      BY <2>1, <2>5, OperatorInv
    <3>2. InForce' \in Docs
      <4>1. default' \in Ids' /\ \A v \in versions' : v.doc \in Docs
        BY <3>1 DEF VersionsInv, VersionsTypeOK, Version
      <4>2. PICK v \in versions' : v.id = default'
        BY <4>1 DEF Ids
      <4>3. \A w \in versions' : w.id = v.id => w = v
        BY <3>1, <4>2 DEF VersionsInv, VersionsTypeOK
      <4>4. InForce' = v.doc
        BY <4>2, <4>3 DEF InForce, DocOf
      <4>5. QED
        BY <4>1, <4>4
    <3>3. Brings' = Brings
      BY <3>1 DEF Brings
    <3>4. QED
      BY <3>1, <3>2, <3>3 DEF P!Next, P!Operator
  <2>6. QED
    BY <2>1, <2>2, <2>3, <2>4, <2>5 DEF VersionsNext
<1>3. VersionsSpec => []VersionsInv
  BY VersionsInvariant
<1>4. QED
  BY <1>1, <1>2, <1>3, PTL DEF VersionsSpec, Publishes, P!Spec


-----------------------------------------------------------------------------
(* CurSpendSync: what a run that nobody overtook finds in the month is what *)
(* its DELETE removes, so what it leaves there is what its lines say.       *)

Line == Months \X Arns \X (1..MaxBill)

\* There are finitely many lines.
LEMMA LinesAreFinite == ASSUME CurAssumption PROVE IsFiniteSet(Line)
<1>1. Months = {"previous"} \cup {"current"}
  BY DEF Months
<1>2. IsFiniteSet(Months)
  BY <1>1, FS_Singleton, FS_Union
<1>3. MaxBill \in Int /\ 1 \in Int /\ IsFiniteSet(Arns)
  BY DEF CurAssumption
<1>4. IsFiniteSet(1..MaxBill)
  BY <1>3, FS_Interval
<1>5. Line = {<<m, a, n>> : m \in Months, a \in Arns, n \in 1..MaxBill}
  BY DEF Line
<1>6. IsFiniteSet(Months \X Arns)
  BY <1>2, <1>3, FS_Product
<1>7. IsFiniteSet((Months \X Arns) \X (1..MaxBill))
  BY <1>4, <1>6, FS_Product
<1> DEFINE Flat == [x \in (Months \X Arns) \X (1..MaxBill) |-> <<x[1][1], x[1][2], x[2]>>]
<1>8. Line = {Flat[x] : x \in (Months \X Arns) \X (1..MaxBill)}
  <2>1. ASSUME NEW l \in Line
        PROVE  \E x \in (Months \X Arns) \X (1..MaxBill) : Flat[x] = l
    <3>1. PICK m \in Months, a \in Arns, n \in 1..MaxBill : l = <<m, a, n>>
      BY DEF Line
    <3>2. <<<<m, a>>, n>> \in (Months \X Arns) \X (1..MaxBill)
      OBVIOUS
    <3>3. Flat[<<<<m, a>>, n>>] = <<m, a, n>>
      BY <3>2
    <3> QED BY <3>1, <3>2, <3>3
  <2>2. ASSUME NEW x \in (Months \X Arns) \X (1..MaxBill) PROVE Flat[x] \in Line
    BY DEF Line
  <2> HIDE DEF Flat
  <2> QED BY <2>1, <2>2
<1>9. Flat \in Surjection((Months \X Arns) \X (1..MaxBill), Line)
  <2>1. \A x \in (Months \X Arns) \X (1..MaxBill) : Flat[x] \in Line
    BY DEF Line
  <2>2. Flat \in [(Months \X Arns) \X (1..MaxBill) -> Line]
    BY <2>1
  <2>3. \A l \in Line : \E x \in (Months \X Arns) \X (1..MaxBill) : Flat[x] = l
    BY <1>8
  <2> HIDE DEF Flat
  <2> QED BY <2>2, <2>3 DEF Surjection
<1> HIDE DEF Flat
<1> QED BY <1>7, <1>9, FS_Surjection

\* The amounts of a set of lines add up to a natural number.
LEMMA TotalIsNat ==
  ASSUME CurAssumption, NEW lines \in SUBSET Line PROVE Total(lines) \in Nat
<1> DEFINE w == [l \in lines |-> l[3]]
<1>1. IsFiniteSet(lines)
  BY LinesAreFinite, FS_Subset
<1>2. \A l \in lines : w[l] \in Nat
  BY DEF Line
<1>3. Sum(w, lines) \in Nat
  <2> HIDE DEF w
  <2> QED BY <1>1, <1>2, SumIsNat
<1> QED BY <1>3 DEF Total, SumFunction, Sum

\* Among finitely many, one weighs the most.
LEMMA Heaviest ==
  ASSUME NEW S, IsFiniteSet(S), S # {}, NEW w \in [S -> Nat]
  PROVE  \E a \in S : \A b \in S : w[b] <= w[a]
<1> DEFINE Q == {T \in SUBSET S : T # {} => \E a \in T : \A b \in T : w[b] <= w[a]}
<1>1. ASSUME NEW T \in SUBSET S, \A U \in SUBSET T : U # T => U \in Q
      PROVE  T \in Q
  <2> SUFFICES ASSUME T # {} PROVE \E a \in T : \A b \in T : w[b] <= w[a]
    OBVIOUS
  <2>1. PICK x \in T : TRUE
    OBVIOUS
  <2> DEFINE U == T \ {x}
  <2>2. U \in Q
    BY <1>1
  <2>3. CASE U = {}
    <3>1. \A b \in T : b = x /\ w[x] \in Nat
      BY <2>3
    <3> QED BY <3>1
  <2>4. CASE U # {}
    <3>1. PICK a \in U : \A b \in U : w[b] <= w[a]
      BY <2>2, <2>4
    <3>2. w[a] \in Nat /\ w[x] \in Nat /\ \A b \in T : w[b] \in Nat
      OBVIOUS
    <3>3. \A b \in T : b = x \/ b \in U
      OBVIOUS
    <3>4. CASE w[x] <= w[a]
      BY <3>1, <3>3, <3>4
    <3>5. CASE w[a] <= w[x]
      BY <3>1, <3>2, <3>3, <3>5
    <3> QED BY <3>2, <3>4, <3>5
  <2> QED BY <2>3, <2>4
<1>2. SUBSET S \subseteq Q
  <2> HIDE DEF Q
  <2> QED BY <1>1, SubsetInduction
<1> QED BY <1>2

\* Whoever is in a batch gets the role that was billed the most.
LEMMA DominantIsArn ==
  ASSUME CurAssumption, NEW lines \in SUBSET Line, NEW map,
         NEW row \in Batch(lines, map)
  PROVE  Dominant(lines, map, row[2]) \in Arns
<1> DEFINE who == row[2]
           C == {l[2] : l \in Of(lines, map, "previous", who)
                              \cup Of(lines, map, "current", who)}
           w == [a \in C |-> Weight(lines, a)]
<1>1. C \subseteq Arns
  BY DEF Of, Line
<1>2. C # {}
  <2>1. row[1] \in {"previous", "current"} /\ Of(lines, map, row[1], who) # {}
    BY DEF Batch, Rows, Months
  <2>2. Of(lines, map, "previous", who) \cup Of(lines, map, "current", who) # {}
    BY <2>1
  <2> QED BY <2>2
<1>3. IsFiniteSet(C)
  BY <1>1, FS_Subset DEF CurAssumption
<1>4. w \in [C -> Nat]
  <2>1. \A a \in C : Weight(lines, a) \in Nat
    <3> TAKE a \in C
    <3>1. {l \in lines : l[2] = a} \in SUBSET Line
      OBVIOUS
    <3> QED BY <3>1, TotalIsNat DEF Weight
  <2> QED BY <2>1
<1>5. PICK a \in C : \A b \in C : w[b] <= w[a]
  <2> HIDE DEF w, C
  <2> QED BY <1>2, <1>3, <1>4, Heaviest
<1>6. \A b \in C : Weight(lines, b) <= Weight(lines, a)
  BY <1>5
<1>7. Dominant(lines, map, who) \in C
  <2> HIDE DEF w
  <2> QED BY <1>5, <1>6 DEF Dominant
<1> QED BY <1>1, <1>7

\* A run that no other has overtaken since it looked deletes all there is.
Overtaken ==
    \A s \in Syncs :
        sync[s].step \in {"deleting", "flushing"} /\ unraced[s] => sync[s].gone = MonthRows

CurInv == CurTypeOK /\ Overtaken

SyncState ==
    [step : {"idle", "queried", "deleting", "flushing"}, lines : SUBSET Line,
     owner : [Keys -> Owners \cup {Nobody}], gone : SUBSET Rows, found : SUBSET Rows,
     saw : [Identities -> Arns \cup {Nobody}]]

LEMMA NoRunType == NoRun \in SyncState
BY DEF NoRun, SyncState

LEMMA CurStarts == ASSUME CurAssumption PROVE CurInit => CurInv
<1> SUFFICES ASSUME CurInit PROVE CurInv
  OBVIOUS
<1>1. sync \in [Syncs -> SyncState]
  BY NoRunType DEF CurInit
<1>2. bill \in [Months -> [Arns -> 0..MaxBill]]
  <2>1. 0 \in 0..MaxBill /\ 1 \in 0..MaxBill
    BY DEF CurAssumption
  <2> QED BY <2>1 DEF CurInit
<1>3. CurTypeOK
  BY <1>1, <1>2 DEF CurInit, CurTypeOK, SyncState, Line, CurAssumption
<1>4. Overtaken
  <2>1. \A s \in Syncs : sync[s].step = "idle"
    BY DEF CurInit, NoRun
  <2> QED BY <2>1 DEF Overtaken
<1> QED BY <1>3, <1>4 DEF CurInv

\* What the state of a run is.
LEMMA SyncTypes ==
  ASSUME CurTypeOK, NEW s \in Syncs
  PROVE  /\ sync \in [Syncs -> SyncState] /\ sync[s] \in SyncState
         /\ sync[s].lines \in SUBSET Line /\ sync[s].gone \in SUBSET Rows
BY DEF CurTypeOK, SyncState, Line

\* A step that changes the state of one run, and neither the tables nor what
\* the world is.
LEMMA RunMoves ==
  ASSUME CurInv, NEW s \in Syncs, NEW r \in SyncState,
         sync' = [sync EXCEPT ![s] = r],
         UNCHANGED <<bill, owner, spend, role>>,
         unraced' \in [Syncs -> BOOLEAN], revisions' \in 0..MaxCur,
         \A q \in Syncs \ {s} : unraced'[q] => unraced[q],
         r.step \in {"deleting", "flushing"} /\ unraced'[s] => r.gone = MonthRows
  PROVE  CurInv'
<1>1. CurTypeOK'
  <2>1. sync' \in [Syncs -> SyncState]
    BY SyncTypes DEF CurInv
  <2> QED BY <2>1 DEF CurInv, CurTypeOK, SyncState, Line
<1>2. Overtaken'
  <2>1. MonthRows' = MonthRows
    BY DEF MonthRows
  <2> SUFFICES ASSUME NEW q \in Syncs, sync'[q].step \in {"deleting", "flushing"}, unraced'[q]
               PROVE  sync'[q].gone = MonthRows
    BY <2>1 DEF Overtaken
  <2>2. CASE q = s
    BY <2>2, SyncTypes DEF CurInv
  <2>3. CASE q # s
    BY <2>3, SyncTypes DEF CurInv, Overtaken
  <2> QED BY <2>2, <2>3
<1> QED BY <1>1, <1>2 DEF CurInv

LEMMA QueryKeeps ==
  ASSUME CurAssumption, CurInv, NEW s \in Syncs, Query(s) PROVE CurInv'
<1>1. PICK page \in SUBSET Lines :
         sync' = [sync EXCEPT ![s] = [NoRun EXCEPT !.step = "queried", !.lines = page]]
  BY DEF Query
<1>2. page \in SUBSET Line
  BY DEF Lines, Line
<1> DEFINE r == [NoRun EXCEPT !.step = "queried", !.lines = page]
<1>3. r \in SyncState /\ r.step = "queried"
  BY <1>2, NoRunType DEF NoRun, SyncState
<1>4. unraced' = unraced /\ unraced \in [Syncs -> BOOLEAN]
      /\ UNCHANGED <<bill, owner, spend, role>>
  BY DEF Query, world, tables, CurInv, CurTypeOK
<1>5. revisions' \in 0..MaxCur
  BY DEF Query, Revise, CurInv, CurTypeOK, CurAssumption
<1> HIDE DEF r
<1> QED BY <1>1, <1>3, <1>4, <1>5, RunMoves DEF r

LEMMA StartDeleteKeeps ==
  ASSUME CurAssumption, CurInv, NEW s \in Syncs, StartDelete(s) PROVE CurInv'
<1> DEFINE r == [sync[s] EXCEPT !.step = "deleting", !.owner = owner, !.gone = MonthRows]
<1>1. sync' = [sync EXCEPT ![s] = r]
  BY SyncTypes DEF StartDelete, CurInv, SyncState
<1>2. r \in SyncState /\ r.gone = MonthRows
  BY SyncTypes DEF CurInv, CurTypeOK, SyncState, MonthRows
<1>3. /\ unraced' = [unraced EXCEPT ![s] = TRUE] /\ unraced \in [Syncs -> BOOLEAN]
      /\ UNCHANGED <<bill, owner, spend, role>> /\ revisions' \in 0..MaxCur
  BY DEF StartDelete, world, tables, CurInv, CurTypeOK
<1>4. unraced' \in [Syncs -> BOOLEAN] /\ \A q \in Syncs \ {s} : unraced'[q] => unraced[q]
  BY <1>3
<1> HIDE DEF r
<1> QED BY <1>1, <1>2, <1>3, <1>4, RunMoves

LEMMA LoopKeeps ==
  ASSUME CurAssumption, CurInv, NEW s \in Syncs, Loop(s) PROVE CurInv'
<1> DEFINE gone == IF unraced[s] THEN sync[s].gone ELSE {}
           r == [sync[s] EXCEPT !.step = "flushing", !.gone = gone,
                                !.found = {row \in Rows : spend[row] > 0} \ gone,
                                !.saw = role]
<1>1. sync' = [sync EXCEPT ![s] = r]
  BY SyncTypes DEF Loop, CurInv, SyncState
<1>2. r \in SyncState
  BY ZenonT(30), SyncTypes DEF CurInv, CurTypeOK, SyncState
<1>3. sync[s].step = "deleting" /\ UNCHANGED <<bill, owner, spend, role, unraced, revisions>>
  BY DEF Loop, world, tables
<1>4. unraced[s] => r.gone = MonthRows
  BY <1>3, SyncTypes DEF CurInv, Overtaken, SyncState
<1>5. unraced \in [Syncs -> BOOLEAN] /\ revisions \in 0..MaxCur
  BY DEF CurInv, CurTypeOK
<1> HIDE DEF r
<1> QED BY <1>1, <1>2, <1>3, <1>4, <1>5, RunMoves

\* Collide and FailRun: a run ends and leaves nothing.
LEMMA RunEnds ==
  ASSUME CurAssumption, CurInv, NEW s \in Syncs, Collide(s) \/ FailRun(s) PROVE CurInv'
<1>1. /\ sync' = [sync EXCEPT ![s] = NoRun]
      /\ UNCHANGED <<bill, owner, spend, role, unraced>>
      /\ revisions' \in 0..MaxCur
  BY DEF Collide, FailRun, Revise, world, tables, CurInv, CurTypeOK, CurAssumption
<1>2. NoRun \in SyncState /\ NoRun.step = "idle" /\ unraced \in [Syncs -> BOOLEAN]
  BY NoRunType DEF NoRun, CurInv, CurTypeOK
<1> QED BY <1>1, <1>2, RunMoves

LEMMA CommitSyncKeeps ==
  ASSUME CurAssumption, CurInv, NEW s \in Syncs, CommitSync(s) PROVE CurInv'
<1> DEFINE r == sync[s]
           batch == Batch(r.lines, r.owner)
           seen == {row[2] : row \in batch}
<1>1. r.lines \in SUBSET Line
  BY SyncTypes DEF CurInv
<1>2. spend' \in [Rows -> Nat]
  <2>1. \A row \in Rows : Total(Of(r.lines, r.owner, row[1], row[2])) \in Nat
    <3> TAKE row \in Rows
    <3>1. Of(r.lines, r.owner, row[1], row[2]) \in SUBSET Line
      BY <1>1 DEF Of
    <3> QED BY <3>1, TotalIsNat
  <2>2. spend \in [Rows -> Nat]
    BY DEF CurInv, CurTypeOK
  <2>3. spend' = [row \in Rows |->
          IF row \in batch THEN Total(Of(r.lines, r.owner, row[1], row[2]))
          ELSE IF row \in r.gone THEN 0 ELSE spend[row]]
    BY DEF CommitSync
  <2> HIDE DEF r, batch
  <2> QED BY <2>1, <2>2, <2>3
<1>3. role' \in [Identities -> Arns \cup {Nobody}]
  <2>1. \A i \in seen : Dominant(r.lines, r.owner, i) \in Arns
    BY <1>1, DominantIsArn
  <2>2. role \in [Identities -> Arns \cup {Nobody}]
    BY DEF CurInv, CurTypeOK
  <2>3. role' = [i \in Identities |->
          IF i \in seen /\ Dominant(r.lines, r.owner, i) # r.saw[i]
          THEN Dominant(r.lines, r.owner, i) ELSE role[i]]
    BY DEF CommitSync
  <2> HIDE DEF r, seen
  <2> QED BY <2>1, <2>2, <2>3
<1>4. sync' = [sync EXCEPT ![s] = NoRun] /\ unraced' = [q \in Syncs |-> q = s]
      /\ UNCHANGED <<bill, owner, revisions>>
  BY DEF CommitSync, world
<1>5. CurTypeOK'
  <2>1. sync' \in [Syncs -> SyncState]
    BY <1>4, SyncTypes, NoRunType DEF CurInv
  <2>2. unraced' \in [Syncs -> BOOLEAN]
    BY <1>4
  <2> QED BY <2>1, <2>2, <1>2, <1>3, <1>4 DEF CurInv, CurTypeOK, SyncState, Line
<1>6. Overtaken'
  <2> SUFFICES ASSUME NEW q \in Syncs, sync'[q].step \in {"deleting", "flushing"}, unraced'[q]
               PROVE  FALSE
    BY DEF Overtaken
  <2>1. q = s
    BY <1>4
  <2> QED BY <2>1, <1>4, SyncTypes DEF CurInv, NoRun
<1> QED BY <1>5, <1>6 DEF CurInv

\* Restate, MapKey, SetRole: what CUR says, the owners of keys and the roles of
\* identities change under the runs.
LEMMA WorldKeeps ==
  ASSUME CurAssumption, CurInv, Restate \/ MapKey \/ SetRole PROVE CurInv'
<1>1. UNCHANGED <<spend, sync, unraced>> /\ revisions' \in 0..MaxCur
  BY DEF Restate, MapKey, SetRole, Revise, world, tables, CurInv, CurTypeOK, CurAssumption
<1>2. bill' \in [Months -> [Arns -> 0..MaxBill]]
  <2>1. bill \in [Months -> [Arns -> 0..MaxBill]]
    BY DEF CurInv, CurTypeOK
  <2>2. CASE Restate
    <3>1. PICK m \in Months, a \in Arns, v \in 0..MaxBill : bill' = [bill EXCEPT ![m][a] = v]
      BY <2>2 DEF Restate
    <3> QED BY <2>1, <3>1
  <2>3. CASE MapKey \/ SetRole
    BY <2>1, <2>3 DEF MapKey, SetRole, world
  <2> QED BY <2>2, <2>3
<1>3. owner' \in [Keys -> Owners \cup {Nobody}]
  BY DEF Restate, MapKey, SetRole, world, CurInv, CurTypeOK
<1>4. role' \in [Identities -> Arns \cup {Nobody}]
  BY DEF Restate, MapKey, SetRole, tables, CurInv, CurTypeOK
<1>5. CurTypeOK'
  BY <1>1, <1>2, <1>3, <1>4 DEF CurInv, CurTypeOK
<1>6. Overtaken'
  BY <1>1 DEF CurInv, Overtaken, MonthRows
<1> QED BY <1>5, <1>6 DEF CurInv

LEMMA CurSteps ==
  ASSUME CurAssumption, CurInv, [CurNext]_curVars PROVE CurInv'
<1>1. CASE UNCHANGED curVars
  BY <1>1 DEF curVars, CurInv, CurTypeOK, Overtaken, MonthRows
<1>2. CASE Restate \/ MapKey \/ SetRole
  BY <1>2, WorldKeeps
<1>3. CASE \E s \in Syncs : Query(s) \/ SyncGoesOn(s) \/ FailRun(s)
  BY <1>3, QueryKeeps, StartDeleteKeeps, LoopKeeps, CommitSyncKeeps, RunEnds DEF SyncGoesOn
<1> QED BY <1>1, <1>2, <1>3 DEF CurNext

LEMMA CurInvariant == ASSUME CurAssumption PROVE CurSpec => []CurInv
<1>1. CurInit => CurInv
  BY CurStarts
<1>2. CurInv /\ [CurNext]_curVars => CurInv'
  BY CurSteps
<1> QED BY <1>1, <1>2, PTL DEF CurSpec

\* The types of the tables, the bill and the runs: whatever the lines of a
\* batch are, their amounts add up and one role was billed the most.
THEOREM CurTypeCorrect == ASSUME CurAssumption PROVE CurSpec => []CurTypeOK
<1>1. CurInv => CurTypeOK
  BY DEF CurInv
<1> QED BY <1>1, CurInvariant, PTL

\* Nothing adds up to nothing.
LEMMA TotalOfNothing == Total({}) = 0
BY SumOfNothing DEF Total, SumFunction, Sum

\* What a step of the sync does to the month.
LEMMA CommitIsExact ==
  ASSUME CurAssumption, CurInv, NEW s \in Syncs, CommitSync(s), unraced[s], NEW i \in Identities
  PROVE  spend'[<<"current", i>>] =
            Total(Of(sync[s].lines, sync[s].owner, "current", i))
<1> DEFINE r == sync[s]
           row == <<"current", i>>
<1>1. row \in Rows /\ row[1] = "current" /\ row[2] = i
  BY DEF Rows, Months
<1>2. spend'[row] =
          IF row \in Batch(r.lines, r.owner) THEN Total(Of(r.lines, r.owner, row[1], row[2]))
          ELSE IF row \in r.gone THEN 0 ELSE spend[row]
  BY <1>1 DEF CommitSync
<1>3. CASE row \in Batch(r.lines, r.owner)
  BY <1>1, <1>2, <1>3
<1>4. CASE row \notin Batch(r.lines, r.owner)
  <2>1. Of(r.lines, r.owner, "current", i) = {}
    BY <1>1, <1>4 DEF Batch
  <2>2. r.gone = MonthRows
    BY DEF CurInv, Overtaken, CommitSync
  <2>3. row \notin MonthRows => spend[row] = 0
    <3>1. spend[row] \in Nat
      BY <1>1 DEF CurInv, CurTypeOK
    <3> QED BY <1>1, <3>1 DEF MonthRows
  <2>4. spend'[row] = 0
    BY <1>2, <1>4, <2>2, <2>3
  <2> QED BY <2>1, <2>4, TotalOfNothing
<1> QED BY <1>3, <1>4

\* RunIsExact: a run that no other has overtaken leaves in the month exactly
\* what its lines say, for any bills, keys, page and number of runs: the rows
\* its DELETE removes are all there are, and what it writes adds up its lines.
THEOREM RunsLeaveTheirLines == ASSUME CurAssumption PROVE CurSpec => RunIsExact
<1> DEFINE Exact == \A s \in Syncs :
        sync[s].step = "flushing" /\ unraced[s] /\ spend' # spend /\ sync'[s].step = "idle"
        => \A i \in Identities : spend'[<<"current", i>>] =
              Total(Of(sync[s].lines, sync[s].owner, "current", i))
<1>1. ASSUME CurInv, [CurNext]_curVars PROVE [Exact]_curVars
  <2> SUFFICES ASSUME NEW s \in Syncs, sync[s].step = "flushing", unraced[s],
                      spend' # spend, sync'[s].step = "idle", NEW i \in Identities
               PROVE  spend'[<<"current", i>>] =
                         Total(Of(sync[s].lines, sync[s].owner, "current", i))
    BY Zenon
  <2>1. PICK q \in Syncs : CommitSync(q)
    BY <1>1 DEF CurNext, curVars, SyncGoesOn, Query, StartDelete, Loop, Collide, FailRun,
         Restate, MapKey, SetRole, tables
  <2>2. q = s
    BY <2>1, SyncTypes, <1>1 DEF CommitSync, CurInv
  <2> QED BY <1>1, <2>1, <2>2, CommitIsExact
<1>2. CurInv /\ [CurNext]_curVars => [Exact]_curVars
  BY <1>1
<1> HIDE DEF Exact
<1>3. CurSpec => [][Exact]_curVars
  BY <1>2, CurInvariant, PTL DEF CurSpec
<1> QED BY <1>3 DEF Exact, RunIsExact

-----------------------------------------------------------------------------
(* GovernanceDrift: a sweep during which nothing changed knows the truth    *)
(* about the roles and the document it has read, and has found the drift of *)
(* those it has met; what its DELETE sees is then the whole table.          *)

Drifts(p) == Verdict(p, p \in governed, attached, inPolicy) = "drift"

Knows(s) ==
    LET w == sweep[s] IN
    /\ w.governed = governed
    /\ w.on = w.known \cap attached
    /\ w.docRead => w.doc = inPolicy
    /\ w.found = {<<p, Direction(p \in governed), s>> : p \in {q \in People \ w.todo : Drifts(q)}}
    /\ w.step = "replacing" => w.todo = {} /\ w.view = rows

Calm == \A s \in Sweeps : sweep[s].step # "idle" /\ sweep[s].calm => Knows(s)

DriftInv == DriftTypeOK /\ Calm

SweepState ==
    [step : {"idle", "reading", "replacing"}, todo : SUBSET People, governed : SUBSET People,
     known : SUBSET AllRoles, on : SUBSET AllRoles, doc : SUBSET People, docRead : BOOLEAN,
     found : SUBSET Row, view : SUBSET Row, calm : BOOLEAN]

LEMMA NoSweepType == NoSweep \in SweepState /\ NoSweep.step = "idle"
BY DEF NoSweep, SweepState

\* What the state of a sweep is.
LEMMA SweepTypes ==
  ASSUME DriftTypeOK, NEW s \in Sweeps
  PROVE  sweep \in [Sweeps -> SweepState] /\ sweep[s] \in SweepState
BY DEF DriftTypeOK, SweepState

LEMMA DriftStarts == ASSUME DriftAssumption PROVE DriftInit => DriftInv
<1> SUFFICES ASSUME DriftInit PROVE DriftInv
  OBVIOUS
<1>1. sweep \in [Sweeps -> SweepState] /\ \A s \in Sweeps : sweep[s].step = "idle"
  BY NoSweepType DEF DriftInit
<1>2. DriftTypeOK
  BY <1>1 DEF DriftInit, DriftTypeOK, SweepState, DriftAssumption
<1> QED BY <1>1, <1>2 DEF DriftInv, Calm

\* A step of one sweep that changes nothing else it or another sweep knows of.
LEMMA SweepMoves ==
  ASSUME DriftInv, NEW s \in Sweeps, NEW w \in SweepState, Goes(s, w),
         UNCHANGED <<truth, rows, checked>>, drifts' \in 0..MaxDrift,
         w.step # "idle" /\ w.calm => Knows(s)'
  PROVE  DriftInv'
<1>1. sweep' = [sweep EXCEPT ![s] = w]
  BY DEF Goes
<1>2. DriftTypeOK'
  <2>1. sweep' \in [Sweeps -> SweepState]
    BY <1>1, SweepTypes DEF DriftInv
  <2> QED BY <2>1 DEF DriftInv, DriftTypeOK, truth, SweepState
<1>3. Calm'
  <2> SUFFICES ASSUME NEW q \in Sweeps, sweep'[q].step # "idle", sweep'[q].calm
               PROVE  Knows(q)'
    BY DEF Calm
  <2>1. CASE q = s
    BY <2>1, <1>1, SweepTypes DEF DriftInv
  <2>2. CASE q # s
    <3>1. sweep'[q] = sweep[q]
      BY <2>2, <1>1, SweepTypes DEF DriftInv
    <3>2. Knows(q)
      BY <3>1 DEF DriftInv, Calm
    <3> QED BY <3>1, <3>2 DEF Knows, truth, Drifts, Verdict
  <2> QED BY <2>1, <2>2
<1> QED BY <1>2, <1>3 DEF DriftInv

LEMMA BeginSweepKeeps ==
  ASSUME DriftAssumption, DriftInv, NEW s \in Sweeps, BeginSweep(s) PROVE DriftInv'
<1> DEFINE w == [NoSweep EXCEPT !.step = "reading", !.todo = People, !.governed = governed]
<1>1. Goes(s, w) /\ UNCHANGED <<truth, rows, checked>>
  BY DEF BeginSweep
<1>2. w \in SweepState
  BY NoSweepType DEF DriftInv, DriftTypeOK, NoSweep, SweepState
<1>3. drifts' \in 0..MaxDrift
  BY DEF BeginSweep, Drift, DriftInv, DriftTypeOK, DriftAssumption
<1>4. Knows(s)'
  <2>1. sweep'[s] = w
    BY <1>1, SweepTypes DEF Goes, DriftInv
  <2> QED BY <1>1, <2>1 DEF Knows, NoSweep, truth
<1> HIDE DEF w
<1> QED BY <1>1, <1>2, <1>3, <1>4, SweepMoves

\* What a principal of an attachable role gets, who knows of the role and, when
\* it matters, of the document.
LEMMA VerdictIsTrue ==
  ASSUME DriftAssumption, NEW p \in People, NEW flag, NEW on, NEW doc,
         Kind[p] = "iam" => (RoleOf[p] \in on <=> RoleOf[p] \in attached),
         Kind[p] = "iam" /\ ~flag /\ RoleOf[p] \in on => doc = inPolicy
  PROVE  Verdict(p, flag, on, doc) = "drift" <=> Verdict(p, flag, attached, inPolicy) = "drift"
<1>1. Kind[p] \in {"iam", "idc", "none"}
  BY DEF DriftAssumption
<1>2. CASE Kind[p] = "idc"
  BY <1>2 DEF Verdict
<1>3. CASE Kind[p] = "none"
  BY <1>3 DEF Verdict
<1>4. CASE Kind[p] = "iam"
  BY <1>4 DEF Verdict
<1> QED BY <1>1, <1>2, <1>3, <1>4

LEMMA VerifyNextKeeps ==
  ASSUME DriftAssumption, DriftInv, NEW s \in Sweeps, VerifyNext(s) PROVE DriftInv'
<1> DEFINE w == sweep[s]
<1>1. PICK p \in w.todo :
        LET looks == Kind[p] = "iam"
            on == IF looks /\ RoleOf[p] \notin w.known
                  THEN w.on \cup ({RoleOf[p]} \cap attached) ELSE w.on
            asks == looks /\ Asks(s, p, on)
            doc == IF asks /\ ~w.docRead THEN inPolicy ELSE w.doc
            flag == p \in w.governed
            drifted == Verdict(p, flag, on, doc) = "drift"
        IN  Goes(s, [w EXCEPT
               !.todo = @ \ {p},
               !.known = IF looks THEN @ \cup {RoleOf[p]} ELSE @,
               !.on = on, !.doc = doc, !.docRead = @ \/ asks,
               !.found = IF drifted THEN @ \cup {<<p, Direction(flag), s>>} ELSE @])
  BY DEF VerifyNext
<1> DEFINE looks == Kind[p] = "iam"
           on == IF looks /\ RoleOf[p] \notin w.known
                 THEN w.on \cup ({RoleOf[p]} \cap attached) ELSE w.on
           asks == looks /\ Asks(s, p, on)
           doc == IF asks /\ ~w.docRead THEN inPolicy ELSE w.doc
           flag == p \in w.governed
           drifted == Verdict(p, flag, on, doc) = "drift"
           known == IF looks THEN w.known \cup {RoleOf[p]} ELSE w.known
           found == IF drifted THEN w.found \cup {<<p, Direction(flag), s>>} ELSE w.found
<1>2. w \in SweepState /\ p \in People
  BY SweepTypes DEF DriftInv, SweepState
<1>3. PICK read \in BOOLEAN : read = (w.docRead \/ asks)
  BY <1>2 DEF SweepState
<1> DEFINE v == [w EXCEPT !.todo = @ \ {p}, !.known = known, !.on = on, !.doc = doc,
                          !.docRead = read, !.found = found]
<1>4. Goes(s, v)
  BY <1>1, <1>3
<1>5. UNCHANGED <<truth, rows, checked, drifts>> /\ w.step = "reading"
  BY DEF VerifyNext
<1>6. /\ known \in SUBSET AllRoles /\ on \in SUBSET AllRoles /\ doc \in SUBSET People
      /\ found \in SUBSET Row
  <2>1. RoleOf[p] \in AllRoles /\ <<p, Direction(flag), s>> \in Row
    BY <1>2 DEF DriftAssumption, Direction, Directions, Row
  <2>2. inPolicy \in SUBSET People
    BY DEF DriftInv, DriftTypeOK
  <2> QED BY <1>2, <2>1, <2>2 DEF SweepState
<1>7. v \in SweepState
  <2> HIDE DEF known, on, doc, found
  <2> QED BY <1>2, <1>6 DEF SweepState
<1>8. v.calm => Knows(s)'
  <2> SUFFICES ASSUME w.calm PROVE Knows(s)'
    BY <1>2 DEF SweepState
  <2>1. Knows(s)
    BY <1>5 DEF DriftInv, Calm
  <2>2. sweep'[s] = v
    BY <1>4, SweepTypes DEF Goes, DriftInv
  <2>3. w.governed = governed /\ w.on = w.known \cap attached
        /\ (w.docRead => w.doc = inPolicy)
    BY <2>1 DEF Knows
  <2>4. on = known \cap attached
    BY <2>3
  <2>5. read => doc = inPolicy
    BY <1>3, <2>3
  <2>6. drifted <=> Drifts(p)
    <3>1. looks => (RoleOf[p] \in on <=> RoleOf[p] \in attached)
      BY <2>4
    <3>2. looks /\ ~flag /\ RoleOf[p] \in on => doc = inPolicy
      BY <2>3 DEF Asks
    <3>3. drifted <=> Verdict(p, flag, attached, inPolicy) = "drift"
      <4> HIDE DEF on, doc
      <4> QED BY <1>2, <3>1, <3>2, VerdictIsTrue
    <3> QED BY <3>3, <2>3 DEF Drifts
  <2> DEFINE D(T) == {<<q, Direction(q \in governed), s>> : q \in {x \in People \ T : Drifts(x)}}
  <2>7. w.found = D(w.todo)
    BY <2>1 DEF Knows
  <2>8. found = D(w.todo \ {p})
    <3>1. D(w.todo \ {p}) = D(w.todo) \cup (IF Drifts(p)
                             THEN {<<p, Direction(p \in governed), s>>} ELSE {})
      BY <1>2
    <3> HIDE DEF D, drifted
    <3> QED BY <3>1, <2>3, <2>6, <2>7
  <2>10. /\ v.governed = governed /\ v.on = v.known \cap attached
         /\ (v.docRead => v.doc = inPolicy) /\ v.step = "reading"
         /\ v.todo = w.todo \ {p} /\ v.found = found
    <3> HIDE DEF known, on, doc, found
    <3> QED BY <1>2, <1>5, <2>3, <2>4, <2>5 DEF SweepState
  <2>11. v.found = {<<q, Direction(q \in governed), s>> : q \in {x \in People \ v.todo : Drifts(x)}}
    BY <2>8, <2>10
  <2> HIDE DEF v, D, found
  <2> QED BY <1>5, <2>2, <2>10, <2>11 DEF Knows, truth, Drifts, Verdict
<1>9. drifts' \in 0..MaxDrift
  BY <1>5 DEF DriftInv, DriftTypeOK
<1> HIDE DEF v
<1> QED BY <1>4, <1>5, <1>7, <1>8, <1>9, SweepMoves

\* Unreadable, FailSweep: an unread role ends the calm, a failure the sweep.
LEMMA UnreadableKeeps ==
  ASSUME DriftAssumption, DriftInv, NEW s \in Sweeps, Unreadable(s) \/ FailSweep(s)
  PROVE  DriftInv'
<1>1. UNCHANGED <<truth, rows, checked>> /\ drifts' \in 0..MaxDrift
  <2>1. UNCHANGED <<truth, rows, checked>> /\ Drift
    BY DEF Unreadable, FailSweep
  <2> QED BY <2>1 DEF Drift, DriftInv, DriftTypeOK, DriftAssumption
<1>2. CASE Unreadable(s)
  <2>1. PICK p \in sweep[s].todo : Goes(s, [sweep[s] EXCEPT !.todo = @ \ {p}, !.calm = FALSE])
    BY <1>2 DEF Unreadable
  <2> DEFINE w == [sweep[s] EXCEPT !.todo = @ \ {p}, !.calm = FALSE]
  <2>2. w \in SweepState /\ ~w.calm
    BY SweepTypes DEF DriftInv, SweepState
  <2> HIDE DEF w
  <2> QED BY <1>1, <2>1, <2>2, SweepMoves DEF w
<1>3. CASE FailSweep(s)
  BY <1>1, <1>3, NoSweepType, SweepMoves DEF FailSweep
<1> QED BY <1>2, <1>3

LEMMA ReplaceRowsKeeps ==
  ASSUME DriftAssumption, DriftInv, NEW s \in Sweeps, ReplaceRows(s) PROVE DriftInv'
<1> DEFINE w == [sweep[s] EXCEPT !.step = "replacing", !.view = rows]
<1>1. /\ Goes(s, w) /\ UNCHANGED <<truth, rows, checked, drifts>>
      /\ sweep[s].step = "reading" /\ sweep[s].todo = {}
  BY DEF ReplaceRows
<1>2. w \in SweepState /\ w.view = rows /\ w.todo = sweep[s].todo /\ w.calm = sweep[s].calm
      /\ w.governed = sweep[s].governed /\ w.known = sweep[s].known /\ w.on = sweep[s].on
      /\ w.docRead = sweep[s].docRead /\ w.doc = sweep[s].doc /\ w.found = sweep[s].found
  BY SweepTypes DEF DriftInv, DriftTypeOK, SweepState
<1>3. w.calm => Knows(s)'
  <2> SUFFICES ASSUME w.calm PROVE Knows(s)'
    OBVIOUS
  <2>1. Knows(s)
    BY <1>1, <1>2 DEF DriftInv, Calm
  <2>2. sweep'[s] = w
    BY <1>1, SweepTypes DEF Goes, DriftInv
  <2> HIDE DEF w
  <2> QED BY <1>1, <1>2, <2>1, <2>2 DEF Knows, truth, Drifts, Verdict
<1>4. drifts' \in 0..MaxDrift
  BY <1>1 DEF DriftInv, DriftTypeOK
<1> HIDE DEF w
<1> QED BY <1>1, <1>2, <1>3, <1>4, SweepMoves

LEMMA CommitSweepKeeps ==
  ASSUME DriftAssumption, DriftInv, NEW s \in Sweeps, CommitSweep(s) PROVE DriftInv'
<1>1. /\ rows' = (rows \ CleanSlate(s)) \cup sweep[s].found /\ checked' = s
      /\ UNCHANGED <<governed, attached, inPolicy, wired, drifts>>
  BY DEF CommitSweep, truth
<1>2. ASSUME NEW q \in Sweeps
      PROVE  /\ sweep'[q] \in SweepState
             /\ sweep'[q].step # "idle" => ~sweep'[q].calm
  <2>1. CASE q = s
    <3>1. sweep'[q] = NoSweep
      BY <2>1 DEF CommitSweep
    <3> QED BY <3>1, NoSweepType
  <2>2. CASE q # s
    <3>1. sweep'[q] = [sweep[q] EXCEPT !.view = @ \ sweep[s].view, !.calm = FALSE]
      BY <2>2 DEF CommitSweep
    <3> DEFINE view == sweep[q].view \ sweep[s].view
    <3>2. view \in SUBSET Row /\ sweep[q] \in SweepState
      BY SweepTypes DEF DriftInv, SweepState
    <3>3. sweep'[q] = [sweep[q] EXCEPT !.view = view, !.calm = FALSE]
      BY <3>1
    <3> HIDE DEF view
    <3> QED BY <3>2, <3>3 DEF SweepState
  <2> QED BY <2>1, <2>2
<1>3. DriftTypeOK'
  <2>1. sweep' \in [Sweeps -> SweepState]
    BY <1>2 DEF CommitSweep
  <2>2. rows' \subseteq Row
    BY <1>1, SweepTypes DEF DriftInv, DriftTypeOK, SweepState
  <2> QED BY <1>1, <2>1, <2>2 DEF DriftInv, DriftTypeOK, SweepState
<1> QED BY <1>2, <1>3 DEF DriftInv, Calm

LEMMA DriftWorldKeeps == ASSUME DriftAssumption, DriftInv, World PROVE DriftInv'
<1>1. UNCHANGED <<rows, checked>> /\ drifts' \in 0..MaxDrift
  BY DEF World, Drift, DriftInv, DriftTypeOK, DriftAssumption
<1>2. ASSUME NEW q \in Sweeps
      PROVE  sweep'[q] \in SweepState /\ (sweep'[q].step # "idle" => ~sweep'[q].calm)
  <2>1. PICK b \in BOOLEAN : b = (sweep[q].step = "idle")
    OBVIOUS
  <2>2. sweep'[q] = [sweep[q] EXCEPT !.calm = b]
    BY <2>1 DEF World
  <2> QED BY <2>1, <2>2, SweepTypes DEF DriftInv, SweepState
<1>3. governed' \subseteq People /\ attached' \subseteq AllRoles /\ inPolicy' \subseteq People
      /\ wired' \subseteq People
  BY DEF World, DriftInv, DriftTypeOK
<1>4. sweep' \in [Sweeps -> SweepState]
  BY <1>2 DEF World
<1>5. DriftTypeOK'
  BY <1>1, <1>3, <1>4 DEF DriftInv, DriftTypeOK, SweepState
<1> QED BY <1>2, <1>5 DEF DriftInv, Calm

LEMMA DriftSteps ==
  ASSUME DriftAssumption, DriftInv, [DriftNext]_driftVars PROVE DriftInv'
<1>1. CASE UNCHANGED driftVars
  BY <1>1 DEF driftVars, DriftInv, DriftTypeOK, Calm, Knows, Drifts, Verdict
<1>2. CASE World
  BY <1>2, DriftWorldKeeps
<1>3. CASE \E s \in Sweeps : BeginSweep(s) \/ SweepGoesOn(s) \/ Unreadable(s) \/ FailSweep(s)
  BY <1>3, BeginSweepKeeps, VerifyNextKeeps, ReplaceRowsKeeps, CommitSweepKeeps,
     UnreadableKeeps DEF SweepGoesOn
<1> QED BY <1>1, <1>2, <1>3 DEF DriftNext

LEMMA DriftInvariant == ASSUME DriftAssumption PROVE DriftSpec => []DriftInv
<1>1. DriftInit => DriftInv
  BY DriftStarts
<1>2. DriftInv /\ [DriftNext]_driftVars => DriftInv'
  BY DriftSteps
<1> QED BY <1>1, <1>2, PTL DEF DriftSpec

\* The types of the flags, the findings and the sweeps.
THEOREM DriftTypeCorrect == ASSUME DriftAssumption PROVE DriftSpec => []DriftTypeOK
<1>1. DriftInv => DriftTypeOK
  BY DEF DriftInv
<1> QED BY <1>1, DriftInvariant, PTL

\* Drifted, by the verdict.
LEMMA DriftedByVerdict ==
  ASSUME DriftAssumption, DriftTypeOK
  PROVE  Drifted = {<<p, Direction(p \in governed)>> : p \in {q \in People : Drifts(q)}}
<1> DEFINE Flag == {q \in governed : Kind[q] = "iam" /\ RoleOf[q] \notin attached}
           Deny == {q \in inPolicy \ governed : Kind[q] = "iam" /\ RoleOf[q] \in attached}
<1>1. \A p \in People : Drifts(p) <=> p \in Flag \cup Deny
  <2> TAKE p \in People
  <2>1. Kind[p] \in {"iam", "idc", "none"}
    BY DEF DriftAssumption
  <2> QED BY <2>1 DEF Drifts, Verdict
<1>2. Flag \subseteq People /\ Deny \subseteq People
  BY DEF DriftTypeOK
<1>3. \A p \in Flag : Direction(p \in governed) = "governed_no_deny"
  BY DEF Direction
<1>4. \A p \in Deny : Direction(p \in governed) = "deny_no_governed"
  BY DEF Direction
<1>5. Drifted = {<<p, "governed_no_deny">> : p \in Flag} \cup {<<p, "deny_no_governed">> : p \in Deny}
  BY DEF Drifted
<1> HIDE DEF Flag, Deny
<1> QED BY <1>1, <1>2, <1>3, <1>4, <1>5

\* A calm sweep's commit leaves the drift there is, once each.
LEMMA CalmCommit ==
  ASSUME DriftAssumption, DriftInv, NEW s \in Sweeps, CommitSweep(s), sweep[s].calm
  PROVE  Reported' = Drifted' /\ Cardinality(rows') = Cardinality(Drifted')
<1> DEFINE Out == {q \in People : Drifts(q)}
           Found(p) == <<p, Direction(p \in governed), s>>
<1>1. Knows(s) /\ sweep[s].step = "replacing"
  BY DEF DriftInv, Calm, CommitSweep
<1>2. rows' = {Found(p) : p \in Out}
  <2>1. sweep[s].todo = {} /\ sweep[s].view = rows
    BY <1>1 DEF Knows
  <2>2. sweep[s].found = {Found(p) : p \in Out}
    BY <1>1, <2>1 DEF Knows
  <2> QED BY <2>1, <2>2 DEF CommitSweep, CleanSlate
<1>3. Drifted' = Drifted
  BY DEF CommitSweep, truth, Drifted
<1>4. Drifted = {<<p, Direction(p \in governed)>> : p \in Out}
  BY DriftedByVerdict DEF DriftInv
<1>5. Reported' = Drifted'
  <2>1. Reported' = {<<row[1], row[2]>> : row \in rows'}
    BY DEF Reported
  <2>2. Reported' = {<<Found(p)[1], Found(p)[2]>> : p \in Out}
    BY <1>2, <2>1
  <2> QED BY <1>3, <1>4, <2>2
<1>6. Cardinality(rows') = Cardinality(Drifted')
  <2> DEFINE f == [row \in rows' |-> <<row[1], row[2]>>]
  <2>1. f \in Bijection(rows', Drifted)
    <3>1. \A row \in rows' : f[row] \in Drifted
      <4> TAKE row \in rows'
      <4>1. PICK p \in Out : row = Found(p)
        BY <1>2
      <4>2. f[row] = <<p, Direction(p \in governed)>>
        BY <4>1
      <4> HIDE DEF f, Out
      <4> QED BY <4>2, <1>4
    <3>2. \A d \in Drifted : \E row \in rows' : f[row] = d
      <4> TAKE d \in Drifted
      <4>1. PICK p \in Out : d = <<p, Direction(p \in governed)>>
        BY <1>4
      <4>2. Found(p) \in rows' /\ f[Found(p)] = d
        BY <4>1, <1>2
      <4> HIDE DEF f
      <4> QED BY <4>2
    <3>3. \A x, y \in rows' : f[x] = f[y] => x = y
      <4> TAKE x, y \in rows'
      <4>1. PICK p \in Out, q \in Out : x = Found(p) /\ y = Found(q)
        BY <1>2
      <4>2. f[x] = <<p, Direction(p \in governed)>> /\ f[y] = <<q, Direction(q \in governed)>>
        BY <4>1
      <4> HIDE DEF f, Out
      <4> QED BY <4>1, <4>2
    <3>4. f \in [rows' -> Drifted]
      BY <3>1
    <3> HIDE DEF f, Out
    <3>5. f \in Injection(rows', Drifted)
      BY <3>3, <3>4 DEF Injection, IsInjective
    <3>6. f \in Surjection(rows', Drifted)
      BY <3>2, <3>4 DEF Surjection
    <3> QED BY <3>5, <3>6 DEF Bijection
  <2>2. IsFiniteSet(rows')
    <3> DEFINE g == [p \in Out |-> Found(p)]
    <3>1. g \in Surjection(Out, rows')
      <4>1. g \in [Out -> rows']
        BY <1>2
      <4>2. \A row \in rows' : \E p \in Out : g[p] = row
        BY <1>2
      <4> QED BY <4>1, <4>2 DEF Surjection
    <3>2. IsFiniteSet(Out)
      BY FS_Subset DEF DriftAssumption
    <3> HIDE DEF g, Out
    <3> QED BY <3>1, <3>2, FS_Surjection
  <2> HIDE DEF f, Out
  <2>3. ExistsBijection(rows', Drifted)
    BY <2>1 DEF ExistsBijection
  <2> QED BY <1>3, <2>2, <2>3, FS_Bijection
<1> QED BY <1>5, <1>6

\* SweepIsExact: a sweep during which nothing changed, that could read all and
\* that no other overlapped leaves those the flag and IAM disagree about and
\* nobody else, once each, for any people, roles, attachments and sweeps.
THEOREM SweepsAreExact == ASSUME DriftAssumption PROVE DriftSpec => SweepIsExact
<1> DEFINE Exact == \A s \in Sweeps :
        sweep[s].step = "replacing" /\ sweep[s].calm /\ sweep'[s].step = "idle" /\ drifts' = drifts
        => Reported' = Drifted /\ Cardinality(rows') = Cardinality(Drifted)
<1>1. ASSUME DriftInv, [DriftNext]_driftVars PROVE [Exact]_driftVars
  <2> SUFFICES ASSUME NEW s \in Sweeps, sweep[s].step = "replacing", sweep[s].calm,
                      sweep'[s].step = "idle", drifts' = drifts
               PROVE  Reported' = Drifted /\ Cardinality(rows') = Cardinality(Drifted)
    BY Zenon
  <2>1. CommitSweep(s)
    <3>1. drifts \in Nat
      BY <1>1 DEF DriftInv, DriftTypeOK
    <3>2. ~World /\ \A q \in Sweeps : ~Unreadable(q) /\ ~FailSweep(q)
      <4>1. ~Drift
        BY <3>1 DEF Drift
      <4> QED BY <4>1 DEF World, Unreadable, FailSweep
    <3>3. PICK q \in Sweeps : BeginSweep(q) \/ VerifyNext(q) \/ ReplaceRows(q) \/ CommitSweep(q)
      BY <1>1, <3>2 DEF DriftNext, SweepGoesOn, driftVars
    <3>4. sweep \in [Sweeps -> SweepState]
      BY <1>1, SweepTypes DEF DriftInv
    <3>5. CASE CommitSweep(q)
      BY <3>5, <3>4 DEF CommitSweep, SweepState
    <3>6. CASE BeginSweep(q) \/ VerifyNext(q) \/ ReplaceRows(q)
      <4>1. q # s
        BY <3>6 DEF BeginSweep, VerifyNext, ReplaceRows
      <4>2. PICK w : sweep' = [sweep EXCEPT ![q] = w]
        BY <3>6 DEF BeginSweep, VerifyNext, ReplaceRows, Goes
      <4> QED BY <4>1, <4>2
    <3> QED BY <3>3, <3>5, <3>6
  <2>2. Drifted' = Drifted
    BY <2>1 DEF CommitSweep, truth, Drifted
  <2> QED BY <1>1, <2>1, <2>2, CalmCommit
<1>2. DriftInv /\ [DriftNext]_driftVars => [Exact]_driftVars
  BY <1>1
<1> HIDE DEF Exact
<1>3. DriftSpec => [][Exact]_driftVars
  BY <1>2, DriftInvariant, PTL DEF DriftSpec
<1> QED BY <1>3 DEF Exact, SweepIsExact

-----------------------------------------------------------------------------
(* MCSpend: what is proved of the parts is true of them side by side.       *)

\* Seen alone, each part does what its own specification says.
LEMMA SpendParts == SpendSpec => Spec /\ VersionsSpec /\ CurSpec /\ DriftSpec
<1>1. SpendInit => Init /\ VersionsInit /\ CurInit /\ DriftInit
  BY DEF SpendInit
<1>2. [SpendNext]_spendVars =>
         [Next]_vars /\ [VersionsNext]_versionsVars /\ [CurNext]_curVars /\ [DriftNext]_driftVars
  BY Zenon DEF SpendNext, spendVars
<1> QED BY <1>1, <1>2, PTL DEF SpendSpec, Spec, VersionsSpec, CurSpec, DriftSpec

\* TypesOK: the four parts keep their types side by side.
THEOREM SpendTypeCorrect == SpendSpec => []TypesOK
<1>1. Spec => []TypeOK
  BY BudgetTypeCorrect, SpendAssumption
<1>2. VersionsSpec => []VersionsTypeOK
  BY VersionsTypeCorrect, SpendAssumption
<1>3. CurSpec => []CurTypeOK
  BY CurTypeCorrect, SpendAssumption
<1>4. DriftSpec => []DriftTypeOK
  BY DriftTypeCorrect, SpendAssumption
<1>5. TypeOK /\ VersionsTypeOK /\ CurTypeOK /\ DriftTypeOK => TypesOK
  BY DEF TypesOK
<1> QED BY <1>1, <1>2, <1>3, <1>4, <1>5, SpendParts, PTL

\* RunsAreExact: what a run or a sweep that nothing has overtaken puts in the
\* place of the rows it deletes is exact.
THEOREM RunsStayExact == SpendSpec => RunsAreExact
<1>1. CurSpec => RunIsExact
  BY RunsLeaveTheirLines, SpendAssumption
<1>2. DriftSpec => SweepIsExact
  BY SweepsAreExact, SpendAssumption
<1> QED BY <1>1, <1>2, SpendParts DEF RunsAreExact
=============================================================================
