-------------------------- MODULE EnforcementProofs --------------------------
(***************************************************************************)
(* Type correctness of Enforcement, with the row locks it rests on, and    *)
(* two safety properties, for any number of principals, ticks and requests *)
(* and any budget.                                                         *)
(***************************************************************************)
EXTENDS Enforcement, DenyDecisionProofs

(* The inductive invariant.  A commit writes Merge(loaded, after, current)  *)
(* into every row its transaction has updated; that this is a row at all    *)
(* needs the three to exist, which the locks ensure.                        *)

\* A run holds locks only while its commit is under way, and only of rows it
\* has read and keeps.
RunShape(f) ==
    /\ f.pc # "write" => f.flushed = {}
    /\ f.pc = "write" =>
          \A u \in Users : f.rows[u] = Gone <=> f.after[u] = Gone
    /\ \A u \in f.flushed : f.rows[u] # Gone

\* A request under way has loaded a row, and goes to IAM with its role only
\* when there is one of the right kind.
ReqShape(q) ==
    /\ q.flushed => q.pc # "idle"
    /\ q.pc # "idle" => q.row # Gone
    /\ q.pc = "attach" => q.row.role \in Roles
    /\ q.pc = "wire"   => q.row.role \in IdcRoles

\* A locked row exists and has one holder.
Locks ==
    /\ \A p \in Runners : \A u \in run[p].flushed : users[u] # Gone
    /\ \A r \in Requests : req[r].flushed => users[req[r].user] # Gone
    /\ \A p, q \in Runners : p # q => run[p].flushed \cap run[q].flushed = {}
    /\ \A r, s \in Requests :
          (r # s /\ req[r].flushed /\ req[s].flushed) => req[r].user # req[s].user
    /\ \A r \in Requests, p \in Runners :
          req[r].flushed => req[r].user \notin run[p].flushed

IInv == /\ TypeOK
        /\ \A p \in Runners : RunShape(run[p])
        /\ \A r \in Requests : ReqShape(req[r])
        /\ Locks

-----------------------------------------------------------------------------
(* Lemmas on the operators *)

\* An UPDATE of some columns leaves a row, with role and type from the session
\* that changed them.
LEMMA MergeType ==
    ASSUME NEW loaded \in Row, NEW after \in Row, NEW current \in Row
    PROVE  /\ Merge(loaded, after, current) \in Row
           /\ Merge(loaded, after, current).role =
                 IF after.role # loaded.role THEN after.role ELSE current.role
           /\ Merge(loaded, after, current).idc =
                 IF after.idc # loaded.idc THEN after.idc ELSE current.idc
BY DEF Merge, Row

\* The roles a row asks for are roles.
LEMMA GovernedRoleType ==
    ASSUME NEW row \in Row
    PROVE  GovernedRole(row) \subseteq Roles
BY DEF GovernedRole, Row

\* So are the roles a pass over the table wants attached.
LEMMA KeepType ==
    ASSUME NEW table \in Table
    PROVE  Keep(table) \subseteq Roles
BY GovernedRoleType, RoleAssumption DEF Keep, Live, Table

\* A run that has ended, or only begins, is well formed and holds no lock.
LEMMA NoRunType ==
    ASSUME NEW pc \in {"idle", "rows", "ok", "failed"}
    PROVE  /\ NoRun(pc) \in Run
           /\ NoRun(pc).pc = pc
           /\ NoRun(pc).flushed = {}
           /\ RunShape(NoRun(pc))
BY SomeAssumption
   DEF NoRun, Run, NoRows, Table, NoDoc, Doc, AnOrg, RunShape

\* So is a request that has ended.
LEMMA NoReqType == NoReq \in Req /\ ReqShape(NoReq) /\ ~NoReq.flushed
BY SomeAssumption DEF NoReq, Req, Operations, ReqShape

-----------------------------------------------------------------------------
(* The four ways a step moves without taking a lock: a run alone, a request *)
(* alone, both at once, or neither.                                         *)

\* TypeOK, short of the runs and the requests.
WorldType ==
    /\ users \in Table
    /\ spend \in [Users -> 0..MaxSpend]
    /\ unbilled \in [Users -> 0..MaxUnbilled]
    /\ org \in Orgs
    /\ policy \in Doc \cup {NoPolicy}
    /\ attached \subseteq Roles
    /\ trust \subseteq IdcRoles
    /\ enrolled \subseteq Users
    /\ moves \in 0..MaxMoves

\* A run that moves on without taking a lock keeps the invariant.
LEMMA RunMoves ==
    ASSUME IInv, WorldType', UNCHANGED <<users, req>>,
           NEW p \in Runners, NEW f \in Run, Step(p, f),
           RunShape(f), f.flushed \subseteq run[p].flushed
    PROVE  IInv'
<1>1. /\ run' \in [Runners -> Run]
      /\ run'[p] = f
      /\ \A q \in Runners : q # p => run'[q] = run[q]
  BY DEF Step, IInv, TypeOK
<1>2. TypeOK'
  BY <1>1 DEF IInv, TypeOK, WorldType
<1>3. Locks'
  BY <1>1 DEF IInv, Locks
<1>4. \A q \in Runners : RunShape(run'[q])
  BY <1>1 DEF IInv
<1>5. QED
  BY <1>2, <1>3, <1>4 DEF IInv, RunShape, ReqShape

\* So does a request that moves on without taking a lock.
LEMMA ReqMoves ==
    ASSUME IInv, WorldType', UNCHANGED <<users, run>>,
           NEW r \in Requests, NEW q \in Req, Advance(r, q),
           ReqShape(q),
           q.flushed => req[r].flushed /\ q.user = req[r].user
    PROVE  IInv'
<1>1. /\ req' \in [Requests -> Req]
      /\ req'[r] = q
      /\ \A s \in Requests : s # r => req'[s] = req[s]
  BY DEF Advance, IInv, TypeOK
<1>2. TypeOK'
  BY <1>1 DEF IInv, TypeOK, WorldType
<1>3. Locks'
  BY <1>1 DEF IInv, Locks
<1>4. \A s \in Requests : ReqShape(req'[s])
  BY <1>1 DEF IInv
<1>5. QED
  BY <1>2, <1>3, <1>4 DEF IInv, RunShape, ReqShape

\* So does a step of a request together with the run it starts or ends.
LEMMA BothMove ==
    ASSUME IInv, WorldType', UNCHANGED users,
           NEW p \in Runners, NEW f \in Run, Step(p, f),
           RunShape(f), f.flushed = {},
           NEW r \in Requests, NEW q \in Req, Advance(r, q),
           ReqShape(q),
           q.flushed => req[r].flushed /\ q.user = req[r].user
    PROVE  IInv'
<1>1. /\ run' \in [Runners -> Run]
      /\ run'[p] = f
      /\ \A t \in Runners : t # p => run'[t] = run[t]
  BY DEF Step, IInv, TypeOK
<1>2. /\ req' \in [Requests -> Req]
      /\ req'[r] = q
      /\ \A s \in Requests : s # r => req'[s] = req[s]
  BY DEF Advance, IInv, TypeOK
<1>3. TypeOK'
  BY <1>1, <1>2 DEF IInv, TypeOK, WorldType
<1>4. Locks'
  BY <1>1, <1>2 DEF IInv, Locks
<1>5. /\ \A t \in Runners : RunShape(run'[t])
      /\ \A s \in Requests : ReqShape(req'[s])
  BY <1>1, <1>2 DEF IInv
<1>6. QED
  BY <1>3, <1>4, <1>5 DEF IInv, RunShape, ReqShape

\* The rest of the program deletes no row that is locked.
LEMMA WorldMoves ==
    ASSUME IInv, WorldType', UNCHANGED <<run, req>>,
           \A u \in Users : users'[u] = Gone => users[u] = Gone
    PROVE  IInv'
<1>1. TypeOK'
  BY DEF IInv, TypeOK, WorldType
<1>2. Locks'
  BY DEF IInv, TypeOK, Req, Run, Locks
<1>3. QED
  BY <1>1, <1>2 DEF IInv, RunShape, ReqShape

-----------------------------------------------------------------------------
(* The steps of a run *)

\* StartTick keeps the invariant.
LEMMA StartTickInv == ASSUME IInv, NEW p \in Ticks, StartTick(p) PROVE IInv'
<1> DEFINE f == [NoRun("rows") EXCEPT !.org = org]
<1>1. p \in Runners /\ f \in Run /\ f.flushed = {} /\ RunShape(f)
  BY NoRunType DEF IInv, TypeOK, Runners, Run, RunShape
<1>2. WorldType'
  BY DataAssumption
     DEF StartTick, ReadOrg, Happens, db, aws, IInv, TypeOK, WorldType
<1>3. QED
  BY <1>1, <1>2, RunMoves DEF StartTick, ReadOrg, db, aws

\* ReadRows keeps the invariant.
LEMMA ReadRowsInv == ASSUME IInv, NEW p \in Runners, ReadRows(p) PROVE IInv'
<1> DEFINE f == [run[p] EXCEPT !.pc = "spend", !.rows = users]
<1>1. f \in Run /\ f.flushed = {} /\ RunShape(f)
  BY ZenonT(30) DEF ReadRows, IInv, TypeOK, Run, RunShape
<1>2. WorldType'
  BY DEF ReadRows, db, aws, IInv, TypeOK, WorldType
<1>3. QED
  BY <1>1, <1>2, RunMoves DEF ReadRows, db, aws

\* Decide keeps the invariant.
LEMMA DecideInv == ASSUME IInv, NEW p \in Runners, Decide(p) PROVE IInv'
<1> DEFINE o == [run[p].org EXCEPT !.onEstimate = org.onEstimate]
           t == run[p].rows
           after == [u \in Users |-> IF t[u] = Gone THEN Gone
                        ELSE After(o, t[u], spend[u], unbilled[u])]
           doc == [keys   |-> {u \in Live(t) :
                                 Denied(o, t[u], spend[u], unbilled[u])},
                   models |-> o.blocked]
           f == [run[p] EXCEPT !.pc = "write", !.org = AnOrg, !.after = after,
                               !.doc = doc, !.keep = Keep(t)]
<1>1. run[p] \in Run /\ t \in Table /\ run[p].flushed = {}
  BY DEF Decide, IInv, TypeOK, Run, RunShape
<1>2. \A u \in Users : IF t[u] = Gone THEN after[u] = Gone ELSE after[u] \in Row
  BY <1>1, AfterType DEF Table
<1>3. after \in Table
  BY <1>2 DEF Table
<1>4. o.blocked \subseteq Models
  BY <1>1, DataAssumption DEF Run, Org
<1>5. doc \in Doc
  BY <1>4 DEF Doc, Live
<1>6. AnOrg \in Orgs /\ Keep(t) \subseteq Roles
  BY <1>1, SomeAssumption, KeepType DEF AnOrg
<1>7. f \in Run /\ f.flushed = {}
  <2> HIDE DEF after, doc, t
  <2> QED  BY <1>1, <1>3, <1>5, <1>6 DEF Run
<1>8. f.pc = "write" /\ f.rows = t /\ f.after = after
  <2> HIDE DEF after, doc
  <2> QED  BY <1>1 DEF Run
<1>9. RunShape(f)
  <2>1. \A u \in Users : t[u] = Gone <=> after[u] = Gone
    BY <1>2, NullsAssumption
  <2> HIDE DEF after, doc, t, f
  <2> QED  BY <1>7, <1>8, <2>1 DEF RunShape
<1>10. WorldType'
  BY DEF Decide, db, aws, IInv, TypeOK, WorldType
<1>11. Step(p, f) /\ UNCHANGED <<users, req>>
  BY DEF Decide, db
<1> HIDE DEF f
<1>12. QED
  BY <1>7, <1>9, <1>10, <1>11, RunMoves

\* So does the end of a run, however it ends.
LEMMA StopInv ==
    ASSUME IInv, WorldType', UNCHANGED <<users, req>>,
           NEW p \in Runners, NEW how \in {"ok", "failed"}, Stop(p, how)
    PROVE  IInv'
<1> DEFINE f == NoRun(IF p \in Requests THEN how ELSE "idle")
<1>1. f \in Run /\ RunShape(f) /\ f.flushed = {}
  BY NoRunType
<1>2. QED
  BY <1>1, RunMoves DEF Stop

\* FlushRow keeps the invariant.
LEMMA FlushRowInv == ASSUME IInv, NEW p \in Runners, FlushRow(p) PROVE IInv'
<1>1. PICK u \in ToFlush(p) :
         /\ RowFree(u)
         /\ IF users[u] = Gone
            THEN Stop(p, "failed")
            ELSE Step(p, [run[p] EXCEPT !.flushed = @ \cup {u}])
  BY DEF FlushRow
<1>2. WorldType' /\ UNCHANGED <<users, req>>
  BY DEF FlushRow, db, aws, IInv, TypeOK, WorldType
<1>3. CASE users[u] = Gone
  BY <1>1, <1>2, <1>3, StopInv
<1>4. CASE users[u] # Gone
  <2> DEFINE f == [run[p] EXCEPT !.flushed = @ \cup {u}]
  <2>1. run[p] \in Run /\ run[p].pc = "write" /\ RunShape(run[p]) /\ u \in Users
    BY DEF FlushRow, IInv, TypeOK, ToFlush
  <2>2. /\ f \in Run
        /\ f.flushed = run[p].flushed \cup {u}
        /\ f.pc = run[p].pc /\ f.rows = run[p].rows /\ f.after = run[p].after
    BY <2>1 DEF Run
  <2>3. run[p].rows[u] # Gone
    BY <2>1 DEF ToFlush, RunShape
  <2>4. RunShape(f)
    BY <2>1, <2>2, <2>3 DEF RunShape
  <2>5. Step(p, f)
    BY <1>1, <1>4
  <2> HIDE DEF f
  <2>6. /\ run' \in [Runners -> Run]
        /\ run'[p] = f
        /\ \A q \in Runners : q # p => run'[q] = run[q]
    BY <2>2, <2>5 DEF Step, IInv, TypeOK
  <2>7. TypeOK'
    BY <1>2, <2>6 DEF IInv, TypeOK, WorldType
  <2>8. Locks'
    <3>1. \A r \in Requests : ~(req[r].user = u /\ req[r].flushed)
      BY <1>1 DEF RowFree, HoldsRow
    <3>2. \A q \in Runners : u \notin run[q].flushed
      BY <1>1 DEF RowFree
    <3> QED  BY <1>2, <1>4, <2>2, <2>6, <3>1, <3>2 DEF IInv, Locks
  <2>9. \A q \in Runners : RunShape(run'[q])
    BY <2>4, <2>6 DEF IInv
  <2> QED
    BY <1>2, <2>7, <2>8, <2>9 DEF IInv, RunShape, ReqShape
<1>5. QED
  BY <1>3, <1>4

\* Here the locks pay off: every row the run has updated is there to merge
\* its changes into, and only this run's commit can be writing it.
LEMMA CommitRunInv == ASSUME IInv, NEW p \in Runners, CommitRun(p) PROVE IInv'
<1> DEFINE f == [run[p] EXCEPT !.pc = "list", !.flushed = {},
                               !.rows = NoRows, !.after = NoRows]
<1>1. run[p] \in Run /\ RunShape(run[p]) /\ run[p].pc = "write"
  BY DEF CommitRun, IInv, TypeOK
<1>2. f \in Run /\ f.flushed = {} /\ RunShape(f)
  BY <1>1 DEF Run, RunShape, NoRows, Table
<1>3. \A u \in Users : users'[u] = IF u \in run[p].flushed
                         THEN Merge(run[p].rows[u], run[p].after[u], users[u])
                         ELSE users[u]
  BY DEF CommitRun
<1>4. \A u \in run[p].flushed : /\ run[p].rows[u] \in Row
                                /\ run[p].after[u] \in Row
                                /\ users[u] \in Row
  BY <1>1 DEF RunShape, IInv, Locks, TypeOK, Run, Table
<1>5. \A u \in Users : /\ users'[u] \in Row \cup {Gone}
                       /\ users'[u] = Gone => users[u] = Gone
  BY <1>3, <1>4, MergeType, NullsAssumption DEF IInv, TypeOK, Table
<1>6. users' \in Table
  BY <1>5 DEF CommitRun, Table
<1>7. WorldType'
  BY <1>6 DEF CommitRun, aws, Governed, Live, IInv, TypeOK, WorldType
<1>8. Step(p, f) /\ UNCHANGED req
  BY DEF CommitRun
<1> HIDE DEF f
<1>9. /\ run' \in [Runners -> Run]
      /\ run'[p] = f
      /\ \A q \in Runners : q # p => run'[q] = run[q]
  BY <1>2, <1>8 DEF Step, IInv, TypeOK
<1>10. TypeOK'
  BY <1>7, <1>8, <1>9 DEF IInv, TypeOK, WorldType
<1>11. Locks'
  BY ZenonT(30), <1>2, <1>5, <1>8, <1>9 DEF IInv, Locks, TypeOK, Req, Run
<1>12. \A q \in Runners : RunShape(run'[q])
  BY <1>2, <1>9 DEF IInv
<1>13. QED
  BY <1>8, <1>10, <1>11, <1>12 DEF IInv, RunShape, ReqShape

\* ListRoles keeps the invariant.
LEMMA ListRolesInv == ASSUME IInv, NEW p \in Runners, ListRoles(p) PROVE IInv'
<1>1. PICK seen \in {attached, {}} :
         Step(p, [run[p] EXCEPT !.pc = "sync", !.seen = seen])
  BY DEF ListRoles
<1> DEFINE f == [run[p] EXCEPT !.pc = "sync", !.seen = seen]
<1>2. f \in Run /\ f.flushed = {} /\ RunShape(f)
  BY ZenonT(30) DEF ListRoles, IInv, TypeOK, Run, RunShape
<1>3. WorldType'
  BY DataAssumption DEF ListRoles, Happens, db, aws, IInv, TypeOK, WorldType
<1>4. QED
  BY <1>1, <1>2, <1>3, RunMoves DEF ListRoles, db

\* SyncRoles keeps the invariant.
LEMMA SyncRolesInv == ASSUME IInv, NEW p \in Runners, SyncRoles(p) PROVE IInv'
<1> DEFINE f == [run[p] EXCEPT !.pc = "compare", !.keep = {}, !.seen = {}]
<1>1. f \in Run /\ f.flushed = {} /\ RunShape(f)
  <2>1. run[p] \in Run /\ RunShape(run[p]) /\ run[p].pc = "sync"
    BY DEF SyncRoles, IInv, TypeOK
  <2>2. QED
    BY <2>1 DEF Run, RunShape
<1>2. attached' \subseteq attached \cup run[p].keep
  <2>1. PICK done :
           attached' = IF policy = NoPolicy THEN attached
                       ELSE (attached \cup ((run[p].keep \ run[p].seen) \cap done))
                            \ (((run[p].seen \ run[p].keep) \ IdcRoles) \cap done)
    BY DEF SyncRoles
  <2>2. QED
    BY <2>1
<1>3. moves' \in 0..MaxMoves
  BY DataAssumption DEF SyncRoles, Happens, IInv, TypeOK
<1>4. WorldType'
  BY <1>2, <1>3 DEF SyncRoles, db, IInv, TypeOK, Run, WorldType
<1>5. QED
  BY <1>1, <1>4, RunMoves DEF SyncRoles, db

\* Compare keeps the invariant.
LEMMA CompareInv == ASSUME IInv, NEW p \in Runners, Compare(p) PROVE IInv'
<1>1. WorldType' /\ UNCHANGED <<users, req>>
  BY DEF Compare, db, aws, IInv, TypeOK, WorldType
<1>2. ASSUME Stop(p, "ok") PROVE IInv'
  BY <1>1, <1>2, StopInv
<1>3. ASSUME NEW pc \in {"create", "publish"}, Step(p, [run[p] EXCEPT !.pc = pc])
      PROVE  IInv'
  <2> DEFINE f == [run[p] EXCEPT !.pc = pc]
  <2>1. f \in Run /\ f.flushed = {} /\ RunShape(f)
    BY DEF Compare, IInv, TypeOK, Run, RunShape
  <2> QED  BY <1>1, <1>3, <2>1, RunMoves
<1>4. \/ Stop(p, "ok")
      \/ \E pc \in {"create", "publish"} : Step(p, [run[p] EXCEPT !.pc = pc])
  <2>1. CASE policy = NoPolicy
    BY <2>1 DEF Compare
  <2>2. CASE policy # NoPolicy /\ policy = run[p].doc
    BY <2>2 DEF Compare
  <2>3. CASE policy # NoPolicy /\ policy # run[p].doc
    BY <2>3 DEF Compare
  <2>4. QED
    BY <2>1, <2>2, <2>3
<1>5. QED
  BY <1>2, <1>3, <1>4

\* Create keeps the invariant.
LEMMA CreateInv == ASSUME IInv, NEW p \in Runners, Create(p) PROVE IInv'
<1>1. \E how \in {"ok", "failed"} : Stop(p, how)
  BY DEF Create
<1>2. policy' \in Doc \cup {NoPolicy}
  BY DEF Create, IInv, TypeOK, Run
<1>3. WorldType' /\ UNCHANGED <<users, req>>
  BY <1>2, DataAssumption, RoleAssumption
     DEF Create, Happens, db, IInv, TypeOK, WorldType
<1>4. QED
  BY <1>1, <1>3, StopInv

\* Publish keeps the invariant.
LEMMA PublishInv == ASSUME IInv, NEW p \in Runners, Publish(p) PROVE IInv'
<1>1. \E how \in {"ok", "failed"} : Stop(p, how)
  BY DEF Publish
<1>2. policy' \in Doc \cup {NoPolicy}
  BY DEF Publish, IInv, TypeOK, Run
<1>3. WorldType' /\ UNCHANGED <<users, req>>
  BY <1>2 DEF Publish, db, IInv, TypeOK, WorldType
<1>4. QED
  BY <1>1, <1>3, StopInv

\* FailRun keeps the invariant.
LEMMA FailRunInv == ASSUME IInv, NEW p \in Runners, FailRun(p) PROVE IInv'
<1>1. WorldType' /\ UNCHANGED <<users, req>>
  BY DataAssumption DEF FailRun, Happens, db, aws, IInv, TypeOK, WorldType
<1>2. QED
  BY <1>1, StopInv DEF FailRun

-----------------------------------------------------------------------------
(* The steps of a request *)

\* Every handler loads a row that exists and waits for no lock yet.
LEMMA ReceiveInv ==
    ASSUME IInv, NEW r \in Requests, NEW op \in Operations,
           NEW u \in Live(users), NEW after \in Row \cup {Gone},
           NEW pc \in {"attach", "trust", "flush", "apply"},
           pc = "attach" => users[u].role # NoRole,
           Receive(r, op, u, after, pc)
    PROVE  IInv'
<1> DEFINE q == [NoReq EXCEPT !.pc = pc, !.op = op, !.user = u,
                              !.row = users[u], !.after = after]
<1>1. users[u] \in Row /\ u \in Users
  BY DEF Live, IInv, TypeOK, Table
<1>2. q \in Req /\ ~q.flushed
  BY <1>1, NoReqType DEF Req
<1>3. ReqShape(q)
  BY <1>1, NoReqType, NullsAssumption DEF ReqShape, Req, Row
<1>4. WorldType'
  BY DataAssumption DEF Receive, Happens, db, aws, IInv, TypeOK, WorldType
<1>5. QED
  BY <1>2, <1>3, <1>4, ReqMoves DEF Receive, db

\* No handler that starts breaks the invariant: one case per endpoint.
LEMMA HandleInv == ASSUME IInv, NEW r \in Requests, Handle(r) PROVE IInv'
<1>1. PICK u \in Live(users) :
         \/ ForceBlock(r, u) \/ Unblock(r, u)  \/ SetCap(r, u)
         \/ Manage(r, u)     \/ Unmanage(r, u) \/ SetStatus(r, u)
         \/ Approve(r, u)    \/ SetPrincipalArn(r, u)
         \/ Delete(r, u)     \/ Reapply(r, u)
  BY DEF Handle
<1>2. users[u] \in Row
  BY DEF Live, IInv, TypeOK, Table
<1> USE ReceiveInv DEF Operations, Row, Status
<1>3. CASE ForceBlock(r, u)
  BY <1>2, <1>3 DEF ForceBlock
<1>4. CASE Unblock(r, u)
  BY <1>2, <1>4 DEF Unblock
<1>5. CASE SetCap(r, u)
  BY <1>2, <1>5, DataAssumption DEF SetCap
<1>6. CASE Manage(r, u)
  <2>1. CASE users[u].idc
    BY ZenonT(30), <1>2, <1>6, <2>1 DEF Manage
  <2>2. CASE ~users[u].idc
    BY <1>2, <1>6, <2>2 DEF Manage
  <2>3. QED
    BY <2>1, <2>2
<1>7. CASE Unmanage(r, u)
  <2> DEFINE status == IF users[u].status = "force_blocked" THEN "active"
                       ELSE users[u].status
             after  == [users[u] EXCEPT !.governed = FALSE, !.status = status]
  <2>1. after \in Row
    <3>1. status \in Status
      BY <1>2
    <3> HIDE DEF status
    <3>2. QED
      BY <1>2, <3>1
  <2>2. Receive(r, "unmanage", u, after, "flush")
    BY <1>2, <1>7 DEF Unmanage
  <2> HIDE DEF after
  <2>3. QED
    BY <2>1, <2>2
<1>8. CASE SetStatus(r, u)
  BY <1>2, <1>8 DEF SetStatus
<1>9. CASE Approve(r, u)
  BY <1>2, <1>9 DEF Approve
<1>10. CASE SetPrincipalArn(r, u)
  BY ZenonT(30), <1>2, <1>10 DEF SetPrincipalArn
<1>11. CASE Delete(r, u)
  BY <1>2, <1>11 DEF Delete
<1>12. CASE Reapply(r, u)
  BY <1>2, <1>12 DEF Reapply
<1>13. QED
  BY <1>1, <1>3, <1>4, <1>5, <1>6, <1>7, <1>8, <1>9, <1>10, <1>11, <1>12

\* A request that only moves on, in a world whose other parts keep their type.
LEMMA GotoInv ==
    ASSUME IInv, WorldType', UNCHANGED <<users, run>>,
           NEW r \in Requests, NEW q \in Req, Advance(r, q), ReqShape(q),
           q = NoReq \/ (q.user = req[r].user /\ q.flushed = req[r].flushed)
    PROVE  IInv'
<1>1. q.flushed => req[r].flushed /\ q.user = req[r].user
  BY NoReqType
<1>2. QED
  BY <1>1, ReqMoves

\* AttachRole keeps the invariant.
LEMMA AttachRoleInv == ASSUME IInv, NEW r \in Requests, AttachRole(r) PROVE IInv'
<1>1. req[r] \in Req /\ ReqShape(req[r]) /\ req[r].pc = "attach"
  BY DEF AttachRole, IInv, TypeOK
<1>2. WorldType' /\ UNCHANGED <<users, run>>
  BY <1>1 DEF AttachRole, db, ReqShape, IInv, TypeOK, WorldType
<1>3. CASE policy = NoPolicy
  BY <1>2, <1>3, NoReqType, GotoInv DEF AttachRole
<1>4. CASE policy # NoPolicy
  <2> DEFINE q == [req[r] EXCEPT !.pc = "flush"]
  <2>1. q \in Req /\ ReqShape(q)
    BY <1>1 DEF Req, ReqShape
  <2>2. q.user = req[r].user /\ q.flushed = req[r].flushed
    BY <1>1 DEF Req
  <2>3. Advance(r, q)
    BY <1>4 DEF AttachRole, Goto
  <2> HIDE DEF q
  <2>4. QED
    BY <1>2, <2>1, <2>2, <2>3, GotoInv
<1>5. QED
  BY <1>3, <1>4

\* ReadTrust keeps the invariant.
LEMMA ReadTrustInv == ASSUME IInv, NEW r \in Requests, ReadTrust(r) PROVE IInv'
<1>1. req[r] \in Req /\ ReqShape(req[r]) /\ req[r].pc = "trust"
  BY DEF ReadTrust, IInv, TypeOK
<1>2. WorldType' /\ UNCHANGED <<users, run>>
  BY DEF ReadTrust, db, aws, IInv, TypeOK, WorldType
<1>3. ASSUME NEW q \in {[req[r] EXCEPT !.pc = AfterTrust(req[r])],
                        [req[r] EXCEPT !.pc = "wire", !.found = trust]},
             Advance(r, q), q.pc = "wire" => q.row.role \in IdcRoles
      PROVE  IInv'
  <2>1. q \in Req /\ ReqShape(q)
    BY ZenonT(30), <1>1, <1>3 DEF Req, ReqShape, AfterTrust, IInv, TypeOK
  <2>2. q.user = req[r].user /\ q.flushed = req[r].flushed
    BY <1>1 DEF Req
  <2>3. QED
    BY <1>2, <1>3, <2>1, <2>2, GotoInv
<1>4. \/ Advance(r, [req[r] EXCEPT !.pc = AfterTrust(req[r])])
      \/ /\ req[r].row.role \in IdcRoles
         /\ Advance(r, [req[r] EXCEPT !.pc = "wire", !.found = trust])
  BY DEF ReadTrust, Goto
<1>5. [req[r] EXCEPT !.pc = AfterTrust(req[r])].pc # "wire"
  BY <1>1 DEF Req, AfterTrust
<1>6. [req[r] EXCEPT !.pc = "wire", !.found = trust].row = req[r].row
  BY <1>1 DEF Req
<1>7. QED
  BY <1>3, <1>4, <1>5, <1>6

\* WriteTrust keeps the invariant.
LEMMA WriteTrustInv == ASSUME IInv, NEW r \in Requests, WriteTrust(r) PROVE IInv'
<1> DEFINE q == [req[r] EXCEPT !.pc = AfterTrust(req[r]), !.found = {}]
<1>1. req[r] \in Req /\ ReqShape(req[r]) /\ req[r].pc = "wire"
  BY DEF WriteTrust, IInv, TypeOK
<1>2. trust' \subseteq IdcRoles
  BY <1>1 DEF WriteTrust, Req, ReqShape, IInv, TypeOK
<1>3. WorldType' /\ UNCHANGED <<users, run>>
  BY <1>2 DEF WriteTrust, db, IInv, TypeOK, WorldType
<1>4. q \in Req /\ ReqShape(q)
  BY <1>1 DEF Req, ReqShape, AfterTrust
<1>5. q.user = req[r].user /\ q.flushed = req[r].flushed
  BY <1>1 DEF Req
<1>6. Advance(r, q)
  BY DEF WriteTrust
<1> HIDE DEF q
<1>7. QED
  BY <1>3, <1>4, <1>5, <1>6, GotoInv

\* Flush keeps the invariant.
LEMMA FlushInv == ASSUME IInv, NEW r \in Requests, Flush(r) PROVE IInv'
<1>1. req[r] \in Req /\ ReqShape(req[r]) /\ req[r].pc = "flush" /\ RowFree(req[r].user)
  BY DEF Flush, IInv, TypeOK
<1>2. WorldType' /\ UNCHANGED <<users, run>>
  BY DEF Flush, db, aws, IInv, TypeOK, WorldType
<1>3. CASE users[req[r].user] = Gone
  BY <1>2, <1>3, NoReqType, GotoInv DEF Flush
<1>4. CASE users[req[r].user] # Gone
  <2> DEFINE q == [req[r] EXCEPT !.pc = AfterFlush(req[r]), !.flushed = TRUE]
  <2>1. AfterFlush(req[r]) \in {"trust", "count", "apply", "commit"}
    BY DEF AfterFlush
  <2>2. /\ q \in Req /\ ReqShape(q)
        /\ q.user = req[r].user
    BY <1>1, <2>1 DEF Req, ReqShape
  <2>3. Advance(r, q)
    BY <1>4 DEF Flush
  <2> HIDE DEF q
  <2>4. /\ req' \in [Requests -> Req]
        /\ req'[r] = q
        /\ \A s \in Requests : s # r => req'[s] = req[s]
    BY <2>2, <2>3 DEF Advance, IInv, TypeOK
  <2>5. TypeOK'
    BY <1>2, <2>4 DEF IInv, TypeOK, WorldType
  <2>6. Locks'
    <3>1. /\ \A s \in Requests : ~(req[s].user = req[r].user /\ req[s].flushed)
          /\ \A p \in Runners : req[r].user \notin run[p].flushed
      BY <1>1 DEF RowFree, HoldsRow
    <3>2. QED
      BY <1>2, <1>4, <2>2, <2>4, <3>1 DEF IInv, Locks
  <2>7. \A s \in Requests : ReqShape(req'[s])
    BY <2>2, <2>4 DEF IInv
  <2>8. QED
    BY <1>2, <2>5, <2>6, <2>7 DEF IInv, RunShape, ReqShape
<1>5. QED
  BY <1>3, <1>4

\* CountOthers keeps the invariant.
LEMMA CountOthersInv == ASSUME IInv, NEW r \in Requests, CountOthers(r) PROVE IInv'
<1>1. PICK pc \in {"detach", "commit"} : Advance(r, [req[r] EXCEPT !.pc = pc])
  BY DEF CountOthers, Goto
<1> DEFINE q == [req[r] EXCEPT !.pc = pc]
<1>2. req[r] \in Req /\ ReqShape(req[r]) /\ req[r].pc = "count"
  BY DEF CountOthers, IInv, TypeOK
<1>3. q \in Req /\ ReqShape(q) /\ q.user = req[r].user /\ q.flushed = req[r].flushed
  BY <1>2 DEF Req, ReqShape
<1>4. WorldType' /\ UNCHANGED <<users, run>>
  BY DEF CountOthers, db, aws, IInv, TypeOK, WorldType
<1>5. QED
  BY <1>1, <1>3, <1>4, GotoInv

\* DetachRole keeps the invariant.
LEMMA DetachRoleInv == ASSUME IInv, NEW r \in Requests, DetachRole(r) PROVE IInv'
<1> DEFINE q == [req[r] EXCEPT !.pc = "commit"]
<1>1. req[r] \in Req /\ ReqShape(req[r]) /\ req[r].pc = "detach"
  BY DEF DetachRole, IInv, TypeOK
<1>2. q \in Req /\ ReqShape(q) /\ q.user = req[r].user /\ q.flushed = req[r].flushed
  BY <1>1 DEF Req, ReqShape
<1>3. WorldType' /\ UNCHANGED <<users, run>>
  BY DEF DetachRole, db, IInv, TypeOK, WorldType
<1>4. QED
  BY <1>2, <1>3, GotoInv DEF DetachRole, Goto

\* StartApply keeps the invariant.
LEMMA StartApplyInv == ASSUME IInv, NEW r \in Requests, StartApply(r) PROVE IInv'
<1> DEFINE d == DeniedOnBilled(org, req[r].after, spend[req[r].user])
           q == [req[r] EXCEPT !.pc = "running", !.denied = d]
           f == [NoRun("rows") EXCEPT !.org = org]
<1>1. req[r] \in Req /\ ReqShape(req[r]) /\ req[r].pc = "apply"
  BY DEF StartApply, IInv, TypeOK
<1>2. d \in BOOLEAN
  BY DEF DeniedOnBilled
<1>3. q \in Req /\ ReqShape(q) /\ q.user = req[r].user /\ q.flushed = req[r].flushed
  BY <1>1, <1>2 DEF Req, ReqShape
<1>4. r \in Runners /\ f \in Run /\ f.flushed = {} /\ RunShape(f)
  BY NoRunType DEF IInv, TypeOK, Runners, Run, RunShape
<1>5. WorldType' /\ UNCHANGED users
  BY DEF StartApply, ReadOrg, db, aws, IInv, TypeOK, WorldType
<1>6. Advance(r, q) /\ Step(r, f)
  BY DEF StartApply, ReadOrg
<1> HIDE DEF q, f
<1>7. QED
  BY <1>3, <1>4, <1>5, <1>6, BothMove

\* Collecting the end of a run keeps the invariant, whatever is answered.
LEMMA AnswerWithInv ==
    ASSUME IInv, NEW r \in Requests, moves' \in 0..MaxMoves,
           NEW answer \in {"enforced", "allowed", "pending", "pending_idc", "failed"},
           AnswerWith(r, answer)
    PROVE  IInv'
<1> DEFINE q == [req[r] EXCEPT !.pc = "commit", !.answer = answer]
<1>1. req[r] \in Req /\ ReqShape(req[r]) /\ req[r].pc = "running"
  BY DEF AnswerWith, IInv, TypeOK
<1>2. q \in Req /\ ReqShape(q) /\ q.user = req[r].user /\ q.flushed = req[r].flushed
  BY <1>1 DEF Req, ReqShape
<1>3. WorldType' /\ UNCHANGED users
  BY DEF AnswerWith, db, aws, IInv, TypeOK, WorldType
<1>4. r \in Runners /\ Advance(r, q) /\ Step(r, NoRun("idle"))
  BY DEF AnswerWith, Runners
<1> HIDE DEF q
<1>5. QED
  BY <1>2, <1>3, <1>4, NoRunType, BothMove

\* What a handler answers is one of the answers.
LEMMA OutcomeType ==
    ASSUME NEW q, NEW how \in {"ok", "failed"}, NEW verified
    PROVE  Outcome(q, how, verified)
              \in {"enforced", "allowed", "pending", "pending_idc", "failed"}
BY DEF Outcome

\* Answer keeps the invariant.
LEMMA AnswerInv == ASSUME IInv, NEW r \in Requests, Answer(r) PROVE IInv'
<1>1. run[r].pc \in {"ok", "failed"} /\ moves' \in 0..MaxMoves
  BY DEF Answer, AnswerWith, IInv, TypeOK
<1>2. QED
  BY <1>1, OutcomeType, AnswerWithInv DEF Answer

\* LateAnswer keeps the invariant.
LEMMA LateAnswerInv == ASSUME IInv, NEW r \in Requests, LateAnswer(r) PROVE IInv'
<1>1. run[r].pc \in {"ok", "failed"} /\ moves' \in 0..MaxMoves
  BY DataAssumption DEF LateAnswer, AnswerWith, Happens, IInv, TypeOK
<1>2. QED
  BY <1>1, OutcomeType, AnswerWithInv DEF LateAnswer

\* The row a request writes back is there as well, for the same reason.
LEMMA CommitRequestInv ==
    ASSUME IInv, NEW r \in Requests, CommitRequest(r) PROVE IInv'
<1> DEFINE q == req[r]
<1>1. q \in Req /\ ReqShape(q) /\ q.pc = "commit"
  BY DEF CommitRequest, IInv, TypeOK
<1>2. q.flushed => q.row \in Row /\ users[q.user] \in Row
  BY <1>1 DEF IInv, TypeOK, Locks, Req, ReqShape, Table
<1>3. \A u \in Users : /\ users'[u] \in Row \cup {Gone}
                       /\ users'[u] = Gone /\ users[u] # Gone => q.flushed /\ q.user = u
  BY <1>1, <1>2, MergeType, NullsAssumption
     DEF CommitRequest, IInv, TypeOK, Table, Req
<1>4. users' \in Table
  BY <1>3 DEF CommitRequest, IInv, TypeOK, Table
<1>5. WorldType'
  BY <1>4 DEF CommitRequest, aws, Governed, Live, IInv, TypeOK, WorldType
<1>6. UNCHANGED run /\ Advance(r, NoReq)
  BY DEF CommitRequest
<1>7. /\ req' \in [Requests -> Req]
      /\ req'[r] = NoReq
      /\ \A s \in Requests : s # r => req'[s] = req[s]
  BY <1>6, NoReqType DEF Advance, IInv, TypeOK
<1>8. TypeOK'
  BY <1>5, <1>6, <1>7 DEF IInv, TypeOK, WorldType
<1>9. Locks'
  <2>1. \A s \in Requests : req'[s].flushed =>
           s # r /\ req'[s] = req[s] /\ req[s].flushed
    BY <1>7, NoReqType
  <2>2. ASSUME NEW u \in Users, users[u] # Gone, ~(q.flushed /\ q.user = u)
        PROVE  users'[u] # Gone
    BY <1>3, <2>2
  <2>3. \A p \in Runners : \A u \in run[p].flushed : users'[u] # Gone
    BY <2>2 DEF IInv, Locks, TypeOK, Run
  <2>4. \A s \in Requests : req'[s].flushed => users'[req'[s].user] # Gone
    BY <2>1, <2>2 DEF IInv, Locks, TypeOK, Req
  <2>5. QED
    BY <1>6, <2>1, <2>3, <2>4 DEF IInv, Locks
<1>10. \A s \in Requests : ReqShape(req'[s])
  BY <1>7, NoReqType DEF IInv
<1>11. QED
  BY <1>6, <1>8, <1>9, <1>10 DEF IInv, RunShape, ReqShape

\* DropRequest keeps the invariant.
LEMMA DropRequestInv == ASSUME IInv, NEW r \in Requests, DropRequest(r) PROVE IInv'
<1>1. WorldType' /\ UNCHANGED users /\ r \in Runners
  BY DataAssumption
     DEF DropRequest, Happens, db, aws, Runners, IInv, TypeOK, WorldType
<1>2. QED
  BY <1>1, NoReqType, NoRunType, BothMove DEF DropRequest

-----------------------------------------------------------------------------
(* The rest *)

\* Nothing outside runs and requests breaks the invariant: a row that is locked
\* is neither inserted, billed nor reset.
LEMMA WorldInv == ASSUME IInv, World PROVE IInv'
<1> USE DataAssumption, NullsAssumption, WorldMoves
    DEF IInv, TypeOK, WorldType, Happens, db, aws
<1>1. ASSUME NEW u \in Users, Register(u) PROVE IInv'
  <2>1. PICK s \in Status, c \in Caps :
           users' = [users EXCEPT ![u] = [NewRow EXCEPT !.status = s, !.cap = c]]
    BY <1>1 DEF Register
  <2>2. [NewRow EXCEPT !.status = s, !.cap = c] \in Row
    BY NewRowType DEF Row
  <2>3. users' \in Table /\ \A v \in Users : users'[v] = Gone => users[v] = Gone
    BY <2>1, <2>2 DEF Table
  <2>4. QED
    BY <1>1, <2>3 DEF Register
<1>2. ASSUME NEW u \in Users, CurSync(u) PROVE IInv'
  <2> DEFINE old == IF users[u] = Gone THEN NewRow ELSE users[u]
  <2>1. PICK role \in Roles \cup {NoRole} :
           users' = [users EXCEPT ![u] =
                       [old EXCEPT !.role = role, !.idc = (role \in IdcRoles)]]
    BY <1>2 DEF CurSync
  <2>2. old \in Row
    BY NewRowType DEF Table
  <2> HIDE DEF old
  <2>3. [old EXCEPT !.role = role, !.idc = (role \in IdcRoles)] \in Row
    <3>1. \A b \in BOOLEAN : [old EXCEPT !.role = role, !.idc = b] \in Row
      BY <2>2 DEF Row
    <3>2. (role \in IdcRoles) \in BOOLEAN
      OBVIOUS
    <3>3. QED
      BY <3>1, <3>2
  <2>4. users' \in Table /\ \A v \in Users : users'[v] = Gone => users[v] = Gone
    BY <2>1, <2>3 DEF Table
  <2>5. spend' \in [Users -> 0..MaxSpend] /\ unbilled' \in [Users -> 0..MaxUnbilled]
    BY <1>2 DEF CurSync
  <2>6. QED
    BY <1>2, <2>4, <2>5 DEF CurSync
<1>3. CASE NewMonth
  BY <1>3 DEF NewMonth
<1>4. CASE QuotaReset
  <2>1. \A v \in Users : IF users[v] = Gone THEN users'[v] = Gone
                         ELSE users'[v] = [users[v] EXCEPT !.warned = FALSE]
    BY <1>4 DEF QuotaReset
  <2>2. \A row \in Row : [row EXCEPT !.warned = FALSE] \in Row
    BY DEF Row
  <2>3. users' \in Table /\ \A v \in Users : users'[v] = Gone => users[v] = Gone
    BY <1>4, <2>1, <2>2 DEF Table, QuotaReset
  <2>4. QED
    BY <1>4, <2>3 DEF QuotaReset
<1>5. CASE SetOrg
  BY <1>5 DEF SetOrg
<1>6. CASE OperatorDetach
  BY <1>6 DEF OperatorDetach
<1>7. CASE OperatorDelete
  BY <1>7 DEF OperatorDelete
<1>8. QED
  BY <1>1, <1>2, <1>3, <1>4, <1>5, <1>6, <1>7 DEF World

-----------------------------------------------------------------------------
(* Type correctness *)

\* The invariant holds before anything has started.
LEMMA InitInv == Init => IInv
<1> SUFFICES ASSUME Init PROVE IInv
  OBVIOUS
<1>1. users \in Table /\ org \in Orgs
  BY DataAssumption DEF Init, Table
<1>2. policy \in Doc \cup {NoPolicy} /\ attached \subseteq Roles
  BY RoleAssumption DEF Init, NoDoc, Doc
<1>3. /\ run \in [Runners -> Run]
      /\ \A p \in Runners : run[p].flushed = {} /\ RunShape(run[p])
  BY NoRunType DEF Init
<1>4. /\ req \in [Requests -> Req]
      /\ \A r \in Requests : ~req[r].flushed /\ ReqShape(req[r])
  BY NoReqType DEF Init
<1>5. TypeOK
  BY <1>1, <1>2, <1>3, <1>4, DataAssumption DEF Init, TypeOK, Governed, Live
<1>6. Locks
  BY <1>3, <1>4 DEF Locks
<1>7. QED
  BY <1>3, <1>4, <1>5, <1>6 DEF IInv

\* Every step keeps the invariant: one case per action.
LEMMA NextInv == IInv /\ [Next]_vars => IInv'
<1> SUFFICES ASSUME IInv, [Next]_vars PROVE IInv'
  OBVIOUS
<1>1. ASSUME NEW p \in Ticks, StartTick(p) PROVE IInv'
  BY <1>1, StartTickInv
<1>2. ASSUME NEW p \in Runners, RunStep(p) \/ FailRun(p) PROVE IInv'
  BY <1>2, ReadRowsInv, DecideInv, FlushRowInv, CommitRunInv, ListRolesInv,
     SyncRolesInv, CompareInv, CreateInv, PublishInv, FailRunInv DEF RunStep
<1>3. ASSUME NEW r \in Requests,
             Handle(r) \/ RequestStep(r) \/ LateAnswer(r) \/ DropRequest(r)
      PROVE  IInv'
  BY <1>3, HandleInv, AttachRoleInv, ReadTrustInv, WriteTrustInv, FlushInv,
     CountOthersInv, DetachRoleInv, StartApplyInv, AnswerInv, CommitRequestInv,
     LateAnswerInv, DropRequestInv DEF RequestStep
<1>4. CASE World
  BY <1>4, WorldInv
<1>5. CASE UNCHANGED vars
  BY <1>5 DEF vars, IInv, TypeOK, Locks, RunShape, ReqShape, HoldsRow
<1>6. QED
  BY <1>1, <1>2, <1>3, <1>4, <1>5 DEF Next

\* Hence it always holds.
LEMMA Invariant == Spec => []IInv
BY InitInv, NextInv, PTL DEF Spec

\* Every reachable state is well typed: in particular no commit of a run or
\* of a request writes back into a row that is gone, however they overlap
\* (deny_reconciler.py and users.py, the sessions' commits).
THEOREM TypeCorrect == Spec => []TypeOK
<1>1. IInv => TypeOK
  BY DEF IInv
<1>2. QED
  BY Invariant, <1>1, PTL

\* A locked row exists and has one holder.
THEOREM LocksHold == Spec => []Locks
<1>1. IInv => Locks
  BY DEF IInv
<1>2. QED
  BY Invariant, <1>1, PTL
-----------------------------------------------------------------------------
(* Opt-in.  A document is computed from rows read some time before it is    *)
(* put in force, and by then the rows may have changed or be gone: what     *)
(* carries the property over is that a principal stays enrolled.            *)

Enrolled == /\ Governed(users) \subseteq enrolled
            /\ \A p \in Runners : Governed(run[p].rows) \subseteq enrolled
            /\ OptIn

\* An empty table governs nobody, an empty document denies nobody.
LEMMA NobodyGoverned == Governed(NoRows) = {} /\ NoDoc.keys = {}
BY DEF Governed, Live, NoRows, NoDoc

\* A run that has ended, or only begins, has read and wants nothing.
LEMMA NoRunEnrolls ==
    ASSUME NEW pc
    PROVE  NoRun(pc).rows = NoRows /\ NoRun(pc).doc = NoDoc
BY DEF NoRun

\* A step of a run that reads no new rows but the committed ones, and puts in
\* force no new document but its own.
LEMMA RunEnrolls ==
    ASSUME IInv, Enrolled, UNCHANGED <<users, enrolled>>,
           NEW p \in Runners, NEW f, Step(p, f),
           f.rows \in {run[p].rows, NoRows, users},
           f.doc.keys \subseteq enrolled,
           policy' \in {policy, run[p].doc, NoPolicy}
    PROVE  Enrolled'
<1>1. /\ run'[p] = f
      /\ \A q \in Runners : q # p => run'[q] = run[q]
  BY DEF Step, IInv, TypeOK
<1>2. Governed(f.rows) \subseteq enrolled
  BY NobodyGoverned DEF Enrolled
<1>3. \A q \in Runners : /\ Governed(run'[q].rows) \subseteq enrolled
                         /\ run'[q].doc.keys \subseteq enrolled
  BY <1>1, <1>2 DEF Enrolled, OptIn
<1>4. policy' # NoPolicy => policy'.keys \subseteq enrolled
  BY DEF Enrolled, OptIn
<1>5. QED
  BY <1>3, <1>4 DEF Enrolled, OptIn, Governed, Live

\* A run that ends leaves in force what was, what it wanted, or nothing.
LEMMA StopEnrolls ==
    ASSUME IInv, Enrolled, UNCHANGED <<users, enrolled>>,
           NEW p \in Runners, NEW how, Stop(p, how),
           policy' \in {policy, run[p].doc, NoPolicy}
    PROVE  Enrolled'
BY RunEnrolls, NoRunEnrolls, NobodyGoverned DEF Stop

\* A run denies only rows it has read as governed.
LEMMA DecideEnrolls ==
    ASSUME IInv, Enrolled, NEW p \in Runners, Decide(p)
    PROVE  Enrolled'
<1> DEFINE o == [run[p].org EXCEPT !.onEstimate = org.onEstimate]
           t == run[p].rows
           doc == [keys   |-> {u \in Live(t) :
                                 Denied(o, t[u], spend[u], unbilled[u])},
                   models |-> o.blocked]
           after == [u \in Users |-> IF t[u] = Gone THEN Gone
                        ELSE After(o, t[u], spend[u], unbilled[u])]
           f == [run[p] EXCEPT !.pc = "write", !.org = AnOrg, !.after = after,
                               !.doc = doc, !.keep = Keep(t)]
<1>1. Step(p, f) /\ UNCHANGED <<users, policy, enrolled>>
  BY DEF Decide, db, aws
<1>2. doc.keys \subseteq Governed(t)
  BY DEF Governed, Denied
<1>3. f.rows = t /\ f.doc = doc
  <2>1. run[p] \in Run
    BY DEF IInv, TypeOK
  <2> HIDE DEF doc, after, t
  <2>2. QED
    BY <2>1 DEF Run, t
<1>4. doc.keys \subseteq enrolled
  BY <1>2 DEF Enrolled
<1> HIDE DEF doc, f
<1>5. QED
  BY <1>1, <1>3, <1>4, RunEnrolls

\* No step of a run denies somebody never governed: one case per step.
LEMMA RunStepEnrolls ==
    ASSUME IInv, Enrolled, NEW p \in Runners, RunStep(p) \/ FailRun(p)
    PROVE  Enrolled'
<1>1. run[p] \in Run /\ run[p].doc.keys \subseteq enrolled
  BY DEF IInv, TypeOK, Enrolled, OptIn
<1>2. CASE ReadRows(p)
  BY <1>1, <1>2, RunEnrolls DEF ReadRows, Run, db, aws
<1>3. CASE Decide(p)
  BY <1>3, DecideEnrolls
<1>4. CASE FlushRow(p)
  <2>1. UNCHANGED <<users, enrolled, policy>>
    BY <1>4 DEF FlushRow, db, aws
  <2>2. PICK u \in Users : IF users[u] = Gone THEN Stop(p, "failed")
                 ELSE Step(p, [run[p] EXCEPT !.flushed = @ \cup {u}])
    BY <1>4 DEF FlushRow, ToFlush
  <2>3. CASE users[u] = Gone
    BY <2>1, <2>2, <2>3, StopEnrolls
  <2>4. CASE users[u] # Gone
    BY <1>1, <2>1, <2>2, <2>4, RunEnrolls DEF Run
  <2>5. QED
    BY <2>3, <2>4
<1>5. CASE CommitRun(p)
  <2> DEFINE f == [run[p] EXCEPT !.pc = "list", !.flushed = {},
                                 !.rows = NoRows, !.after = NoRows]
  <2>1. /\ run'[p] = f
        /\ \A q \in Runners : q # p => run'[q] = run[q]
    BY <1>5 DEF CommitRun, Step, IInv, TypeOK
  <2>2. f.rows = NoRows /\ f.doc = run[p].doc
    BY <1>1 DEF Run
  <2>3. enrolled' = enrolled \cup Governed(users') /\ policy' = policy
    BY <1>5 DEF CommitRun, aws
  <2> HIDE DEF f
  <2>4. \A q \in Runners : /\ Governed(run'[q].rows) \subseteq enrolled'
                           /\ run'[q].doc.keys \subseteq enrolled'
    BY <2>1, <2>2, <2>3, NobodyGoverned DEF Enrolled, OptIn
  <2>5. QED
    BY <2>3, <2>4 DEF Enrolled, OptIn, Governed, Live
<1>6. CASE ListRoles(p)
  BY <1>1, <1>6, RunEnrolls DEF ListRoles, Run, db, aws
<1>7. CASE SyncRoles(p)
  <2>1. /\ Step(p, [run[p] EXCEPT !.pc = "compare", !.keep = {}, !.seen = {}])
        /\ UNCHANGED <<users, enrolled, policy>>
    BY <1>7 DEF SyncRoles, db
  <2>2. QED
    BY <1>1, <2>1, RunEnrolls DEF Run
<1>8. CASE Compare(p)
  <2>1. \/ Stop(p, "ok")
        \/ \E pc \in {"create", "publish"} : Step(p, [run[p] EXCEPT !.pc = pc])
    <3>1. CASE policy = NoPolicy
      BY <1>8, <3>1 DEF Compare
    <3>2. CASE policy # NoPolicy /\ policy = run[p].doc
      BY <1>8, <3>2 DEF Compare
    <3>3. CASE policy # NoPolicy /\ policy # run[p].doc
      BY <1>8, <3>3 DEF Compare
    <3>4. QED
      BY <3>1, <3>2, <3>3
  <2>2. UNCHANGED <<users, enrolled, policy>>
    BY <1>8 DEF Compare, db, aws
  <2>3. QED
    BY <1>1, <2>1, <2>2, RunEnrolls, StopEnrolls DEF Run
<1>9. CASE Create(p)
  BY <1>9, StopEnrolls DEF Create, db
<1>10. CASE Publish(p)
  BY <1>10, StopEnrolls DEF Publish, db
<1>11. CASE FailRun(p)
  BY <1>11, StopEnrolls DEF FailRun, db, aws
<1>12. QED
  BY <1>2, <1>3, <1>4, <1>5, <1>6, <1>7, <1>8, <1>9, <1>10, <1>11 DEF RunStep

\* Nor does its start.
LEMMA StartEnrolls ==
    ASSUME IInv, Enrolled, NEW p \in Runners, ReadOrg(p),
           UNCHANGED <<users, policy, enrolled>>
    PROVE  Enrolled'
<1> DEFINE f == [NoRun("rows") EXCEPT !.org = org]
<1>1. f.rows = NoRows /\ f.doc = NoDoc
  BY DEF NoRun
<1>2. Step(p, f)
  BY DEF ReadOrg
<1> HIDE DEF f
<1>3. QED
  BY <1>1, <1>2, NobodyGoverned, RunEnrolls

\* Nor does a step of a request, whose commit enrols whom it governs.
LEMMA RequestEnrolls ==
    ASSUME IInv, Enrolled, NEW r \in Requests,
           Handle(r) \/ RequestStep(r) \/ LateAnswer(r) \/ DropRequest(r)
    PROVE  Enrolled'
<1>1. ASSUME UNCHANGED <<users, run, policy, enrolled>> PROVE Enrolled'
  BY <1>1 DEF Enrolled, OptIn, Governed, Live
<1>2. CASE Handle(r)
  BY <1>1, <1>2
     DEF Handle, ForceBlock, Unblock, SetCap, Manage, Unmanage, SetStatus,
         Approve, SetPrincipalArn, Delete, Reapply, Receive, db, aws
<1>3. CASE AttachRole(r) \/ ReadTrust(r) \/ WriteTrust(r) \/ Flush(r)
  BY <1>1, <1>3 DEF AttachRole, ReadTrust, WriteTrust, Flush, db, aws
<1>4. CASE CountOthers(r) \/ DetachRole(r)
  BY <1>1, <1>4 DEF CountOthers, DetachRole, db, aws
<1>5. CASE StartApply(r)
  BY <1>5, StartEnrolls DEF StartApply, ReadOrg, Runners, db, aws
<1>6. ASSUME Step(r, NoRun("idle")), UNCHANGED <<users, policy, enrolled>>
      PROVE  Enrolled'
  BY <1>6, RunEnrolls, NoRunEnrolls, NobodyGoverned DEF Runners
<1>7. CASE Answer(r) \/ LateAnswer(r)
  BY <1>6, <1>7 DEF Answer, LateAnswer, AnswerWith, db, aws
<1>8. CASE CommitRequest(r)
  <2>1. enrolled' = enrolled \cup Governed(users') /\ UNCHANGED <<policy, run>>
    BY <1>8 DEF CommitRequest, aws
  <2>2. QED
    BY <2>1 DEF Enrolled, OptIn, Governed, Live
<1>9. CASE DropRequest(r)
  BY <1>6, <1>9 DEF DropRequest, db, aws
<1>10. QED
  BY <1>2, <1>3, <1>4, <1>5, <1>7, <1>8, <1>9 DEF RequestStep

\* Nor does anything else: no other step governs a principal.
LEMMA WorldEnrolls == ASSUME IInv, Enrolled, World PROVE Enrolled'
<1>1. ASSUME UNCHANGED <<run, enrolled>>, policy' \in {policy, NoPolicy},
             Governed(users') \subseteq Governed(users)
      PROVE  Enrolled'
  BY <1>1 DEF Enrolled, OptIn, Governed, Live
<1>2. ASSUME UNCHANGED users PROVE Governed(users') = Governed(users)
  BY <1>2 DEF Governed, Live
<1>3. ASSUME NEW u \in Users, Register(u) PROVE Enrolled'
  <2>1. PICK s \in Status, c \in Caps :
           users' = [users EXCEPT ![u] = [NewRow EXCEPT !.status = s, !.cap = c]]
    BY <1>3 DEF Register
  <2>2. Governed(users') \subseteq Governed(users)
    BY <2>1 DEF Governed, Live, NewRow, IInv, TypeOK, Table
  <2>3. QED
    BY <1>1, <1>3, <2>2 DEF Register, aws
<1>4. ASSUME NEW u \in Users, CurSync(u) PROVE Enrolled'
  <2> DEFINE old == IF users[u] = Gone THEN NewRow ELSE users[u]
  <2>1. PICK role :
           users' = [users EXCEPT ![u] =
                       [old EXCEPT !.role = role, !.idc = (role \in IdcRoles)]]
    BY <1>4 DEF CurSync
  <2>2. old \in Row /\ (old.governed => u \in Governed(users))
    BY NewRowType DEF IInv, TypeOK, Table, NewRow, Governed, Live
  <2> HIDE DEF old
  <2>3. users'[u].governed = old.governed
    BY <2>1, <2>2 DEF IInv, TypeOK, Table, Row
  <2>4. Governed(users') \subseteq Governed(users)
    BY <2>1, <2>2, <2>3 DEF Governed, Live, IInv, TypeOK, Table
  <2>5. QED
    BY <1>1, <1>4, <2>4 DEF CurSync, aws
<1>5. CASE QuotaReset
  <2>1. \A u \in Users : users'[u] = IF users[u] = Gone THEN Gone
                           ELSE [users[u] EXCEPT !.warned = FALSE]
    BY <1>5 DEF QuotaReset
  <2>2. \A u \in Live(users) : users'[u].governed = users[u].governed
    BY <2>1 DEF IInv, TypeOK, Table, Live, Row
  <2>3. Governed(users') \subseteq Governed(users)
    BY <2>1, <2>2 DEF Governed, Live
  <2>4. QED
    BY <1>1, <1>5, <2>3 DEF QuotaReset, aws
<1>6. CASE NewMonth \/ SetOrg \/ OperatorDetach \/ OperatorDelete
  BY <1>1, <1>2, <1>6
     DEF NewMonth, SetOrg, OperatorDetach, OperatorDelete, db, aws
<1>7. QED
  BY <1>3, <1>4, <1>5, <1>6 DEF World

\* Nobody is denied who was never put under governance, whatever stale rows a
\* run has computed from (deny_reconciler.py run: the governed filter, and the
\* document it publishes after its commit).
THEOREM OptInHolds == Spec => []OptIn
<1>1. Init => Enrolled
  BY NobodyGoverned, NoRunEnrolls DEF Init, Enrolled, OptIn
<1>2. IInv /\ Enrolled /\ [Next]_vars => Enrolled'
  <2>1. ASSUME IInv, Enrolled, UNCHANGED vars PROVE Enrolled'
    BY <2>1 DEF vars, Enrolled, OptIn, Governed, Live
  <2>2. ASSUME IInv, Enrolled, NEW p \in Ticks, StartTick(p) PROVE Enrolled'
    BY <2>2, StartEnrolls DEF StartTick, ReadOrg, Runners, db, aws
  <2>3. QED
    BY <2>1, <2>2, RunStepEnrolls, RequestEnrolls, WorldEnrolls DEF Next
<1>3. Enrolled => OptIn
  BY DEF Enrolled
<1>4. QED
  BY Invariant, <1>1, <1>2, <1>3, PTL DEF Spec

-----------------------------------------------------------------------------
(* Identity Center roles are left alone as long as every row's role_type    *)
(* says what its role is.  Rows are read by runs and requests and written   *)
(* back column by column; the two columns stay in step when no one but the  *)
(* CUR sync, which writes both, changes either: without set_principal_arn.  *)

TrueType(row) == row.role \in IdcRoles => row.idc
SameRole(row, other) == row.role = other.role /\ row.idc = other.idc

RunIdc(f) ==
    /\ \A u \in Live(f.rows) : TrueType(f.rows[u])
    /\ f.keep \cap IdcRoles = {}
    /\ f.pc = "write" => \A u \in Live(f.rows) : SameRole(f.after[u], f.rows[u])

ReqIdc(q) ==
    /\ q.pc # "idle" => TrueType(q.row) /\ (q.after # Gone => SameRole(q.after, q.row))
    /\ q.pc \in {"attach", "count", "detach"} => ~q.row.idc

TrueTypes == /\ \A u \in Live(users) : TrueType(users[u])
             /\ \A p \in Runners : RunIdc(run[p])
             /\ \A r \in Requests : ReqIdc(req[r])

\* A run that moves on with roles and types in step keeps them in step.
LEMMA RunIdcMoves ==
    ASSUME IInv, TrueTypes, UNCHANGED <<users, req>>,
           NEW p \in Runners, NEW f, Step(p, f), RunIdc(f)
    PROVE  TrueTypes'
<1>1. \A q \in Runners : run'[q] = IF q = p THEN f ELSE run[q]
  BY DEF Step, IInv, TypeOK
<1>2. \A q \in Runners : RunIdc(run'[q])
  BY <1>1 DEF TrueTypes
<1>3. QED
  BY <1>2 DEF TrueTypes, RunIdc, ReqIdc, Live, TrueType, SameRole

\* So does a request that moves on.
LEMMA ReqIdcMoves ==
    ASSUME IInv, TrueTypes, UNCHANGED <<users, run>>,
           NEW r \in Requests, NEW q, Advance(r, q), ReqIdc(q)
    PROVE  TrueTypes'
<1>1. \A s \in Requests : req'[s] = IF s = r THEN q ELSE req[s]
  BY DEF Advance, IInv, TypeOK
<1>2. \A s \in Requests : ReqIdc(req'[s])
  BY <1>1 DEF TrueTypes
<1>3. QED
  BY <1>2 DEF TrueTypes, RunIdc, ReqIdc, Live, TrueType, SameRole

\* So does a request together with its run.
LEMMA BothIdcMove ==
    ASSUME IInv, TrueTypes, UNCHANGED users,
           NEW p \in Runners, NEW f, Step(p, f), RunIdc(f),
           NEW r \in Requests, NEW q, Advance(r, q), ReqIdc(q)
    PROVE  TrueTypes'
<1>1. /\ \A t \in Runners : run'[t] = IF t = p THEN f ELSE run[t]
      /\ \A s \in Requests : req'[s] = IF s = r THEN q ELSE req[s]
  BY DEF Step, Advance, IInv, TypeOK
<1>2. /\ \A t \in Runners : RunIdc(run'[t])
      /\ \A s \in Requests : ReqIdc(req'[s])
  BY <1>1 DEF TrueTypes
<1>3. QED
  BY <1>2 DEF TrueTypes, RunIdc, ReqIdc, Live, TrueType, SameRole

\* So does a change of the table alone that types every role rightly.
LEMMA WorldIdcMoves ==
    ASSUME TrueTypes, UNCHANGED <<run, req>>,
           \A u \in Live(users') : TrueType(users'[u])
    PROVE  TrueTypes'
BY DEF TrueTypes, RunIdc, ReqIdc, Live, TrueType, SameRole

\* A run that has ended, or only begins, wants no Identity Center role.
LEMMA NoRunIdc ==
    ASSUME NEW pc \in {"idle", "rows", "ok", "failed"}
    PROVE  /\ RunIdc(NoRun(pc))
           /\ \A o : RunIdc([NoRun(pc) EXCEPT !.org = o])
BY DEF RunIdc, NoRun, NoRows, Live

\* Nor has a request that has ended changed any role.
LEMMA NoReqIdc == ReqIdc(NoReq)
BY DEF ReqIdc, NoReq

\* With every role rightly typed, a pass wants no Identity Center role attached.
LEMMA KeepIdc ==
    ASSUME NEW table \in Table, \A u \in Live(table) : TrueType(table[u])
    PROVE  Keep(table) \cap IdcRoles = {}
BY RoleAssumption DEF Keep, GovernedRole, TrueType

\* An UPDATE that leaves the role alone leaves its type right.
LEMMA MergeIdc ==
    ASSUME NEW loaded \in Row, NEW after \in Row, NEW current \in Row,
           SameRole(after, loaded), TrueType(current)
    PROVE  TrueType(Merge(loaded, after, current))
BY MergeType DEF SameRole, TrueType

\* The end of a run keeps roles and types in step.
LEMMA StopIdc ==
    ASSUME IInv, TrueTypes, UNCHANGED <<users, req>>,
           NEW p \in Runners, NEW how \in {"ok", "failed"}, Stop(p, how)
    PROVE  TrueTypes'
<1>1. (IF p \in Requests THEN how ELSE "idle") \in {"idle", "rows", "ok", "failed"}
  OBVIOUS
<1>2. QED
  BY <1>1, NoRunIdc, RunIdcMoves DEF Stop

\* Every step of a run does: one case per step.
LEMMA RunStepIdc ==
    ASSUME IInv, TrueTypes, NEW p \in Runners, RunStep(p) \/ FailRun(p)
    PROVE  TrueTypes'
<1>1. run[p] \in Run /\ RunShape(run[p]) /\ RunIdc(run[p])
  BY DEF IInv, TypeOK, TrueTypes
<1>2. CASE ReadRows(p)
  <2> DEFINE f == [run[p] EXCEPT !.pc = "spend", !.rows = users]
  <2>1. f.pc = "spend" /\ f.rows = users /\ f.keep = run[p].keep
    BY <1>1 DEF Run
  <2>2. Step(p, f) /\ UNCHANGED <<users, req>>
    BY <1>2 DEF ReadRows, db
  <2> HIDE DEF f
  <2>3. RunIdc(f)
    BY <1>1, <2>1 DEF RunIdc, TrueTypes
  <2>4. QED
    BY <2>2, <2>3, RunIdcMoves
<1>3. CASE Decide(p)
  <2> DEFINE o == [run[p].org EXCEPT !.onEstimate = org.onEstimate]
             t == run[p].rows
             doc == [keys   |-> {u \in Live(t) :
                                   Denied(o, t[u], spend[u], unbilled[u])},
                     models |-> o.blocked]
             after == [u \in Users |-> IF t[u] = Gone THEN Gone
                          ELSE After(o, t[u], spend[u], unbilled[u])]
             f == [run[p] EXCEPT !.pc = "write", !.org = AnOrg, !.after = after,
                                 !.doc = doc, !.keep = Keep(t)]
  <2>1. Step(p, f) /\ UNCHANGED <<users, req>>
    BY <1>3 DEF Decide, db
  <2>2. \A u \in Live(t) : SameRole(after[u], t[u])
    BY <1>1, AfterType DEF Live, Run, Table, SameRole
  <2>3. Keep(t) \cap IdcRoles = {}
    BY <1>1, KeepIdc DEF RunIdc, Run
  <2>4. f.rows = t /\ f.after = after /\ f.keep = Keep(t)
    <3> HIDE DEF doc, after, t
    <3>1. QED
      BY <1>1 DEF Run, t
  <2> HIDE DEF doc, after, f
  <2>5. RunIdc(f)
    BY <1>1, <2>2, <2>3, <2>4 DEF RunIdc
  <2>6. QED
    BY <2>1, <2>5, RunIdcMoves
<1>4. CASE FlushRow(p)
  <2>1. UNCHANGED <<users, req>>
    BY <1>4 DEF FlushRow, db
  <2>2. PICK u \in Users : IF users[u] = Gone THEN Stop(p, "failed")
                 ELSE Step(p, [run[p] EXCEPT !.flushed = @ \cup {u}])
    BY <1>4 DEF FlushRow, ToFlush
  <2>3. CASE users[u] = Gone
    BY <2>1, <2>2, <2>3, StopIdc
  <2>4. CASE users[u] # Gone
    <3> DEFINE f == [run[p] EXCEPT !.flushed = @ \cup {u}]
    <3>1. /\ f.pc = run[p].pc /\ f.rows = run[p].rows
          /\ f.after = run[p].after /\ f.keep = run[p].keep
      BY <1>1 DEF Run
    <3>2. Step(p, f)
      BY <2>2, <2>4
    <3> HIDE DEF f
    <3>3. RunIdc(f)
      BY <1>1, <3>1 DEF RunIdc
    <3>4. QED
      BY <2>1, <3>2, <3>3, RunIdcMoves
  <2>5. QED
    BY <2>3, <2>4
<1>5. CASE CommitRun(p)
  <2> DEFINE f == [run[p] EXCEPT !.pc = "list", !.flushed = {},
                                 !.rows = NoRows, !.after = NoRows]
  <2>1. /\ run[p].pc = "write" /\ UNCHANGED req /\ Step(p, f)
        /\ \A u \in Users : users'[u] = IF u \in run[p].flushed
                        THEN Merge(run[p].rows[u], run[p].after[u], users[u])
                        ELSE users[u]
    BY <1>5 DEF CommitRun
  <2>2. \A u \in run[p].flushed : /\ run[p].rows[u] \in Row
                                  /\ run[p].after[u] \in Row
                                  /\ users[u] \in Row /\ users[u] # Gone
    BY <1>1, <2>1 DEF RunShape, IInv, Locks, TypeOK, Run, Table
  <2>3. \A u \in run[p].flushed :
           SameRole(run[p].after[u], run[p].rows[u]) /\ TrueType(users[u])
    BY <1>1, <2>1, <2>2, NullsAssumption DEF RunIdc, TrueTypes, Live, Run
  <2>4. \A u \in Live(users') : TrueType(users'[u])
    BY <2>1, <2>2, <2>3, MergeIdc DEF TrueTypes, Live
  <2>5. f.rows = NoRows /\ f.keep = run[p].keep /\ f.pc = "list"
    BY <1>1 DEF Run
  <2> HIDE DEF f
  <2>6. RunIdc(f)
    BY <1>1, <2>5 DEF RunIdc, NoRows, Live
  <2>7. \A q \in Runners : run'[q] = IF q = p THEN f ELSE run[q]
    BY <2>1 DEF Step, IInv, TypeOK
  <2>8. \A q \in Runners : RunIdc(run'[q])
    BY <2>6, <2>7 DEF TrueTypes
  <2>9. QED
    BY <2>1, <2>4, <2>8 DEF TrueTypes, RunIdc, ReqIdc, Live, TrueType, SameRole
<1>6. ASSUME NEW f \in Run, Step(p, f), UNCHANGED <<users, req>>,
             f.rows = run[p].rows, f.pc # "write", f.keep \subseteq run[p].keep
      PROVE  TrueTypes'
  <2>1. RunIdc(f)
    BY <1>1, <1>6 DEF RunIdc
  <2>2. QED
    BY <1>6, <2>1, RunIdcMoves
<1>7. CASE ListRoles(p)
  <2>1. PICK seen \in {attached, {}} :
           Step(p, [run[p] EXCEPT !.pc = "sync", !.seen = seen])
    BY <1>7 DEF ListRoles
  <2>2. QED
    BY <1>1, <1>6, <1>7, <2>1 DEF ListRoles, Run, IInv, TypeOK, db
<1>8. CASE SyncRoles(p)
  <2>1. /\ Step(p, [run[p] EXCEPT !.pc = "compare", !.keep = {}, !.seen = {}])
        /\ UNCHANGED <<users, req>>
    BY <1>8 DEF SyncRoles, db
  <2>2. QED
    BY <1>1, <1>6, <2>1 DEF Run
<1>9. CASE Compare(p)
  <2>1. \/ Stop(p, "ok")
        \/ \E pc \in {"create", "publish"} : Step(p, [run[p] EXCEPT !.pc = pc])
    <3>1. CASE policy = NoPolicy
      BY <1>9, <3>1 DEF Compare
    <3>2. CASE policy # NoPolicy /\ policy = run[p].doc
      BY <1>9, <3>2 DEF Compare
    <3>3. CASE policy # NoPolicy /\ policy # run[p].doc
      BY <1>9, <3>3 DEF Compare
    <3>4. QED
      BY <3>1, <3>2, <3>3
  <2>2. UNCHANGED <<users, req>>
    BY <1>9 DEF Compare, db
  <2>3. ASSUME NEW pc \in {"create", "publish"}, Step(p, [run[p] EXCEPT !.pc = pc])
        PROVE  TrueTypes'
    BY <1>1, <1>6, <2>2, <2>3 DEF Run
  <2>4. QED
    BY <2>1, <2>2, <2>3, StopIdc
<1>10. CASE Create(p)
  BY <1>10, StopIdc DEF Create, db
<1>11. CASE Publish(p)
  BY <1>11, StopIdc DEF Publish, db
<1>12. CASE FailRun(p)
  BY <1>12, StopIdc DEF FailRun, db
<1>13. QED
  BY <1>2, <1>3, <1>4, <1>5, <1>7, <1>8, <1>9, <1>10, <1>11, <1>12 DEF RunStep

\* So does its start.
LEMMA StartIdc ==
    ASSUME IInv, TrueTypes, NEW p \in Ticks, StartTick(p)
    PROVE  TrueTypes'
<1>1. RunIdc([NoRun("rows") EXCEPT !.org = org])
  BY NoRunIdc
<1>2. QED
  BY <1>1, RunIdcMoves DEF StartTick, ReadOrg, Runners, db

\* So does a request received that changes no role.
LEMMA ReceiveIdc ==
    ASSUME IInv, TrueTypes, NEW r \in Requests, NEW op,
           NEW u \in Live(users), NEW after,
           NEW pc \in {"attach", "trust", "flush", "apply"},
           pc = "attach" => ~users[u].idc,
           after # Gone => SameRole(after, users[u]),
           Receive(r, op, u, after, pc)
    PROVE  TrueTypes'
<1> DEFINE q == [NoReq EXCEPT !.pc = pc, !.op = op, !.user = u,
                              !.row = users[u], !.after = after]
<1>1. q.pc = pc /\ q.row = users[u] /\ q.after = after
  BY DEF NoReq
<1>2. Advance(r, q) /\ UNCHANGED <<users, run>>
  BY DEF Receive, db
<1> HIDE DEF q
<1>3. ReqIdc(q)
  BY <1>1 DEF ReqIdc, TrueTypes
<1>4. QED
  BY <1>2, <1>3, ReqIdcMoves

\* So does every handler that starts, set_principal_arn excepted.
LEMMA HandleIdc ==
    ASSUME "set_role" \notin Ops, IInv, TrueTypes, NEW r \in Requests, Handle(r)
    PROVE  TrueTypes'
<1>1. PICK u \in Live(users) :
         \/ ForceBlock(r, u) \/ Unblock(r, u)  \/ SetCap(r, u)
         \/ Manage(r, u)     \/ Unmanage(r, u) \/ SetStatus(r, u)
         \/ Approve(r, u)    \/ SetPrincipalArn(r, u)
         \/ Delete(r, u)     \/ Reapply(r, u)
  BY DEF Handle
<1>2. users[u] \in Row
  BY DEF Live, IInv, TypeOK, Table
<1> USE ReceiveIdc DEF SameRole, Row
<1>3. CASE ForceBlock(r, u)
  BY <1>2, <1>3 DEF ForceBlock
<1>4. CASE Unblock(r, u)
  BY <1>2, <1>4 DEF Unblock
<1>5. CASE SetCap(r, u)
  BY <1>2, <1>5 DEF SetCap
<1>6. CASE Manage(r, u)
  <2>1. CASE users[u].idc
    BY <1>2, <1>6, <2>1 DEF Manage
  <2>2. CASE ~users[u].idc
    BY <1>2, <1>6, <2>2 DEF Manage
  <2>3. QED
    BY <2>1, <2>2
<1>7. CASE Unmanage(r, u)
  <2> DEFINE status == IF users[u].status = "force_blocked" THEN "active"
                       ELSE users[u].status
             after  == [users[u] EXCEPT !.governed = FALSE, !.status = status]
  <2>1. SameRole(after, users[u])
    BY <1>2
  <2>2. Receive(r, "unmanage", u, after, "flush")
    BY <1>2, <1>7 DEF Unmanage
  <2> HIDE DEF after
  <2>3. QED
    BY <2>1, <2>2
<1>8. CASE SetStatus(r, u)
  BY <1>2, <1>8 DEF SetStatus
<1>9. CASE Approve(r, u)
  BY <1>2, <1>9 DEF Approve
<1>10. ~SetPrincipalArn(r, u)
  BY DEF SetPrincipalArn, Receive, Happens
<1>11. CASE Delete(r, u)
  BY <1>2, <1>11 DEF Delete
<1>12. CASE Reapply(r, u)
  BY <1>2, <1>12 DEF Reapply
<1>13. QED
  BY <1>1, <1>3, <1>4, <1>5, <1>6, <1>7, <1>8, <1>9, <1>10, <1>11, <1>12

\* So does every step of a request: one case per step.
LEMMA RequestStepIdc ==
    ASSUME IInv, TrueTypes, NEW r \in Requests,
           RequestStep(r) \/ LateAnswer(r) \/ DropRequest(r)
    PROVE  TrueTypes'
<1>1. req[r] \in Req /\ ReqShape(req[r]) /\ ReqIdc(req[r]) /\ r \in Runners
  BY DEF IInv, TypeOK, TrueTypes, Runners
\* A request that goes on to pc, whose row is as it has loaded it.
<1>2. ASSUME NEW q \in Req, Advance(r, q), UNCHANGED <<users, run>>,
             req[r].pc # "idle", q.row = req[r].row, q.after = req[r].after,
             q.pc \in {"attach", "count", "detach"} => ~q.row.idc
      PROVE  TrueTypes'
  <2>1. ReqIdc(q)
    BY <1>1, <1>2 DEF ReqIdc
  <2>2. QED
    BY <1>2, <2>1, ReqIdcMoves
<1>3. CASE AttachRole(r)
  <2>1. CASE policy = NoPolicy
    BY <1>3, <2>1, NoReqIdc, ReqIdcMoves DEF AttachRole, db
  <2>2. CASE policy # NoPolicy
    BY <1>1, <1>2, <1>3, <2>2 DEF AttachRole, Goto, Req, db
  <2>3. QED
    BY <2>1, <2>2
<1>4. CASE ReadTrust(r)
  <2>1. \/ Advance(r, [req[r] EXCEPT !.pc = AfterTrust(req[r])])
        \/ Advance(r, [req[r] EXCEPT !.pc = "wire", !.found = trust])
    BY <1>4 DEF ReadTrust, Goto
  <2>2. UNCHANGED <<users, run>> /\ req[r].pc = "trust"
    BY <1>4 DEF ReadTrust, db
  <2>3. trust \subseteq IdcRoles /\ AfterTrust(req[r]) \in {"flush", "commit"}
    BY DEF AfterTrust, IInv, TypeOK
  <2>4. QED
    BY <1>1, <1>2, <2>1, <2>2, <2>3 DEF Req
<1>5. CASE WriteTrust(r)
  <2>1. /\ Advance(r, [req[r] EXCEPT !.pc = AfterTrust(req[r]), !.found = {}])
        /\ UNCHANGED <<users, run>> /\ req[r].pc = "wire"
    BY <1>5 DEF WriteTrust, db
  <2>2. AfterTrust(req[r]) \in {"flush", "commit"}
    BY DEF AfterTrust
  <2>3. QED
    BY <1>1, <1>2, <2>1, <2>2 DEF Req
<1>6. CASE Flush(r)
  <2> DEFINE q == [req[r] EXCEPT !.pc = AfterFlush(req[r]), !.flushed = TRUE]
  <2>1. UNCHANGED <<users, run>> /\ req[r].pc = "flush"
    BY <1>6 DEF Flush, db
  <2>2. CASE users[req[r].user] = Gone
    BY <1>6, <2>1, <2>2, NoReqIdc, ReqIdcMoves DEF Flush
  <2>3. CASE users[req[r].user] # Gone
    <3>1. /\ AfterFlush(req[r]) \in {"trust", "count", "apply", "commit"}
          /\ AfterFlush(req[r]) = "count" => ~req[r].row.idc
      BY DEF AfterFlush
    <3>2. /\ q \in Req /\ q.row = req[r].row /\ q.after = req[r].after
          /\ q.pc = AfterFlush(req[r])
      BY <1>1, <3>1 DEF Req
    <3>3. Advance(r, q)
      BY <1>6, <2>3 DEF Flush
    <3> HIDE DEF q
    <3>4. QED
      BY <1>2, <2>1, <3>1, <3>2, <3>3
  <2>4. QED
    BY <2>2, <2>3
<1>7. CASE CountOthers(r)
  <2>1. PICK pc \in {"detach", "commit"} : Advance(r, [req[r] EXCEPT !.pc = pc])
    BY <1>7 DEF CountOthers, Goto
  <2>2. UNCHANGED <<users, run>> /\ req[r].pc = "count" /\ ~req[r].row.idc
    BY <1>1, <1>7 DEF CountOthers, ReqIdc, db
  <2>3. QED
    BY <1>1, <1>2, <2>1, <2>2 DEF Req
<1>8. CASE DetachRole(r)
  BY <1>1, <1>2, <1>8 DEF DetachRole, Goto, Req, db
<1>9. CASE StartApply(r)
  <2> DEFINE d == DeniedOnBilled(org, req[r].after, spend[req[r].user])
             q == [req[r] EXCEPT !.pc = "running", !.denied = d]
  <2>1. /\ Advance(r, q) /\ Step(r, [NoRun("rows") EXCEPT !.org = org])
        /\ UNCHANGED users /\ req[r].pc = "apply"
    BY <1>9 DEF StartApply, ReadOrg, db
  <2>2. q.pc = "running" /\ q.row = req[r].row /\ q.after = req[r].after
    BY <1>1 DEF Req
  <2> HIDE DEF q
  <2>3. ReqIdc(q)
    BY <1>1, <2>1, <2>2 DEF ReqIdc
  <2>4. QED
    BY <1>1, <2>1, <2>3, NoRunIdc, BothIdcMove
<1>10. ASSUME NEW answer, AnswerWith(r, answer) PROVE TrueTypes'
  <2> DEFINE q == [req[r] EXCEPT !.pc = "commit", !.answer = answer]
  <2>1. /\ Advance(r, q) /\ Step(r, NoRun("idle"))
        /\ UNCHANGED users /\ req[r].pc = "running"
    BY <1>10 DEF AnswerWith, db
  <2>2. q.pc = "commit" /\ q.row = req[r].row /\ q.after = req[r].after
    BY <1>1 DEF Req
  <2> HIDE DEF q
  <2>3. ReqIdc(q)
    BY <1>1, <2>1, <2>2 DEF ReqIdc
  <2>4. QED
    BY <1>1, <2>1, <2>3, NoRunIdc, BothIdcMove
<1>11. CASE Answer(r) \/ LateAnswer(r)
  BY <1>10, <1>11 DEF Answer, LateAnswer
<1>12. CASE CommitRequest(r)
  <2> DEFINE q == req[r]
  <2>1. q.flushed => q.row \in Row /\ users[q.user] \in Row
    BY <1>1 DEF IInv, TypeOK, Locks, Req, ReqShape, Table
  <2>2. q.pc = "commit" /\ UNCHANGED run /\ Advance(r, NoReq)
    BY <1>12 DEF CommitRequest
  <2>3. \A u \in Users :
           \/ users'[u] = users[u]
           \/ users'[u] = Gone
           \/ /\ q.flushed /\ u = q.user /\ q.after # Gone
              /\ users'[u] = Merge(q.row, q.after, users[u])
    BY <1>12 DEF CommitRequest, IInv, TypeOK, Table
  <2>4. q.flushed /\ q.after # Gone =>
           /\ TrueType(Merge(q.row, q.after, users[q.user]))
    <3>1. q.flushed /\ q.after # Gone =>
             /\ q.after \in Row /\ SameRole(q.after, q.row)
             /\ TrueType(users[q.user])
      BY <1>1, <2>1, <2>2, NullsAssumption DEF ReqIdc, Req, TrueTypes, Live
    <3>2. QED
      BY <2>1, <3>1, MergeIdc
  <2>5. \A u \in Live(users') : TrueType(users'[u])
    BY <2>3, <2>4 DEF TrueTypes, Live
  <2>6. \A s \in Requests : req'[s] = IF s = r THEN NoReq ELSE req[s]
    BY <2>2 DEF Advance, IInv, TypeOK
  <2>7. \A s \in Requests : ReqIdc(req'[s])
    BY <2>6, NoReqIdc DEF TrueTypes
  <2>8. QED
    BY <2>2, <2>5, <2>7 DEF TrueTypes, RunIdc, ReqIdc, Live, TrueType, SameRole
<1>13. CASE DropRequest(r)
  BY <1>1, <1>13, NoRunIdc, NoReqIdc, BothIdcMove DEF DropRequest, db
<1>14. QED
  BY <1>3, <1>4, <1>5, <1>6, <1>7, <1>8, <1>9, <1>11, <1>12, <1>13
     DEF RequestStep

\* So does every other step: the CUR sync writes role and type together.
LEMMA WorldIdc == ASSUME IInv, TrueTypes, World PROVE TrueTypes'
<1>1. ASSUME NEW u \in Users, Register(u) PROVE TrueTypes'
  <2>1. PICK s, c :
           users' = [users EXCEPT ![u] = [NewRow EXCEPT !.status = s, !.cap = c]]
    BY <1>1 DEF Register
  <2>2. TrueType([NewRow EXCEPT !.status = s, !.cap = c])
    BY NoRoleIsNoRole, RoleAssumption DEF TrueType, NewRow
  <2>3. \A v \in Live(users') : TrueType(users'[v])
    BY <2>1, <2>2 DEF TrueTypes, Live, IInv, TypeOK, Table
  <2>4. QED
    BY <1>1, <2>3, WorldIdcMoves DEF Register
<1>2. ASSUME NEW u \in Users, CurSync(u) PROVE TrueTypes'
  <2> DEFINE old == IF users[u] = Gone THEN NewRow ELSE users[u]
  <2>1. PICK role :
           users' = [users EXCEPT ![u] =
                       [old EXCEPT !.role = role, !.idc = (role \in IdcRoles)]]
    BY <1>2 DEF CurSync
  <2>2. old \in Row
    BY NewRowType DEF IInv, TypeOK, Table
  <2> HIDE DEF old
  <2>3. TrueType([old EXCEPT !.role = role, !.idc = (role \in IdcRoles)])
    BY <2>2 DEF TrueType, Row
  <2>4. \A v \in Live(users') : TrueType(users'[v])
    BY <2>1, <2>3 DEF TrueTypes, Live, IInv, TypeOK, Table
  <2>5. QED
    BY <1>2, <2>4, WorldIdcMoves DEF CurSync
<1>3. CASE QuotaReset
  <2>1. \A u \in Users : users'[u] = IF users[u] = Gone THEN Gone
                           ELSE [users[u] EXCEPT !.warned = FALSE]
    BY <1>3 DEF QuotaReset
  <2>2. \A u \in Live(users) : SameRole(users'[u], users[u])
    BY <2>1 DEF IInv, TypeOK, Table, Live, Row, SameRole
  <2>3. \A u \in Live(users') : TrueType(users'[u])
    BY <2>1, <2>2 DEF TrueTypes, TrueType, SameRole, Live
  <2>4. QED
    BY <1>3, <2>3, WorldIdcMoves DEF QuotaReset
<1>4. CASE NewMonth \/ SetOrg \/ OperatorDetach \/ OperatorDelete
  <2>1. UNCHANGED <<users, run, req>>
    BY <1>4 DEF NewMonth, SetOrg, OperatorDetach, OperatorDelete, db
  <2>2. QED
    BY <2>1 DEF TrueTypes, RunIdc, ReqIdc, Live, TrueType, SameRole
<1>5. QED
  BY <1>1, <1>2, <1>3, <1>4 DEF World

\* Who attaches or detaches: three steps of runs and requests and the
\* operator, none of whom then touches an Identity Center role.
LEMMA StepIdc ==
    ASSUME IInv, TrueTypes, Next
    PROVE  attached' \cap IdcRoles = attached \cap IdcRoles
<1>1. ASSUME NEW p \in Runners, SyncRoles(p)
      PROVE  attached' \cap IdcRoles = attached \cap IdcRoles
  <2>1. PICK done :
           attached' = IF policy = NoPolicy THEN attached
                       ELSE (attached \cup ((run[p].keep \ run[p].seen) \cap done))
                            \ (((run[p].seen \ run[p].keep) \ IdcRoles) \cap done)
    BY <1>1 DEF SyncRoles
  <2>2. run[p].keep \cap IdcRoles = {}
    BY DEF TrueTypes, RunIdc
  <2>3. QED
    BY <2>1, <2>2
<1>2. ASSUME NEW p \in Runners, Create(p)
      PROVE  attached' \cap IdcRoles = attached \cap IdcRoles
  BY <1>2, RoleAssumption DEF Create
<1>3. ASSUME NEW r \in Requests, AttachRole(r) \/ DetachRole(r)
      PROVE  attached' \cap IdcRoles = attached \cap IdcRoles
  <2>1. req[r].row.role \notin IdcRoles
    BY <1>3 DEF AttachRole, DetachRole, TrueTypes, ReqIdc, TrueType
  <2>2. QED
    BY <1>3, <2>1 DEF AttachRole, DetachRole
<1>4. ASSUME OperatorDetach \/ OperatorDelete
      PROVE  attached' \cap IdcRoles = attached \cap IdcRoles
  BY <1>4 DEF OperatorDetach, OperatorDelete
<1>5. ASSUME UNCHANGED attached
      PROVE  attached' \cap IdcRoles = attached \cap IdcRoles
  BY <1>5
<1>6. ASSUME NEW p \in Runners, RunStep(p) \/ FailRun(p)
      PROVE  SyncRoles(p) \/ Create(p) \/ UNCHANGED attached
  BY <1>6 DEF RunStep, FailRun, ReadRows, Decide, FlushRow, CommitRun, ListRoles,
              Compare, Publish, aws
<1>7. ASSUME NEW r \in Requests,
             Handle(r) \/ RequestStep(r) \/ LateAnswer(r) \/ DropRequest(r)
      PROVE  AttachRole(r) \/ DetachRole(r) \/ UNCHANGED attached
  <2>1. CASE Handle(r)
    BY <2>1 DEF Handle, ForceBlock, Unblock, SetCap, Manage, Unmanage, SetStatus,
                Approve, SetPrincipalArn, Delete, Reapply, Receive, aws
  <2>2. CASE RequestStep(r) \/ LateAnswer(r) \/ DropRequest(r)
    BY <2>2 DEF RequestStep, ReadTrust, WriteTrust, Flush, CountOthers, StartApply,
                ReadOrg, Answer, LateAnswer, AnswerWith, CommitRequest, DropRequest,
                aws
  <2>3. QED
    BY <1>7, <2>1, <2>2
<1>8. ASSUME World PROVE OperatorDetach \/ OperatorDelete \/ UNCHANGED attached
  BY <1>8 DEF World, Register, CurSync, NewMonth, QuotaReset, SetOrg, aws
<1>9. ASSUME NEW p \in Ticks, StartTick(p) PROVE UNCHANGED attached
  BY <1>9 DEF StartTick, ReadOrg, aws
<1>10. QED
  BY <1>1, <1>2, <1>3, <1>4, <1>5, <1>6, <1>7, <1>8, <1>9 DEF Next

\* Unless an admin sets a principal's role by hand, tg never attaches to nor
\* detaches from an Identity Center role (deny_reconciler.py:192-199), however
\* many runs and requests overlap and wherever they stop.
THEOREM IdcSafe ==
    ASSUME "set_role" \notin Ops
    PROVE  Spec => IdcUntouched
<1>1. Init => TrueTypes
  BY DataAssumption, NoRunIdc, NoReqIdc
     DEF Init, TrueTypes, TrueType, Live
<1>2. IInv /\ TrueTypes /\ [Next]_vars => TrueTypes'
  <2>1. ASSUME TrueTypes, UNCHANGED vars PROVE TrueTypes'
    BY <2>1 DEF vars, TrueTypes, RunIdc, ReqIdc, Live, TrueType, SameRole
  <2>2. QED
    BY <2>1, StartIdc, RunStepIdc, HandleIdc, RequestStepIdc, WorldIdc DEF Next
<1>3. IInv /\ TrueTypes /\ [Next]_vars
        => [attached' \cap IdcRoles = attached \cap IdcRoles]_vars
  BY StepIdc
<1>4. QED
  BY Invariant, <1>1, <1>2, <1>3, PTL DEF Spec, IdcUntouched

-----------------------------------------------------------------------------
(* A run's commit keeps the denials that billed spend asks for.  What it    *)
(* can change of them is a force-block: it writes a status computed from a  *)
(* row read before.  Without new force-blocks and without anybody newly     *)
(* governed, a row that is force-blocked now was so when any open run has   *)
(* read it, and so is what the run writes.                                  *)

\* Neither a force-block, by itself or as a status, nor a manage.
Quiet == {"force_block", "set_status", "manage"} \cap Ops = {}

Asks(row) == row.governed /\ row.status = "force_blocked"

\* A row that is no more governed and no more force-blocked than another.
Softer(row, other) ==
    /\ row.governed => other.governed
    /\ row.status = "force_blocked" => other.status = "force_blocked"

\* What a pass makes of a row.
KeepsAsk(after, row) ==
    /\ after.governed = row.governed /\ after.cap = row.cap
    /\ Softer(after, row) /\ (Asks(row) => Asks(after))

\* A run that has read the rows has seen every force-block there is.
RunAsks(f, table) ==
    /\ f.pc \in {"spend", "write"} =>
          \A u \in Live(table) : Asks(table[u]) => u \in Live(f.rows) /\ Asks(f.rows[u])
    /\ f.pc = "write" => \A u \in Live(f.rows) : KeepsAsk(f.after[u], f.rows[u])

ReqAsks(q) == q.row # Gone /\ q.after # Gone => Softer(q.after, q.row)

AsksKept == /\ \A p \in Runners : RunAsks(run[p], users)
            /\ \A r \in Requests : ReqAsks(req[r])

\* Merging a change that is no harsher is no harsher.
LEMMA MergeAsks ==
    ASSUME NEW loaded \in Row, NEW after \in Row, NEW current \in Row, Softer(after, loaded)
    PROVE  /\ Softer(Merge(loaded, after, current), current)
           /\ KeepsAsk(after, loaded) =>
                 /\ Merge(loaded, after, current).governed = current.governed
                 /\ Merge(loaded, after, current).cap = current.cap
                 /\ Asks(loaded) /\ Asks(current) => Asks(Merge(loaded, after, current))
<1> DEFINE m == Merge(loaded, after, current)
<1>1. /\ m.governed = IF after.governed # loaded.governed THEN after.governed ELSE current.governed
      /\ m.status = IF after.status # loaded.status THEN after.status ELSE current.status
      /\ m.cap = IF after.cap # loaded.cap THEN after.cap ELSE current.cap
  BY DEF Merge, Row
<1>2. /\ loaded.governed \in BOOLEAN /\ after.governed \in BOOLEAN /\ current.governed \in BOOLEAN
  BY DEF Row
<1> HIDE DEF m
<1>3. Softer(m, current)
  BY <1>1, <1>2 DEF Softer
<1>4. ASSUME KeepsAsk(after, loaded)
      PROVE  m.governed = current.governed /\ m.cap = current.cap
             /\ (Asks(loaded) /\ Asks(current) => Asks(m))
  BY <1>1, <1>4 DEF KeepsAsk, Asks, Softer
<1>5. QED
  BY <1>3, <1>4 DEF m

\* A pass leaves a force-block of a governed principal, and adds none.
LEMMA AfterAsks ==
    ASSUME NEW o, NEW row \in Row, NEW s, NEW e PROVE KeepsAsk(After(o, row, s, e), row)
<1>1. /\ After(o, row, s, e).governed = row.governed /\ After(o, row, s, e).cap = row.cap
      /\ After(o, row, s, e).status = StatusAfter(o, row, s, e)
  BY AfterType
<1>2. StatusAfter(o, row, s, e) = "force_blocked" => row.status = "force_blocked"
  BY DEF StatusAfter
<1>3. Asks(row) => StatusAfter(o, row, s, e) = "force_blocked"
  BY DEF StatusAfter, Asks
<1>4. QED
  BY <1>1, <1>2, <1>3 DEF KeepsAsk, Softer, Asks

\* What a run's commit does to a row that is there.
LEMMA CommitAsks ==
    ASSUME IInv, AsksKept, NEW p \in Runners, CommitRun(p), NEW u \in Users
    PROVE  /\ users'[u] = Gone <=> users[u] = Gone
           /\ users[u] # Gone => KeepsAsk(users'[u], users[u])
<1> DEFINE f == run[p]
<1>1. f \in Run /\ RunShape(f) /\ f.pc = "write" /\ RunAsks(f, users)
  BY DEF CommitRun, IInv, TypeOK, AsksKept
<1>2. users'[u] = IF u \in f.flushed THEN Merge(f.rows[u], f.after[u], users[u]) ELSE users[u]
  BY DEF CommitRun
<1>3. users \in Table /\ Gone \notin Row
  BY NullsAssumption DEF IInv, TypeOK
<1>4. CASE u \in f.flushed
  <2>1. f.rows[u] \in Row /\ f.after[u] \in Row /\ users[u] \in Row /\ u \in Live(f.rows)
    BY <1>1, <1>4 DEF RunShape, IInv, Locks, TypeOK, Run, Table, Live
  <2>2. KeepsAsk(f.after[u], f.rows[u])
    BY <1>1, <2>1 DEF RunAsks
  <2>3. Asks(users[u]) => Asks(f.rows[u])
    BY <1>1, <1>3, <2>1 DEF RunAsks, Live
  <2> DEFINE m == Merge(f.rows[u], f.after[u], users[u])
  <2>4. m \in Row
    BY <2>1, MergeType
  <2>5. /\ Softer(m, users[u]) /\ m.governed = users[u].governed /\ m.cap = users[u].cap
        /\ Asks(f.rows[u]) /\ Asks(users[u]) => Asks(m)
    BY <2>1, <2>2, MergeAsks DEF KeepsAsk
  <2>6. users'[u] = m
    BY <1>2, <1>4
  <2> HIDE DEF m, f
  <2>7. QED
    BY <1>3, <2>1, <2>3, <2>4, <2>5, <2>6 DEF KeepsAsk
<1>5. CASE u \notin f.flushed
  BY <1>2, <1>5 DEF KeepsAsk, Softer
<1>6. QED
  BY <1>4, <1>5

\* The rows that ask for a denial by force were there and asked for it before.
NoNewAsks == \A u \in Live(users') : Asks(users'[u]) => u \in Live(users) /\ Asks(users[u])

LEMMA CommitRequestAsks ==
    ASSUME IInv, AsksKept, NEW r \in Requests, CommitRequest(r) PROVE NoNewAsks
<1> DEFINE q == req[r]
<1>1. q \in Req /\ ReqShape(q) /\ q.pc = "commit" /\ ReqAsks(q)
  BY DEF CommitRequest, IInv, TypeOK, AsksKept
<1>2. q.flushed => q.row \in Row /\ users[q.user] \in Row
  BY <1>1 DEF IInv, TypeOK, Locks, Req, ReqShape, Table
<1>3. q.flushed /\ q.after # Gone => q.after \in Row
  BY <1>1 DEF Req
<1>4. SUFFICES ASSUME NEW u \in Live(users'), Asks(users'[u])
               PROVE  u \in Live(users) /\ Asks(users[u])
  BY DEF NoNewAsks
<1>5. CASE users'[u] = users[u]
  BY <1>4, <1>5 DEF Live
<1>6. CASE users'[u] # users[u]
  <2>1. q.flushed /\ u = q.user /\ q.after # Gone /\ users'[u] = Merge(q.row, q.after, users[u])
    BY <1>6 DEF CommitRequest, IInv, TypeOK, Table, Live
  <2>2. q.row \in Row /\ users[u] \in Row /\ q.after \in Row /\ Softer(q.after, q.row)
    BY <1>1, <1>2, <1>3, <2>1, NullsAssumption DEF ReqAsks
  <2>3. Softer(users'[u], users[u])
    BY <2>1, <2>2, MergeAsks
  <2>4. QED
    BY <1>4, <2>2, <2>3, NullsAssumption DEF Softer, Asks, Live
<1>7. QED
  BY <1>5, <1>6

LEMMA WorldAsks == ASSUME IInv, World PROVE NoNewAsks
<1> SUFFICES ASSUME NEW u \in Live(users'), Asks(users'[u])
             PROVE  u \in Live(users) /\ Asks(users[u])
  BY DEF NoNewAsks
<1>1. users \in Table /\ u \in Users /\ Gone \notin Row
  BY NullsAssumption DEF IInv, TypeOK, Live
<1>2. CASE users'[u] = users[u]
  BY <1>2 DEF Live
<1>3. CASE users'[u] # users[u]
  <2>1. ASSUME NEW v \in Users, Register(v) PROVE FALSE
    <3>1. PICK s \in Status, c \in Caps :
             users' = [users EXCEPT ![v] = [NewRow EXCEPT !.status = s, !.cap = c]]
      BY <2>1 DEF Register
    <3>2. ~[NewRow EXCEPT !.status = s, !.cap = c].governed
      BY DEF NewRow
    <3>3. QED
      BY <1>1, <1>3, <3>1, <3>2 DEF Asks, Table
  <2>2. ASSUME NEW v \in Users, CurSync(v) PROVE u \in Live(users) /\ Asks(users[u])
    <3> DEFINE old == IF users[v] = Gone THEN NewRow ELSE users[v]
    <3>1. PICK role \in Roles \cup {NoRole} :
             users' = [users EXCEPT ![v] = [old EXCEPT !.role = role, !.idc = (role \in IdcRoles)]]
      BY <2>2 DEF CurSync
    <3>2. old \in Row
      BY <1>1, NewRowType DEF Table
    <3> HIDE DEF old
    <3>3. u = v /\ users'[u] = [old EXCEPT !.role = role, !.idc = (role \in IdcRoles)]
      BY <1>1, <1>3, <3>1 DEF Table
    <3>4. Asks(old)
      BY <3>2, <3>3 DEF Asks, Row
    <3>5. users[v] # Gone
      BY <3>4 DEF old, Asks, NewRow
    <3>6. QED
      BY <1>1, <3>3, <3>4, <3>5 DEF old, Live
  <2>3. CASE QuotaReset
    <3>1. users'[u] = IF users[u] = Gone THEN Gone ELSE [users[u] EXCEPT !.warned = FALSE]
      BY <1>1, <2>3 DEF QuotaReset
    <3>2. users[u] # Gone /\ users[u] \in Row
      BY <1>1, <3>1 DEF Live, Table
    <3>3. Asks(users[u])
      BY <3>1, <3>2 DEF Asks, Row
    <3>4. QED
      BY <1>1, <3>2, <3>3 DEF Live
  <2>4. CASE NewMonth \/ SetOrg \/ OperatorDetach \/ OperatorDelete
    BY <1>3, <2>4 DEF NewMonth, SetOrg, OperatorDetach, OperatorDelete, db
  <2>5. QED
    BY <2>1, <2>2, <2>3, <2>4 DEF World
<1>4. QED
  BY <1>2, <1>3

\* The rows change only where a run or a request commits and in the world.
LEMMA StepAsks == ASSUME IInv, AsksKept, Next PROVE NoNewAsks
<1>1. ASSUME UNCHANGED users PROVE NoNewAsks
  BY <1>1 DEF NoNewAsks, Live
<1>2. ASSUME NEW p \in Runners, RunStep(p) \/ FailRun(p) PROVE NoNewAsks
  <2>1. CASE CommitRun(p)
    BY <2>1, CommitAsks DEF NoNewAsks, Live, KeepsAsk, Softer, Asks
  <2>2. CASE ~CommitRun(p)
    <3>1. UNCHANGED users
      BY <1>2, <2>2 DEF RunStep, FailRun, ReadRows, Decide, FlushRow, ListRoles, SyncRoles,
                        Compare, Create, Publish, db
    <3>2. QED
      BY <1>1, <3>1
  <2>3. QED
    BY <2>1, <2>2
<1>3. ASSUME NEW r \in Requests, Handle(r) \/ RequestStep(r) \/ LateAnswer(r) \/ DropRequest(r)
      PROVE  NoNewAsks
  <2>1. CASE CommitRequest(r)
    BY <2>1, CommitRequestAsks
  <2>2. CASE Handle(r)
    <3>1. UNCHANGED users
      BY <2>2 DEF Handle, ForceBlock, Unblock, SetCap, Manage, Unmanage, SetStatus,
                  Approve, SetPrincipalArn, Delete, Reapply, Receive, db
    <3>2. QED
      BY <1>1, <3>1
  <2>3. CASE ~CommitRequest(r) /\ ~Handle(r)
    <3>1. UNCHANGED users
      BY <1>3, <2>3 DEF RequestStep, AttachRole, ReadTrust, WriteTrust, Flush, CountOthers,
                        DetachRole, StartApply, ReadOrg, Answer, LateAnswer, AnswerWith,
                        DropRequest, db
    <3>2. QED
      BY <1>1, <3>1
  <2>4. QED
    BY <2>1, <2>2, <2>3
<1>4. ASSUME NEW p \in Ticks, StartTick(p) PROVE NoNewAsks
  BY <1>1, <1>4 DEF StartTick, ReadOrg, db
<1>5. QED
  BY <1>2, <1>3, <1>4, WorldAsks DEF Next

\* A run between a read and its commit.
Open(f) == f.pc \in {"spend", "write"}

\* What a step may do to a run: leave it, take it out of its transaction, or
\* read, decide and flush within it.
LEMMA RunWays ==
    ASSUME IInv, Next, NEW p \in Runners
    PROVE  \/ run'[p] = run[p]
           \/ ~Open(run'[p])
           \/ ReadRows(p)
           \/ Decide(p)
           \/ /\ run[p].pc = "write" /\ run'[p].pc = "write"
              /\ run'[p].rows = run[p].rows /\ run'[p].after = run[p].after
<1> DEFINE Way == \/ run'[p] = run[p]
                  \/ ~Open(run'[p])
                  \/ ReadRows(p)
                  \/ Decide(p)
                  \/ /\ run[p].pc = "write" /\ run'[p].pc = "write"
                     /\ run'[p].rows = run[p].rows /\ run'[p].after = run[p].after
<1>1. \A q \in Runners : run[q] \in Run
  BY DEF IInv, TypeOK
\* The end of a run, or its start: it has read nothing.
<1>2. ASSUME NEW q \in Runners, NEW f, Step(q, f), ~Open(f) PROVE Way
  BY <1>2 DEF Step, IInv, TypeOK
<1>3. \A pc \in {"idle", "rows", "ok", "failed"} :
          ~Open(NoRun(pc)) /\ \A o : ~Open([NoRun(pc) EXCEPT !.org = o])
  BY DEF Open, NoRun
<1>4. ASSUME NEW q \in Runners, NEW how \in {"ok", "failed"}, Stop(q, how) PROVE Way
  <2>1. (IF q \in Requests THEN how ELSE "idle") \in {"idle", "rows", "ok", "failed"}
    OBVIOUS
  <2>2. QED
    BY <1>2, <1>3, <1>4, <2>1 DEF Stop
<1>5. ASSUME NEW q \in Runners, RunStep(q) \/ FailRun(q) PROVE Way
  <2>1. CASE ReadRows(q) \/ Decide(q)
    <3>1. CASE p = q
      BY <2>1, <3>1
    <3>2. CASE p # q
      <4>1. PICK f : run' = [run EXCEPT ![q] = f]
        BY <2>1 DEF ReadRows, Decide, Step
      <4>2. QED
        BY <3>2, <4>1 DEF IInv, TypeOK
    <3>3. QED
      BY <3>1, <3>2
  <2>2. CASE FlushRow(q)
    <3>1. PICK u \in ToFlush(q) :
             IF users[u] = Gone
             THEN Stop(q, "failed")
             ELSE Step(q, [run[q] EXCEPT !.flushed = @ \cup {u}])
      BY <2>2 DEF FlushRow
    <3>2. CASE Stop(q, "failed")
      BY <1>4, <3>2
    <3> DEFINE f == [run[q] EXCEPT !.flushed = @ \cup {u}]
    <3>3. CASE Step(q, f)
      <4>1. f.pc = "write" /\ run[q].pc = "write" /\ f.rows = run[q].rows /\ f.after = run[q].after
        BY <1>1, <2>2 DEF FlushRow, Run
      <4>2. run'[p] = IF p = q THEN f ELSE run[p]
        BY <3>3 DEF Step, IInv, TypeOK
      <4> HIDE DEF f
      <4>3. QED
        BY <4>1, <4>2
    <3>4. QED
      BY <3>1, <3>2, <3>3
  <2>3. CASE CommitRun(q)
    <3> DEFINE f == [run[q] EXCEPT !.pc = "list", !.flushed = {}, !.rows = NoRows, !.after = NoRows]
    <3>1. Step(q, f) /\ ~Open(f)
      BY <1>1, <2>3 DEF CommitRun, Open, Run
    <3> HIDE DEF f
    <3>2. QED
      BY <1>2, <3>1
  <2>4. CASE ListRoles(q)
    <3>1. PICK seen : Step(q, [run[q] EXCEPT !.pc = "sync", !.seen = seen])
      BY <2>4 DEF ListRoles
    <3> DEFINE f == [run[q] EXCEPT !.pc = "sync", !.seen = seen]
    <3>2. ~Open(f)
      BY <1>1 DEF Open, Run
    <3> HIDE DEF f
    <3>3. QED
      BY <1>2, <3>1, <3>2 DEF f
  <2>5. CASE SyncRoles(q)
    <3> DEFINE f == [run[q] EXCEPT !.pc = "compare", !.keep = {}, !.seen = {}]
    <3>1. Step(q, f) /\ ~Open(f)
      BY <1>1, <2>5 DEF SyncRoles, Open, Run
    <3> HIDE DEF f
    <3>2. QED
      BY <1>2, <3>1
  <2>6. CASE Compare(q)
    <3>1. \/ Stop(q, "ok") \/ \E pc \in {"create", "publish"} : Step(q, [run[q] EXCEPT !.pc = pc])
      BY <2>6 DEF Compare
    <3>2. ASSUME NEW pc \in {"create", "publish"}, Step(q, [run[q] EXCEPT !.pc = pc]) PROVE Way
      <4> DEFINE f == [run[q] EXCEPT !.pc = pc]
      <4>1. Step(q, f) /\ ~Open(f)
        BY <1>1, <3>2 DEF Open, Run
      <4> HIDE DEF f
      <4>2. QED
        BY <1>2, <4>1
    <3>3. QED
      BY <1>4, <3>1, <3>2
  <2>7. CASE Create(q) \/ Publish(q) \/ FailRun(q)
    <3>1. \E how \in {"ok", "failed"} : Stop(q, how)
      BY <2>7 DEF Create, Publish, FailRun
    <3>2. QED
      BY <1>4, <3>1
  <2>8. QED
    BY <1>5, <2>1, <2>2, <2>3, <2>4, <2>5, <2>6, <2>7 DEF RunStep
<1>6. ASSUME NEW q \in Ticks, StartTick(q) PROVE Way
  <2>1. q \in Runners /\ Step(q, [NoRun("rows") EXCEPT !.org = org])
    BY <1>6 DEF StartTick, ReadOrg, Runners
  <2>2. QED
    BY <1>2, <1>3, <2>1
<1>7. ASSUME NEW r \in Requests, Handle(r) \/ RequestStep(r) \/ LateAnswer(r) \/ DropRequest(r)
      PROVE  Way
  <2>0. r \in Runners
    BY DEF Runners
  <2>1. CASE StartApply(r)
    <3>1. Step(r, [NoRun("rows") EXCEPT !.org = org])
      BY <2>1 DEF StartApply, ReadOrg
    <3>2. QED
      BY <1>2, <1>3, <2>0, <3>1
  <2>2. CASE Answer(r) \/ LateAnswer(r) \/ DropRequest(r)
    <3>1. Step(r, NoRun("idle"))
      BY <2>2 DEF Answer, LateAnswer, AnswerWith, DropRequest
    <3>2. QED
      BY <1>2, <1>3, <2>0, <3>1
  <2>3. CASE Handle(r)
    BY <2>3 DEF Handle, ForceBlock, Unblock, SetCap, Manage, Unmanage, SetStatus,
                Approve, SetPrincipalArn, Delete, Reapply, Receive
  <2>4. CASE AttachRole(r) \/ ReadTrust(r) \/ WriteTrust(r) \/ Flush(r) \/ CountOthers(r)
             \/ DetachRole(r) \/ CommitRequest(r)
    BY <2>4 DEF AttachRole, ReadTrust, WriteTrust, Flush, CountOthers, DetachRole, CommitRequest
  <2>5. QED
    BY <1>7, <2>1, <2>2, <2>3, <2>4 DEF RequestStep
<1>8. CASE World
  BY <1>8 DEF World, Register, CurSync, NewMonth, QuotaReset, SetOrg, OperatorDetach, OperatorDelete
<1>9. QED
  BY <1>5, <1>6, <1>7, <1>8 DEF Next

\* What a run has read and wants stays true to the force-blocks there are.
LEMMA RunsAsk ==
    ASSUME IInv, AsksKept, Next, NoNewAsks, NEW p \in Runners PROVE RunAsks(run'[p], users')
<1>1. run[p] \in Run /\ RunShape(run[p]) /\ RunAsks(run[p], users)
  BY DEF IInv, TypeOK, AsksKept
<1>2. CASE run'[p] = run[p]
  BY <1>1, <1>2 DEF RunAsks, NoNewAsks
<1>3. CASE ~Open(run'[p])
  BY <1>3 DEF RunAsks, Open
<1>4. CASE ReadRows(p)
  <2> DEFINE f == [run[p] EXCEPT !.pc = "spend", !.rows = users]
  <2>1. f.pc = "spend" /\ f.rows = users
    BY <1>1 DEF Run
  <2>2. run'[p] = f /\ users' = users
    BY <1>4 DEF ReadRows, Step, db, IInv, TypeOK
  <2> HIDE DEF f
  <2>3. QED
    BY <2>1, <2>2 DEF RunAsks
<1>5. CASE Decide(p)
  <2> DEFINE o == [run[p].org EXCEPT !.onEstimate = org.onEstimate]
             t == run[p].rows
             after == [u \in Users |-> IF t[u] = Gone THEN Gone ELSE After(o, t[u], spend[u], unbilled[u])]
  <2>1. /\ run'[p].pc = "write" /\ run'[p].rows = t /\ run'[p].after = after /\ users' = users
        /\ run[p].pc = "spend"
    <3>1. PICK a, d, k : run' = [run EXCEPT ![p] = [run[p] EXCEPT !.pc = "write", !.org = a,
                                     !.after = after, !.doc = d, !.keep = k]]
      BY <1>5 DEF Decide, Step
    <3> HIDE DEF after
    <3>2. QED
      BY <1>1, <1>5, <3>1 DEF Decide, db, IInv, TypeOK, Run
  <2>2. \A u \in Live(t) : KeepsAsk(after[u], t[u])
    <3> SUFFICES ASSUME NEW u \in Live(t) PROVE KeepsAsk(after[u], t[u])
      OBVIOUS
    <3>1. t[u] \in Row /\ after[u] = After(o, t[u], spend[u], unbilled[u])
      BY <1>1 DEF Live, Run, Table
    <3> HIDE DEF after, o, t
    <3>2. QED
      BY <3>1, AfterAsks
  <2> HIDE DEF after, t, o
  <2>3. QED
    BY <1>1, <2>1, <2>2 DEF RunAsks, t
<1>6. CASE /\ run[p].pc = "write" /\ run'[p].pc = "write"
           /\ run'[p].rows = run[p].rows /\ run'[p].after = run[p].after
  BY <1>1, <1>6 DEF RunAsks, NoNewAsks
<1>7. QED
  BY <1>2, <1>3, <1>4, <1>5, <1>6, RunWays DEF Open

\* No handler but the three makes its row harsher.
LEMMA HandleAsks ==
    ASSUME Quiet, IInv, NEW r \in Requests, Handle(r)
    PROVE  \A s \in Requests : req'[s] = req[s] \/ ReqAsks(req'[s])
<1>1. PICK u \in Live(users) :
         \/ ForceBlock(r, u) \/ Unblock(r, u)  \/ SetCap(r, u)
         \/ Manage(r, u)     \/ Unmanage(r, u) \/ SetStatus(r, u)
         \/ Approve(r, u)    \/ SetPrincipalArn(r, u)
         \/ Delete(r, u)     \/ Reapply(r, u)
  BY DEF Handle
<1>2. users[u] \in Row
  BY DEF Live, IInv, TypeOK, Table
<1>3. ASSUME NEW op, NEW after, NEW pc, Receive(r, op, u, after, pc),
             after # Gone => Softer(after, users[u])
      PROVE  \A s \in Requests : req'[s] = req[s] \/ ReqAsks(req'[s])
  <2> DEFINE q == [NoReq EXCEPT !.pc = pc, !.op = op, !.user = u, !.row = users[u], !.after = after]
  <2>1. q.row = users[u] /\ q.after = after
    BY DEF NoReq
  <2>2. req' = [req EXCEPT ![r] = q]
    BY <1>3 DEF Receive, Advance
  <2> HIDE DEF q
  <2>3. QED
    BY <1>3, <2>1, <2>2 DEF ReqAsks, IInv, TypeOK
<1>4. ~ForceBlock(r, u) /\ ~Manage(r, u) /\ ~SetStatus(r, u)
  BY DEF Quiet, ForceBlock, Manage, SetStatus, Receive, Happens
<1> USE <1>3 DEF Softer, Row
<1>5. CASE Unblock(r, u)
  BY <1>2, <1>5 DEF Unblock
<1>6. CASE SetCap(r, u)
  BY <1>2, <1>6 DEF SetCap
<1>7. CASE Unmanage(r, u)
  <2> DEFINE status == IF users[u].status = "force_blocked" THEN "active"
                       ELSE users[u].status
             after  == [users[u] EXCEPT !.governed = FALSE, !.status = status]
  <2>1. Softer(after, users[u])
    BY <1>2
  <2>2. Receive(r, "unmanage", u, after, "flush")
    BY <1>2, <1>7 DEF Unmanage
  <2> HIDE DEF after
  <2>3. QED
    BY <2>1, <2>2
<1>8. CASE Approve(r, u)
  BY <1>2, <1>8 DEF Approve
<1>9. CASE SetPrincipalArn(r, u)
  BY <1>2, <1>9 DEF SetPrincipalArn
<1>10. CASE Delete(r, u)
  BY <1>2, <1>10 DEF Delete
<1>11. CASE Reapply(r, u)
  BY <1>2, <1>11 DEF Reapply
<1>12. QED
  BY <1>1, <1>4, <1>5, <1>6, <1>7, <1>8, <1>9, <1>10, <1>11

\* A request under way keeps the row it has loaded and the row it makes of it.
LEMMA RequestAsks ==
    ASSUME IInv, AsksKept, NEW r \in Requests, RequestStep(r) \/ LateAnswer(r) \/ DropRequest(r)
    PROVE  \A s \in Requests : ReqAsks(req'[s])
<1>1. req[r] \in Req /\ ReqAsks(req[r]) /\ ReqAsks(NoReq)
  BY DEF IInv, TypeOK, AsksKept, ReqAsks, NoReq
<1>2. ASSUME NEW q, Advance(r, q), q = NoReq \/ (q.row = req[r].row /\ q.after = req[r].after)
      PROVE  \A s \in Requests : ReqAsks(req'[s])
  <2>1. ReqAsks(q)
    BY <1>1, <1>2 DEF ReqAsks
  <2>2. QED
    BY <1>2, <2>1 DEF Advance, AsksKept, IInv, TypeOK
<1>3. \A pc : LET q == [req[r] EXCEPT !.pc = pc] IN q.row = req[r].row /\ q.after = req[r].after
  BY <1>1 DEF Req
<1>4. CASE AttachRole(r) \/ CountOthers(r) \/ DetachRole(r)
  <2>1. Advance(r, NoReq) \/ \E pc : Advance(r, [req[r] EXCEPT !.pc = pc])
    BY <1>4 DEF AttachRole, CountOthers, DetachRole, Goto
  <2>2. QED
    BY <1>2, <1>3, <2>1
<1>5. CASE ReadTrust(r) \/ WriteTrust(r)
  <2>1. \/ \E pc : Advance(r, [req[r] EXCEPT !.pc = pc])
        \/ \E pc, f : Advance(r, [req[r] EXCEPT !.pc = pc, !.found = f])
    BY <1>5 DEF ReadTrust, WriteTrust, Goto
  <2>2. \A pc, f : LET q == [req[r] EXCEPT !.pc = pc, !.found = f] IN
                   q.row = req[r].row /\ q.after = req[r].after
    BY <1>1 DEF Req
  <2>3. QED
    BY <1>2, <1>3, <2>1, <2>2
<1>6. CASE Flush(r)
  <2>1. Advance(r, NoReq) \/ \E pc : Advance(r, [req[r] EXCEPT !.pc = pc, !.flushed = TRUE])
    BY <1>6 DEF Flush
  <2>2. \A pc : LET q == [req[r] EXCEPT !.pc = pc, !.flushed = TRUE] IN
                q.row = req[r].row /\ q.after = req[r].after
    BY <1>1 DEF Req
  <2>3. QED
    BY <1>2, <2>1, <2>2
<1>7. CASE StartApply(r)
  <2> DEFINE d == DeniedOnBilled(org, req[r].after, spend[req[r].user])
             q == [req[r] EXCEPT !.pc = "running", !.denied = d]
  <2>1. Advance(r, q)
    BY <1>7 DEF StartApply
  <2>2. q.row = req[r].row /\ q.after = req[r].after
    BY <1>1 DEF Req
  <2> HIDE DEF q
  <2>3. QED
    BY <1>2, <2>1, <2>2
<1>8. CASE Answer(r) \/ LateAnswer(r)
  <2>1. \E a : Advance(r, [req[r] EXCEPT !.pc = "commit", !.answer = a])
    BY <1>8 DEF Answer, LateAnswer, AnswerWith
  <2>2. \A a : LET q == [req[r] EXCEPT !.pc = "commit", !.answer = a] IN
               q.row = req[r].row /\ q.after = req[r].after
    BY <1>1 DEF Req
  <2>3. QED
    BY <1>2, <2>1, <2>2
<1>9. CASE CommitRequest(r) \/ DropRequest(r)
  <2>1. Advance(r, NoReq)
    BY <1>9 DEF CommitRequest, DropRequest
  <2>2. QED
    BY <1>2, <2>1
<1>10. QED
  BY <1>4, <1>5, <1>6, <1>7, <1>8, <1>9 DEF RequestStep

LEMMA NextAsks == ASSUME Quiet, IInv, AsksKept, Next PROVE AsksKept'
<1>1. \A p \in Runners : RunAsks(run'[p], users')
  BY StepAsks, RunsAsk
<1>2. \A s \in Requests : ReqAsks(req'[s])
  <2>1. ASSUME UNCHANGED req PROVE \A s \in Requests : ReqAsks(req'[s])
    BY <2>1 DEF AsksKept
  <2>2. ASSUME NEW r \in Requests, Handle(r) PROVE \A s \in Requests : ReqAsks(req'[s])
    BY <2>2, HandleAsks DEF AsksKept
  <2>3. ASSUME NEW p \in Runners, RunStep(p) \/ FailRun(p) PROVE UNCHANGED req
    BY <2>3 DEF RunStep, FailRun, ReadRows, Decide, FlushRow, CommitRun, ListRoles, SyncRoles,
                Compare, Create, Publish
  <2>4. ASSUME NEW p \in Ticks, StartTick(p) PROVE UNCHANGED req
    BY <2>4 DEF StartTick
  <2>5. ASSUME World PROVE UNCHANGED req
    BY <2>5 DEF World, Register, CurSync, NewMonth, QuotaReset, SetOrg, OperatorDetach, OperatorDelete
  <2>6. QED
    BY <2>1, <2>2, <2>3, <2>4, <2>5, RequestAsks DEF Next
<1>3. QED
  BY <1>1, <1>2 DEF AsksKept, RunAsks, ReqAsks

\* Nobody's denial on billed spend changes where a run commits, however stale
\* the rows it has read, as long as nobody is force-blocked or newly governed.
THEOREM CommitsKeepDenials == ASSUME Quiet PROVE Spec => CommitKeepsDenials
<1>1. Init => AsksKept
  <2> SUFFICES ASSUME Init PROVE AsksKept
    OBVIOUS
  <2>1. run = [p \in Runners |-> NoRun("idle")] /\ req = [r \in Requests |-> NoReq]
    BY DEF Init
  <2>2. NoRun("idle").pc = "idle" /\ NoReq.row = Gone
    BY DEF NoRun, NoReq
  <2>3. QED
    BY <2>1, <2>2 DEF AsksKept, RunAsks, ReqAsks
<1>2. IInv /\ AsksKept /\ [Next]_vars => AsksKept'
  <2>1. ASSUME AsksKept, UNCHANGED vars PROVE AsksKept'
    BY <2>1 DEF vars, AsksKept, RunAsks, ReqAsks
  <2>2. QED
    BY <2>1, NextAsks
<1>3. IInv /\ AsksKept /\ [Next]_vars
        => [\A p \in Runners : CommitRun(p) =>
              \A u \in Live(users) :
                 DeniedOnBilled(org, users[u], spend[u])
                   <=> DeniedOnBilled(org, users'[u], spend[u])]_vars
  <2> SUFFICES ASSUME IInv, AsksKept, NEW p \in Runners, CommitRun(p), NEW u \in Live(users)
               PROVE  DeniedOnBilled(org, users[u], spend[u])
                        <=> DeniedOnBilled(org, users'[u], spend[u])
    OBVIOUS
  <2>1. u \in Users /\ users[u] # Gone
    BY DEF Live
  <2>2. KeepsAsk(users'[u], users[u])
    BY <2>1, CommitAsks
  <2>3. QED
    BY <2>2 DEF KeepsAsk, Softer, Asks, DeniedOnBilled, ShouldDeny, CapOf
<1>4. QED
  BY Invariant, <1>1, <1>2, <1>3, PTL DEF Spec, CommitKeepsDenials
=============================================================================
