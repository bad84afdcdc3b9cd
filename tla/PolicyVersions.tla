--------------------------- MODULE PolicyVersions ---------------------------
(***************************************************************************)
(* How a run of the reconciler replaces the document of tg-BedrockQuotaDeny *)
(* (deny_reconciler.py, run(), from get_policy on).  IAM keeps at most five *)
(* versions of a managed policy, one of them the default, which it refuses  *)
(* to delete; so a run reads the default, lists the versions, deletes the   *)
(* oldest other one when four are there, and creates its own as default:   *)
(* five calls that other runs' calls, and an operator's, fall between.      *)
(* Enforcement takes the whole as one step; here it is taken apart.         *)
(* MCSpend EXTENDS this module and others, whence the names VersionsInit,   *)
(* VersionsNext and so on.                                                  *)
(***************************************************************************)
EXTENDS Naturals, FiniteSets

CONSTANTS
    Runs,      \* processes that run the reconciler
    Docs,      \* documents it may want
    NoDoc,     \* no document
    Limit,     \* versions IAM keeps, 5
    MaxId,     \* bound on version numbers: no more versions are created
    MaxChanges \* bound on changes of the wanted document and operator steps

VersionsAssumption ==
    /\ IsFiniteSet(Runs) /\ NoDoc \notin Docs
    /\ Limit \in Nat /\ Limit >= 2
    /\ MaxId \in Nat /\ MaxId >= Limit /\ MaxChanges \in Nat

Id      == 1..MaxId
Version == [id : Id, doc : Docs]

VARIABLES
    want,      \* the document a run computes if it starts now
    versions,  \* the versions IAM holds; ids grow with the creation date
    default,   \* the id of the one in force
    last,      \* the id given last
    run,       \* per run, its progress and what it has read
    alone,     \* history: the runs nothing has overlapped since they began
    failed,    \* history: the runs whose last attempt failed
    changes

versionsVars == <<want, versions, default, last, run, alone, failed, changes>>

Ids == {v.id : v \in versions}
DocOf(id) == (CHOOSE v \in versions : v.id = id).doc
InForce == DocOf(default)

Run == [ pc     : {"idle", "get", "fetch", "list", "prune", "create"},
         doc    : Docs,
         target : Id \cup {0} ]   \* the version it will read or delete

VersionsTypeOK ==
    /\ want \in Docs
    /\ versions \subseteq Version
    /\ \A v, w \in versions : v.id = w.id => v = w
    /\ default \in Ids
    /\ last \in Id /\ \A id \in Ids : id <= last
    /\ Cardinality(Ids) <= Limit
    /\ run \in [Runs -> Run]
    /\ alone \subseteq Runs /\ failed \subseteq Runs
    /\ changes \in 0..MaxChanges

VersionsInit ==
    /\ want \in Docs
    /\ \E d \in Docs, n \in 1..Limit :
          /\ versions = [id : 1..n, doc : {d}]
          /\ default \in 1..n
          /\ last = n
    /\ run = [p \in Runs |-> [pc |-> "idle", doc |-> want, target |-> 0]]
    /\ alone = {}
    /\ failed = {}
    /\ changes = 0

Step(p, pc, target) ==
    run' = [run EXCEPT ![p].pc = pc, ![p].target = target]

Fail(p)    == Step(p, "idle", 0) /\ failed' = failed \cup {p}
Succeed(p) == Step(p, "idle", 0) /\ failed' = failed \ {p}

Busy == {p \in Runs : run[p].pc # "idle"}

\* A run begins with the document it has computed.
Start(p) ==
    /\ run[p].pc = "idle"
    /\ run' = [run EXCEPT ![p] = [pc |-> "get", doc |-> want, target |-> 0]]
    /\ alone' = IF Busy = {} THEN {p} ELSE {}
    /\ UNCHANGED <<want, versions, default, last, failed, changes>>

\* Mutant of GetPolicy: compares with the newest version.
GetNewest(p) ==
    /\ run[p].pc = "get"
    /\ Step(p, "fetch", last)
    /\ UNCHANGED <<want, versions, default, last, alone, failed, changes>>

GetPolicy(p) ==
    /\ run[p].pc = "get"
    /\ Step(p, "fetch", default)
    /\ UNCHANGED <<want, versions, default, last, alone, failed, changes>>

\* get_policy_version: gone, equal (nothing to do), or to be replaced.
Fetch(p) ==
    LET id == run[p].target IN
    /\ run[p].pc = "fetch"
    /\ \/ id \notin Ids /\ Fail(p)
       \/ id \in Ids /\ DocOf(id) = run[p].doc /\ Succeed(p)
       \/ /\ id \in Ids /\ DocOf(id) # run[p].doc
          /\ Step(p, "list", 0)
          /\ UNCHANGED failed
    /\ UNCHANGED <<want, versions, default, last, alone, changes>>

\* Mutant of List: prunes one version too late.
ListLate(p) ==
    LET others == Ids \ {default} IN
    /\ run[p].pc = "list"
    /\ IF Cardinality(others) >= Limit
       THEN \E id \in others : (\A other \in others : id <= other) /\ Step(p, "prune", id)
       ELSE Step(p, "create", 0)
    /\ UNCHANGED <<want, versions, default, last, alone, failed, changes>>

List(p) ==
    LET others == Ids \ {default} IN
    /\ run[p].pc = "list"
    /\ IF Cardinality(others) >= Limit - 1
       THEN \E id \in others : (\A other \in others : id <= other) /\ Step(p, "prune", id)
       ELSE Step(p, "create", 0)
    /\ UNCHANGED <<want, versions, default, last, alone, failed, changes>>

\* DeletePolicyVersion: NoSuchEntity, DeleteConflict on the default, or done.
Prune(p) ==
    LET id == run[p].target IN
    /\ run[p].pc = "prune"
    /\ IF id \notin Ids \/ id = default
       THEN Fail(p) /\ UNCHANGED versions
       ELSE /\ versions' = {v \in versions : v.id # id}
            /\ Step(p, "create", 0)
            /\ UNCHANGED failed
    /\ UNCHANGED <<want, default, last, alone, changes>>

Add(doc) == versions' = versions \cup {[id |-> last + 1, doc |-> doc]}

\* CreatePolicyVersion as default: LimitExceeded, or done.
Create(p) ==
    /\ run[p].pc = "create"
    /\ IF Cardinality(Ids) >= Limit
       THEN Fail(p) /\ UNCHANGED <<versions, default, last>>
       ELSE /\ last < MaxId
            /\ Add(run[p].doc)
            /\ default' = last + 1
            /\ last' = last + 1
            /\ Succeed(p)
    /\ UNCHANGED <<want, alone, changes>>

RunStep(p) == GetPolicy(p) \/ Fetch(p) \/ List(p) \/ Prune(p) \/ Create(p)

-----------------------------------------------------------------------------
Shift == changes < MaxChanges /\ changes' = changes + 1

\* Rows, spend or settings change what a run would publish.
Change ==
    /\ Shift
    /\ want' \in Docs \ {want}
    /\ UNCHANGED <<versions, default, last, run, alone, failed>>

\* Someone edits the versions by hand: adds one, removes one or puts an old
\* one in force.
Operator ==
    /\ Shift
    /\ \/ /\ Cardinality(Ids) < Limit /\ last < MaxId
          /\ \E d \in Docs : Add(d)
          /\ last' = last + 1
          /\ UNCHANGED default
       \/ /\ \E id \in Ids \ {default} : versions' = {v \in versions : v.id # id}
          /\ UNCHANGED <<default, last>>
       \/ /\ default' \in Ids \ {default}
          /\ UNCHANGED <<versions, last>>
    /\ alone' = {}
    /\ UNCHANGED <<want, run, failed>>

VersionsNext == (\E p \in Runs : Start(p) \/ RunStep(p)) \/ Change \/ Operator

VersionsSpec == VersionsInit /\ [][VersionsNext]_versionsVars
VersionsFairSpec ==
    /\ VersionsSpec
    /\ \A p \in Runs : WF_versionsVars(Start(p)) /\ WF_versionsVars(RunStep(p))

-----------------------------------------------------------------------------
(* Properties *)

\* A run whose calls nobody else's fall between never fails: it always makes
\* the room it needs, whichever of the versions is the default.
AloneSucceeds == [][ \A p \in Runs : p \in failed' \ failed => p \notin alone ]_versionsVars

\* Whatever runs fail because they overlap, no state of the versions keeps
\* the wanted document out for ever.
InForceAtLast == <>[](InForce = want)

\* deny_reconciler.py:889-970: the five calls, whatever falls between them,
\* amount to one: the document a run has computed comes into force at once or
\* not at all, no other does, and a run nothing has overlapped does not end
\* without.
Brings == [p \in Runs |-> IF run[p].pc = "idle" THEN NoDoc ELSE run[p].doc]

P == INSTANCE Publication WITH inForce <- InForce, brings <- Brings

Publishes == P!Spec
=============================================================================
