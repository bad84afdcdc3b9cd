---------------------------- MODULE CurSpendSync ----------------------------
(***************************************************************************)
(* The hourly sync of billed spend: worker/jobs/cur_spend_sync.py with     *)
(* worker/principal_classify.py.  CUR bills a principal's ARN; the sync    *)
(* gives the amount to an identity, replaces the current month's rows,     *)
(* upserts the previous month's, and points each identity at the role that *)
(* was billed the most.                                                    *)
(*                                                                         *)
(* One run is a query, a transaction opened by the DELETE of the month,    *)
(* and its flush.  A scheduled run and runs started by hand overlap: the   *)
(* DELETE waits for rows another run has deleted, and does not see the     *)
(* rows that run has put in their place; the look-ups after it do.  An     *)
(* hour, region and model of a month are one here; amounts are whole.      *)
(***************************************************************************)
EXTENDS Naturals, FiniteSets, Functions

CONSTANTS
    Arns,           \* principals CUR bills
    Keys,           \* those of Arns that are IAM users behind a Bedrock key
    Session(_),     \* classify_principal: the identity in an ARN
    Owners,         \* identities a key can be mapped to
    MaxBill,        \* bound on an amount
    PageSize,       \* lines of one Athena page
    Syncs,          \* syncs in flight at once
    Scheduled,      \* the one of them the scheduler starts, one at a time
    MaxCur          \* bound on revisions, edits, faults and runs by hand

CurAssumption == /\ IsFiniteSet(Arns) /\ Keys \subseteq Arns
                 /\ \A a \in Arns : Session(a) # "nobody"
                 /\ Scheduled \in Syncs
                 /\ MaxBill \in Nat \ {0} /\ PageSize \in Nat /\ MaxCur \in Nat

Nobody == "nobody"
Months == {"previous", "current"}
Identities == Owners \cup {Session(a) : a \in Arns}
Rows == Months \X Identities

VARIABLES
    bill,       \* CUR: per month and ARN, the amount billed so far
    spend,      \* cur_user_spend: per month and identity, its amount; 0 is no row
    role,       \* users.principal_arn, or Nobody where there is no such user
    owner,      \* users.bedrock_key_user: per key, the person it is mapped to
    sync,       \* per sync, its progress
    unraced,    \* history: per sync, no other has committed since it began
    revisions

curVars == <<bill, spend, role, owner, sync, unraced, revisions>>
world == <<bill, owner>>
tables == <<spend, role>>

NoRun == [step |-> "idle", lines |-> {}, owner |-> [k \in Keys |-> Nobody],
          gone |-> {}, found |-> {}, saw |-> [i \in Identities |-> Nobody]]

CurTypeOK ==
    /\ bill \in [Months -> [Arns -> 0..MaxBill]]
    /\ spend \in [Rows -> Nat]
    /\ role \in [Identities -> Arns \cup {Nobody}]
    /\ owner \in [Keys -> Owners \cup {Nobody}]
    /\ sync \in [Syncs -> [step : {"idle", "queried", "deleting", "flushing"},
                         lines : SUBSET (Months \X Arns \X (1..MaxBill)),
                         owner : [Keys -> Owners \cup {Nobody}],
                         gone : SUBSET Rows, found : SUBSET Rows,
                         saw : [Identities -> Arns \cup {Nobody}]]]
    /\ unraced \in [Syncs -> BOOLEAN]
    /\ revisions \in 0..MaxCur

Revise == revisions < MaxCur /\ revisions' = revisions + 1
-----------------------------------------------------------------------------
(* What a batch of lines says *)

\* resolve_principal: a mapped key is its owner's, anything else is classified.
Identity(arn, map) ==
    IF arn \in Keys /\ map[arn] # Nobody THEN map[arn] ELSE Session(arn)

Of(lines, map, month, who) ==
    {l \in lines : l[1] = month /\ Identity(l[2], map) = who}

\* Lines that come to one row add up.
Total(lines) == SumFunction([l \in lines |-> l[3]])

Batch(lines, map) ==
    {row \in Rows : Of(lines, map, row[1], row[2]) # {}}

\* What CUR billed one ARN over both months.
Weight(lines, arn) == Total({l \in lines : l[2] = arn})

\* The role billed the most, whichever lines come last; a tie goes to the ARN
\* with more lines and then to the greater string, which is some fixed choice.
Dominant(lines, map, who) ==
    LET candidates == {l[2] : l \in Of(lines, map, "previous", who)
                                    \cup Of(lines, map, "current", who)}
    IN  CHOOSE a \in candidates : \A b \in candidates : Weight(lines, b) <= Weight(lines, a)

Lines == {l \in Months \X Arns \X (1..MaxBill) : bill[l[1]][l[2]] = l[3]}
-----------------------------------------------------------------------------
(* A run *)

\* One page of the result: what is beyond it is dropped.
Query(s) ==
    /\ sync[s].step = "idle"
    /\ \E page \in SUBSET Lines :
          /\ Cardinality(page) = IF Cardinality(Lines) <= PageSize
                                 THEN Cardinality(Lines) ELSE PageSize
          /\ sync' = [sync EXCEPT ![s] = [NoRun EXCEPT !.step = "queried", !.lines = page]]
    /\ IF s = Scheduled THEN UNCHANGED revisions ELSE Revise
    /\ UNCHANGED <<world, tables, unraced>>

\* Mutant of MonthRows: nothing is deleted.
NoRows == {}

MonthRows == {row \in Rows : row[1] = "current" /\ spend[row] > 0}

\* The session's first look: the key map, and the DELETE's view of the month.
StartDelete(s) ==
    /\ sync[s].step = "queried"
    /\ sync' = [sync EXCEPT ![s].step = "deleting", ![s].owner = owner, ![s].gone = MonthRows]
    /\ unraced' = [unraced EXCEPT ![s] = TRUE]
    /\ UNCHANGED <<world, tables, revisions>>

\* Rows another run has deleted or written are locked until it ends; when it
\* has, they are other rows, which this DELETE leaves alone.
Loop(s) ==
    /\ sync[s].step = "deleting"
    /\ \A q \in Syncs \ {s} : sync[q].step = "flushing" => sync[q].gone \cap sync[s].gone = {}
    /\ LET gone == IF unraced[s] THEN sync[s].gone ELSE {} IN
       sync' = [sync EXCEPT ![s].step = "flushing", ![s].gone = gone,
                          ![s].found = {row \in Rows : spend[row] > 0} \ gone,
                          ![s].saw = role]
    /\ UNCHANGED <<world, tables, unraced, revisions>>

\* A row or a user to be inserted that another session has inserted meanwhile
\* makes the flush fail.
Collides(s) ==
    LET r == sync[s]
        batch == Batch(r.lines, r.owner)
    IN  \/ \E row \in batch \ r.found : spend[row] > 0 /\ row \notin r.gone
        \/ \E row \in batch : r.saw[row[2]] = Nobody /\ role[row[2]] # Nobody

CommitSync(s) ==
    LET r == sync[s]
        batch == Batch(r.lines, r.owner)
        seen == {row[2] : row \in batch}
    IN
    /\ r.step = "flushing" /\ ~Collides(s)
    /\ spend' = [row \in Rows |->
          IF row \in batch THEN Total(Of(r.lines, r.owner, row[1], row[2]))
          ELSE IF row \in r.gone THEN 0 ELSE spend[row]]
    /\ role' = [i \in Identities |->
          IF i \in seen /\ Dominant(r.lines, r.owner, i) # r.saw[i]
          THEN Dominant(r.lines, r.owner, i) ELSE role[i]]
    /\ sync' = [sync EXCEPT ![s] = NoRun]
    /\ unraced' = [q \in Syncs |-> q = s]
    /\ UNCHANGED <<world, revisions>>

\* The collision, or a run that dies or whose query fails: all is rolled back.
Collide(s) ==
    /\ sync[s].step = "flushing" /\ Collides(s)
    /\ sync' = [sync EXCEPT ![s] = NoRun]
    /\ UNCHANGED <<world, tables, unraced, revisions>>

FailRun(s) ==
    /\ Revise
    /\ sync[s].step # "idle"
    /\ sync' = [sync EXCEPT ![s] = NoRun]
    /\ UNCHANGED <<world, tables, unraced>>

-----------------------------------------------------------------------------
(* The world *)

\* CUR rewrites the month's partition: amounts go up and down, lines vanish.
Restate ==
    /\ Revise
    /\ \E m \in Months, a \in Arns, v \in 0..MaxBill :
          v # bill[m][a] /\ bill' = [bill EXCEPT ![m][a] = v]
    /\ UNCHANGED <<tables, owner, sync, unraced>>

MapKey ==
    /\ Revise
    /\ \E k \in Keys, p \in Owners \cup {Nobody} :
          p # owner[k] /\ owner' = [owner EXCEPT ![k] = p]
    /\ UNCHANGED <<bill, tables, sync, unraced>>

\* set_principal_arn, until the next sync of that identity.
SetRole ==
    /\ Revise
    /\ \E i \in Identities, a \in Arns :
          role[i] \notin {a, Nobody} /\ role' = [role EXCEPT ![i] = a]
    /\ UNCHANGED <<world, spend, sync, unraced>>

CurInit ==
    /\ bill = [m \in Months |-> [a \in Arns |-> IF m = "current" THEN 1 ELSE 0]]
    /\ spend = [row \in Rows |-> 0]
    /\ role = [i \in Identities |-> Nobody]
    /\ owner = [k \in Keys |-> Nobody]
    /\ sync = [s \in Syncs |-> NoRun]
    /\ unraced = [s \in Syncs |-> TRUE]
    /\ revisions = 0

SyncGoesOn(s) == StartDelete(s) \/ Loop(s) \/ CommitSync(s) \/ Collide(s)

CurNext ==
    \/ Restate \/ MapKey \/ SetRole
    \/ \E s \in Syncs : Query(s) \/ SyncGoesOn(s) \/ FailRun(s)

\* The scheduler starts the sync every hour, and a run that started goes on.
CurFairness == WF_curVars(Query(Scheduled)) /\ \A s \in Syncs : WF_curVars(SyncGoesOn(s))

CurSpec == CurInit /\ [][CurNext]_curVars
CurFairSpec == CurSpec /\ CurFairness

-----------------------------------------------------------------------------
(* Properties *)

\* cur_spend_sync.py:277-281: a run nobody overtook leaves in the month exactly
\* what its lines say: never additive to what was there, every line of an
\* identity counted, and nothing left of an identity whose lines are gone.
RunIsExact ==
    [][ \A s \in Syncs :
          sync[s].step = "flushing" /\ unraced[s] /\ spend' # spend /\ sync'[s].step = "idle"
          => \A i \in Identities : spend'[<<"current", i>>] =
                Total(Of(sync[s].lines, sync[s].owner, "current", i)) ]_curVars

\* cur_spend_sync.py:277-281, 447-478: when CUR and the key map have come to
\* rest, the month's spend is what CUR billed, under the identities the map
\* says, and each identity billed has the role billed the most, whatever runs
\* overlapped, collided or died on the way.
SpendConverges ==
    <>[]( Cardinality(Lines) <= PageSize =>
            \A i \in Identities :
               /\ spend[<<"current", i>>] = Total(Of(Lines, owner, "current", i))
               /\ spend[<<"current", i>>] > 0 => role[i] = Dominant(Lines, owner, i) )
=============================================================================
