--------------------------- MODULE InvocationLogs ---------------------------
(***************************************************************************)
(* Bedrock invocation logging: the catalogue of regions in admin_config    *)
(* (db/invlogs_config.py), the PUT that replaces and applies it            *)
(* (api/routes/settings.py), the calls per region (api/invlogs_apply.py)   *)
(* and the seed at API start.  Each region has one logging configuration,  *)
(* which may be tg's, with or without text, or a customer's own.           *)
(***************************************************************************)
EXTENDS Naturals

CONSTANTS
    Regions,
    SeedRegions,    \* TG_INVLOGS_REGIONS
    Saves,          \* the catalogues an admin may save
    Puts,           \* requests that may be in flight at once
    MaxLogs         \* bound on requests, restarts, faults and customers' edits

\* An entry of the catalogue; NoEntry where the region is not listed.
Entries == {"text", "noText", "disabled"}
NoEntry == "unlisted"
Enabled(e) == e \in {"text", "noText"}
Catalogues == [Regions -> Entries \cup {NoEntry}]

LogsAssumption == /\ SeedRegions \subseteq Regions /\ "none" \notin Regions
                  /\ Saves \subseteq Catalogues /\ MaxLogs \in Nat

\* A region's configuration: none, tg's with or without text, a customer's.
Live == {"none", "text", "noText", "theirs"}

VARIABLES
    catalogue,  \* per region, the committed entry
    stored,     \* the catalogue has a row
    live,       \* per region, what Bedrock has
    put,        \* per request, how far it is, whether it holds the row, what it
                \* saves, the regions left, the one it is at and what it takes
                \* its configuration to be
    admin,      \* history: an admin has saved the catalogue
    missed,     \* history: regions where a call failed, the look was stale, or
                \* a crash, a seed or a customer left the two apart
    crossed,    \* history: regions changed by a request that did not hold the
                \* row, against the entry that counts there
    acts

logsVars == <<catalogue, stored, live, put, admin, missed, crossed, acts>>

NoRegion == "none"
NoPut == [step |-> "none", locks |-> FALSE, want |-> [g \in Regions |-> NoEntry],
          left |-> {}, at |-> NoRegion, saw |-> "none"]
PutRecords == [step : {"none", "inserts", "updates", "applies"}, locks : BOOLEAN,
               want : Catalogues, left : SUBSET Regions,
               at : Regions \cup {NoRegion}, saw : Live]

LogsTypeOK ==
    /\ catalogue \in Catalogues /\ stored \in BOOLEAN
    /\ live \in [Regions -> Live]
    /\ put \in [Puts -> PutRecords]
    /\ admin \in BOOLEAN
    /\ missed \subseteq Regions /\ crossed \subseteq Regions
    /\ acts \in 0..MaxLogs

Act == acts < MaxLogs /\ acts' = acts + 1
Listed(c) == {g \in Regions : c[g] # NoEntry}

\* Who holds the catalogue's row, from its flush to its commit.
RowHeld == \E p \in Puts : put[p].locks
-----------------------------------------------------------------------------
(* PUT /settings/invocation-logs *)

\* set_invlogs_regions reads the row.  A text equal to the stored one makes no
\* UPDATE: the request goes on without the row's lock.
Put(p, want) ==
    /\ Act
    /\ put[p].step = "none"
    /\ put' = [put EXCEPT ![p] =
          [step |-> IF ~stored THEN "inserts"
                    ELSE IF want = catalogue THEN "applies" ELSE "updates",
           locks |-> FALSE, want |-> want, left |-> Listed(want),
           at |-> NoRegion, saw |-> "none"]]
    /\ UNCHANGED <<catalogue, stored, live, admin, missed, crossed>>

\* The flush of what it saves, which waits for whoever holds the row.
Replace(p) ==
    /\ put[p].step \in {"updates"} \cup (IF stored THEN {} ELSE {"inserts"})
    /\ ~RowHeld
    /\ put' = [put EXCEPT ![p].step = "applies", ![p].locks = TRUE]
    /\ UNCHANGED <<catalogue, stored, live, admin, missed, crossed, acts>>

\* The INSERT of a request that found no row, when there is one by now.
InsertFails(p) ==
    /\ put[p].step = "inserts" /\ stored
    /\ put' = [put EXCEPT ![p] = NoPut]
    /\ UNCHANGED <<catalogue, stored, live, admin, missed, crossed, acts>>

\* Whether p, done with the region it was at, is looking for the next.
Between(p) == put[p].step = "applies" /\ put[p].at = NoRegion

\* The next region's configuration.
ReadRegion(p, g) ==
    /\ Between(p) /\ g \in put[p].left
    /\ put' = [put EXCEPT ![p].at = g, ![p].saw = live[g]]
    /\ UNCHANGED <<catalogue, stored, live, admin, missed, crossed, acts>>

\* One that cannot be read counts as none.
ReadFails(p, g) ==
    /\ Act
    /\ Between(p) /\ g \in put[p].left
    /\ put' = [put EXCEPT ![p].at = g, ![p].saw = "none"]
    /\ UNCHANGED <<catalogue, stored, live, admin, missed, crossed>>

\* Mutant of MayEnable: puts tg's configuration over whatever is there.
EnableOver(saw) == saw \notin {"text", "noText"}

\* Rule 1: enable only where nothing is configured.
MayEnable(saw) == saw = "none"

\* Rule 2: disable only tg's own.
MayDisable(saw) == saw \in {"text", "noText"}

\* What enable_region and disable_region leave, given what they have read.
Outcome(e, saw, now) ==
    IF Enabled(e) THEN IF MayEnable(saw) THEN e ELSE now
    ELSE IF MayDisable(saw) THEN "none" ELSE now

\* The entry that counts for g: of the request that holds the row, once it has
\* been at g, else the committed one.
Counts(g) ==
    LET past == {p \in Puts : put[p].locks /\ g \in Listed(put[p].want) \ put[p].left}
    IN  IF past = {} THEN {catalogue[g]} ELSE {put[p].want[g] : p \in past}

\* Entries of which one asks for logging and the other for none.
Opposed(e, f) == f # NoEntry /\ Enabled(e) # Enabled(f)

\* p is done with the region it was at.
Past(p) == [put EXCEPT ![p].left = @ \ {put[p].at}, ![p].at = NoRegion, ![p].saw = "none"]

Apply(p, g) ==
    /\ put[p].at = g
    /\ live' = [live EXCEPT ![g] = Outcome(put[p].want[g], put[p].saw, @)]
    /\ missed' = IF put[p].saw = live[g] THEN missed \ {g} ELSE missed \cup {g}
    /\ crossed' = IF ~put[p].locks /\ \E e \in Counts(g) : Opposed(put[p].want[g], e)
                  THEN crossed \cup {g} ELSE crossed \ {g}
    /\ put' = Past(p)
    /\ UNCHANGED <<catalogue, stored, admin, acts>>

\* The put or the delete fails, which is reported and not fatal.
ApplyFails(p, g) ==
    /\ Act
    /\ put[p].at = g
    /\ missed' = missed \cup {g}
    /\ put' = Past(p)
    /\ UNCHANGED <<catalogue, stored, live, admin, crossed>>

CommitSave(p) ==
    /\ put[p].step = "applies" /\ put[p].left = {}
    /\ catalogue' = IF put[p].locks THEN put[p].want ELSE catalogue
    /\ stored' = TRUE
    /\ admin' = TRUE
    /\ put' = [put EXCEPT ![p] = NoPut]
    /\ UNCHANGED <<live, missed, crossed, acts>>

\* The request ends before its commit, and what it has applied stays.
CrashSave(p) ==
    /\ Act
    /\ put[p].step # "none"
    /\ missed' = IF put[p].locks THEN missed \cup (Listed(put[p].want) \ put[p].left)
                 ELSE missed
    /\ put' = [put EXCEPT ![p] = NoPut]
    /\ UNCHANGED <<catalogue, stored, live, admin, crossed>>

-----------------------------------------------------------------------------
(* API start, and the customer *)

\* "Insert-if-ABSENT": the seed looks whether the catalogue has any region.
SeedNeeded(c) == Listed(c) = {}

\* The seed fills the catalogue and leaves Bedrock alone.  The process that
\* starts has no request yet, and the one before it is gone.
SeedAtStart ==
    /\ Act
    /\ \A p \in Puts : put[p].step = "none"
    /\ SeedRegions # {} /\ SeedNeeded(catalogue)
    /\ catalogue' = [g \in Regions |-> IF g \in SeedRegions THEN "text" ELSE NoEntry]
    /\ stored' = TRUE
    /\ missed' = missed \cup SeedRegions
    /\ UNCHANGED <<live, put, admin, crossed>>

Customer(g) ==
    /\ Act
    /\ live' = [live EXCEPT ![g] = IF @ = "theirs" THEN "none" ELSE "theirs"]
    /\ missed' = missed \cup {g}
    /\ UNCHANGED <<catalogue, stored, put, admin, crossed>>

LogsInit ==
    /\ catalogue = [g \in Regions |-> NoEntry] /\ stored = FALSE
    /\ live \in [Regions -> {"none", "theirs"}]
    /\ put = [p \in Puts |-> NoPut]
    /\ admin = FALSE /\ missed = {} /\ crossed = {} /\ acts = 0

LogsNext ==
    \/ SeedAtStart
    \/ \E p \in Puts :
          \/ Replace(p) \/ InsertFails(p) \/ CommitSave(p) \/ CrashSave(p)
          \/ \E want \in Saves : Put(p, want)
          \/ \E g \in Regions :
                ReadRegion(p, g) \/ ReadFails(p, g) \/ Apply(p, g) \/ ApplyFails(p, g)
    \/ \E g \in Regions : Customer(g)

LogsSpec == LogsInit /\ [][LogsNext]_logsVars

-----------------------------------------------------------------------------
(* Properties *)

\* The two rules of invlogs_apply.py:10-16: only the customer changes or ends
\* a customer's configuration, or a call whose look could not read it or was
\* before it.
CustomersStay ==
    [][ \A g \in Regions : live[g] = "theirs" /\ live'[g] # "theirs"
          => \/ Customer(g)
             \/ \E p \in Puts : put[p].at = g /\ put[p].saw # "theirs" ]_logsVars

\* What the catalogue says of g is what Bedrock has: one that is on is logged
\* to somebody, one that is off is not logged to tg.  (Whether text is delivered
\* may differ: a configuration of tg's is left as it is.)
Told(g) == /\ Enabled(catalogue[g]) => live[g] # "none"
           /\ catalogue[g] = "disabled" => live[g] \in {"none", "theirs"}

\* settings.py:411-452: while no request is replacing it, the catalogue is what
\* Bedrock has, unless a call failed there, the look was stale, the catalogue
\* was only seeded, or a request that saved nothing crossed one that did.
CatalogueHolds == ~RowHeld => \A g \in Regions \ (missed \cup crossed) : Told(g)

\* settings.py:424-430: "Replace the region catalog and APPLY it", of which only
\* calls that fail are excepted (444-446): CatalogueHolds whatever requests cross.
CatalogueIsApplied == ~RowHeld => \A g \in Regions \ missed : Told(g)

\* invlogs_apply.py:11-13: "tg never clobbers a config the customer already
\* runs".
NeverClobbers ==
    [][ \A g \in Regions :
          live[g] = "theirs" /\ live'[g] # "theirs" => Customer(g) ]_logsVars

\* main.py:337-340: the seed "never overwrites an admin's later Settings edits
\* on restart".
EditsStay == [][ SeedAtStart /\ admin => catalogue' = catalogue ]_logsVars
=============================================================================
