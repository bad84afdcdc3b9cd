----------------------------- MODULE SpendAlerts -----------------------------
(***************************************************************************)
(* The mails one principal gets over a sequence of reconciler passes, with *)
(* the admin's and the month's changes in between.  Passes are atomic here *)
(* (their interleavings are the subject of Enforcement): what is at stake  *)
(* is the memory kept between passes, the warn latch and the last status   *)
(* mailed, which other code paths leave alone when they change the status. *)
(***************************************************************************)
EXTENDS DenyDecision

CONSTANTS
    Caps,        \* the caps an admin may set, NoCap included or not
    Orgs,        \* the org settings that occur
    MaxSpend,    \* bound on the billed month to date
    MaxUnbilled, \* bound on the estimate
    MyRole       \* the IAM role of the principal

ASSUME BoundsAreNat == MaxSpend \in Nat /\ MaxUnbilled \in Nat
ASSUME OrgsAreOrgs  == Orgs \subseteq Org
ASSUME CapsAreCaps  == Caps \subseteq Nat \cup {NoCap}
ASSUME MyRoleIsARole == MyRole \in Roles

VARIABLES
    row,       \* the principal's row
    org,       \* the org settings
    spend,     \* billed month to date
    unbilled,  \* what the estimate would add
    mails,     \* the mails the last step sent
    lastMail,  \* history: the last block/unblock mail sent, "none" before
    dipped,    \* history: under the warn threshold, or a new month, since
               \* the last warn mail (TRUE before the first)
    lost       \* history: some pass has sent mails and then rolled back

vars == <<row, org, spend, unbilled, mails, lastMail, dipped, lost>>

EventKind == {"warn", "blocked", "unblocked"}

TypeOK ==
    /\ row \in Row
    /\ org \in Orgs
    /\ spend \in 0..MaxSpend
    /\ unbilled \in 0..MaxUnbilled
    /\ mails \subseteq EventKind
    /\ lastMail \in {"none", "blocked", "unblocked"}
    /\ dipped \in BOOLEAN
    /\ lost \in BOOLEAN

Init ==
    /\ row = [NewRow EXCEPT !.role = MyRole]
    /\ org \in Orgs
    /\ spend = 0
    /\ unbilled = 0
    /\ mails = {}
    /\ lastMail = "none"
    /\ dipped = TRUE
    /\ lost = FALSE

-----------------------------------------------------------------------------
UnderWarn(o, r, s, e) == ~OverWarn(o, r, Effective(o, r, s, e))

\* What a pass mails; it mails before it commits.
Send ==
    LET sent == Mails(org, row, spend, unbilled) IN
    /\ mails' = sent
    /\ lastMail' = CASE "blocked"   \in sent -> "blocked"
                     [] "unblocked" \in sent -> "unblocked"
                     [] OTHER                -> lastMail
    /\ dipped' = \/ UnderWarn(org, row', spend, unbilled)
                 \/ dipped /\ "warn" \notin sent
    /\ UNCHANGED <<org, spend, unbilled>>

\* One pass of the reconciler over this principal.
Tick ==
    /\ row' = After(org, row, spend, unbilled)
    /\ Send
    /\ UNCHANGED lost

\* A pass whose commit fails, on this row or another: the mails are out, the
\* latches are not.
LostTick ==
    /\ UNCHANGED row
    /\ Send
    /\ lost' = (lost \/ mails' # {})

\* Every other step sends nothing; it may take the principal under the
\* threshold.
Quiet ==
    /\ mails' = {}
    /\ dipped' = (dipped \/ UnderWarn(org', row', spend', unbilled'))
    /\ UNCHANGED <<lastMail, lost>>

Admin(newRow) ==
    /\ row' = newRow
    /\ UNCHANGED <<org, spend, unbilled>>
    /\ Quiet

Unblock   == Admin([row EXCEPT !.status = "active"])
SetStatus == \E s \in Status : Admin([row EXCEPT !.status = s])
SetCap    == \E c \in Caps : Admin([row EXCEPT !.cap = c])
Manage    == Admin([row EXCEPT !.governed = TRUE])

ForceBlock == /\ row.governed
              /\ Admin([row EXCEPT !.status = "force_blocked"])

Unmanage ==
    Admin([row EXCEPT !.governed = FALSE,
                      !.status = IF @ = "force_blocked" THEN "active" ELSE @])

SetOrg == /\ org' \in Orgs
          /\ UNCHANGED <<row, spend, unbilled>>
          /\ Quiet

\* The CUR sync replaces the month's rows: the total may go either way, and
\* the gap the estimate fills moves with it.
Bill == /\ spend' \in 0..MaxSpend
        /\ unbilled' \in 0..MaxUnbilled
        /\ UNCHANGED <<row, org>>
        /\ Quiet

\* quota_reset clears the latch on the first of the month.
QuotaReset ==
    /\ row' = [row EXCEPT !.warned = FALSE]
    /\ dipped' = TRUE
    /\ mails' = {}
    /\ UNCHANGED <<org, spend, unbilled, lastMail, lost>>

Next == Tick \/ LostTick \/ Unblock \/ SetStatus \/ SetCap \/ Manage 
        \/ ForceBlock \/ Unmanage \/ SetOrg \/ Bill \/ QuotaReset

Spec == Init /\ [][Next]_vars

-----------------------------------------------------------------------------
(* Properties *)

\* A warn mail leaves only after the principal has been under the threshold,
\* or a month has begun, since the warn mail before it: ticks, cap changes,
\* blocks and unblocks in between never make the latch forget; only a pass
\* that rolls back does.
WarnOncePerCross == [][ "warn" \in mails' => dipped \/ lost ]_vars

\* Block and unblock mails alternate: whatever admins do to the status
\* between two passes, nobody is told twice in a row the same thing, except
\* after a pass that rolled back.
MailsAlternate == [][ (lastMail \in mails') => lost ]_vars

\* A pass repeated with nothing changed has nothing left to do: the status is
\* final after one pass, the row and the mailbox after two (a principal let
\* back in near its cap is still warned by the second).
PassSettles ==
    LET once  == After(org, row, spend, unbilled)
        twice == After(org, once, spend, unbilled)
    IN  /\ twice.status = once.status
        /\ After(org, twice, spend, unbilled) = twice
        /\ Mails(org, twice, spend, unbilled) = {}
==============================================================================
