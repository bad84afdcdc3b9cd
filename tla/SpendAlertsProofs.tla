-------------------------- MODULE SpendAlertsProofs --------------------------
(***************************************************************************)
(* The mailbox properties of SpendAlerts for every cap, threshold, spend   *)
(* and estimate.                                                           *)
(***************************************************************************)
EXTENDS SpendAlerts, DenyDecisionProofs

-----------------------------------------------------------------------------
(* The specification *)

\* What the latches stand for, as long as no pass has rolled back: a warn is
\* latched until the principal has dipped, and the last block or unblock mail
\* is the one remembered.
Memory ==
    ~lost => /\ dipped \/ row.warned
             /\ lastMail = "blocked"   => row.notified = "blocked"
             /\ lastMail = "unblocked" => row.notified = "active"

Inv == TypeOK /\ Memory

\* The memory of the mails is right before the first pass.
LEMMA InitInv == Init => Inv
<1> SUFFICES ASSUME Init PROVE Inv
  OBVIOUS
<1>1. row \in Row
  BY MyRoleIsARole DEF Init, NewRow, Row, Status
<1>2. spend \in 0..MaxSpend /\ unbilled \in 0..MaxUnbilled
  BY BoundsAreNat DEF Init
<1>3. TypeOK
  BY <1>1, <1>2 DEF Init, TypeOK, EventKind
<1>4. Memory
  BY DEF Init, Memory
<1>5. QED
  BY <1>3, <1>4 DEF Inv

\* What a pass sends is well typed.
LEMMA SendType == ASSUME TypeOK, Send, row' \in Row, lost' \in BOOLEAN PROVE TypeOK'
<1>1. mails' \subseteq EventKind
  BY MailsType DEF Send, EventKind
<1>2. lastMail' \in {"none", "blocked", "unblocked"} /\ dipped' \in BOOLEAN
  BY DEF Send, TypeOK
<1>3. QED
  BY <1>1, <1>2 DEF Send, TypeOK

\* A pass that commits keeps the latches in step with the mails sent.
LEMMA TickInv == ASSUME Inv, Tick PROVE Inv'
<1> DEFINE m == Mails(org, row, spend, unbilled)
           t == After(org, row, spend, unbilled)
<1>1. row \in Row /\ row' = t /\ mails' = m /\ lost' = lost /\ Send
  BY DEF Inv, TypeOK, Tick, Send
<1>2. TypeOK'
  BY <1>1, AfterType, SendType DEF Inv, TypeOK
<1>3. /\ dipped' = (UnderWarn(org, t, spend, unbilled) \/ (dipped /\ "warn" \notin m))
      /\ lastMail' = CASE "blocked" \in m -> "blocked"
                       [] "unblocked" \in m -> "unblocked"
                       [] OTHER -> lastMail
  BY <1>1 DEF Send
<1>4. UnderWarn(org, t, spend, unbilled)
         <=> ~OverWarn(org, row, Effective(org, row, spend, unbilled))
  <2>1. t.governed = row.governed /\ t.cap = row.cap
    BY <1>1, AfterType
  <2> HIDE DEF t
  <2>2. QED
    BY <2>1, SameCap DEF UnderWarn
<1>5. /\ "warn" \in m => ~row.warned /\ t.warned
      /\ "blocked" \in m => t.notified = "blocked"
      /\ "unblocked" \in m => t.notified = "active"
      /\ ("blocked" \notin m /\ "unblocked" \notin m) => t.notified = row.notified
      /\ row.warned => t.warned \/ UnderWarn(org, t, spend, unbilled)
      /\ ~("blocked" \in m /\ "unblocked" \in m)
  <2>1. ~("blocked" \in m /\ "unblocked" \in m)
    <3>1. "blocked" \in m => t.notified = "blocked"
      BY <1>1, MailFacts
    <3>2. "unblocked" \in m => t.notified = "active"
      BY <1>1, MailFacts
    <3>3. QED
      BY <3>1, <3>2
  <2>2. QED
    BY <1>1, <1>4, <2>1, MailFacts
<1> HIDE DEF m, t
<1>6. Memory'
  BY <1>1, <1>3, <1>5 DEF Inv, Memory
<1>7. QED
  BY <1>2, <1>6 DEF Inv

\* A pass that is lost with a mail sent ends what is claimed; one without
\* mails changes nothing that is remembered.
LEMMA LostTickInv == ASSUME Inv, LostTick PROVE Inv'
<1>1. TypeOK'
  BY SendType DEF Inv, TypeOK, LostTick
<1>2. Memory'
  BY DEF Inv, TypeOK, Memory, LostTick, Send
<1>3. QED
  BY <1>1, <1>2 DEF Inv

\* A step that mails nothing and leaves the latches alone keeps the memory right.
LEMMA QuietInv ==
    ASSUME Inv, Quiet, row' \in Row, org' \in Orgs, spend' \in 0..MaxSpend,
           unbilled' \in 0..MaxUnbilled,
           row'.warned = row.warned, row'.notified = row.notified
    PROVE  Inv'
<1>1. TypeOK'
  BY DEF Inv, TypeOK, Quiet
<1>2. Memory'
  BY DEF Inv, TypeOK, Memory, Quiet
<1>3. QED
  BY <1>1, <1>2 DEF Inv

\* So every change an admin makes to the row does, the status included.
LEMMA AdminInv ==
    ASSUME Inv, NEW new \in Row, Admin(new),
           new.warned = row.warned, new.notified = row.notified
    PROVE  Inv'
BY QuietInv DEF Admin, Inv, TypeOK

\* Every step keeps the memory right, a pass that rolls back by giving it up.
LEMMA NextInv == Inv /\ [Next]_vars => Inv'
<1> SUFFICES ASSUME Inv, [Next]_vars PROVE Inv'
  OBVIOUS
<1>1. row \in Row
  BY DEF Inv, TypeOK
<1> USE <1>1 DEF Row, Status
<1>2. CASE Unblock
  BY <1>2, AdminInv DEF Unblock
<1>3. CASE SetStatus
  BY <1>3, AdminInv DEF SetStatus
<1>4. CASE SetCap
  BY <1>4, AdminInv, CapsAreCaps DEF SetCap
<1>5. CASE Manage
  BY <1>5, AdminInv DEF Manage
<1>6. CASE ForceBlock
  BY <1>6, AdminInv DEF ForceBlock
<1>7. CASE Unmanage
  <2>1. PICK status \in Status :
           Admin([row EXCEPT !.governed = FALSE, !.status = status])
    BY <1>7 DEF Unmanage
  <2>2. QED
    BY <2>1, AdminInv
<1>8. CASE SetOrg
  BY <1>8, QuietInv DEF SetOrg, Inv, TypeOK
<1>9. CASE Bill
  BY <1>9, QuietInv DEF Bill, Inv, TypeOK
<1>10. CASE QuotaReset
  BY <1>10 DEF QuotaReset, Inv, TypeOK, Memory, EventKind
<1>11. CASE UNCHANGED vars
  BY <1>11 DEF vars, Inv, TypeOK, Memory
<1>12. QED
  BY <1>2, <1>3, <1>4, <1>5, <1>6, <1>7, <1>8, <1>9, <1>10, <1>11,
     TickInv, LostTickInv DEF Next

\* Hence the memory is always right.
LEMMA Invariant == Spec => []Inv
BY InitInv, NextInv, PTL DEF Spec

\* Type correctness of the alerts, for any caps, org settings and bounds.
THEOREM TypeCorrect == Spec => []TypeOK
<1>1. Inv => TypeOK
  BY DEF Inv
<1>2. QED
  BY Invariant, <1>1, PTL

\* Each step is one that mails nothing, a pass, or a pass that is lost.
LEMMA WhoMails ==
    ASSUME Next
    PROVE  mails' = {} \/ mails' = Mails(org, row, spend, unbilled)
BY DEF Next, Tick, LostTick, Send, Unblock, SetStatus, SetCap, Manage, ForceBlock,
       Unmanage, Admin, SetOrg, Bill, QuotaReset, Quiet

\* One warn mail per crossing (deny_reconciler.py, the last_warn_sent_at latch
\* of run), whatever the caps, thresholds, estimates and admins' changes.
THEOREM WarnsOncePerCross == Spec => WarnOncePerCross
<1>1. Inv /\ [Next]_vars => ["warn" \in mails' => dipped \/ lost]_vars
  <2>1. ASSUME Inv, Next, "warn" \in mails' PROVE dipped \/ lost
    <3>1. row \in Row /\ "warn" \in Mails(org, row, spend, unbilled)
      BY <2>1, WhoMails DEF Inv, TypeOK
    <3>2. ~row.warned
      BY <3>1, MailFacts
    <3>3. QED
      BY <2>1, <3>2 DEF Inv, Memory
  <2>2. QED
    BY <2>1
<1>2. QED
  BY Invariant, <1>1, PTL DEF Spec, WarnOncePerCross

\* Block and unblock mails alternate (deny_reconciler.py, the comparison with
\* last_status_notified), as long as no pass is lost after mailing.
THEOREM MailsDoAlternate == Spec => MailsAlternate
<1>1. Inv /\ [Next]_vars => [(lastMail \in mails') => lost]_vars
  <2>1. ASSUME Inv, Next, lastMail \in mails' PROVE lost
    <3>1. row \in Row /\ lastMail \in Mails(org, row, spend, unbilled)
      BY <2>1, WhoMails DEF Inv, TypeOK
    <3>2. lastMail \in {"blocked", "unblocked"}
      <4>1. lastMail \in EventKind
        BY <3>1, MailsType DEF EventKind
      <4>2. lastMail \in {"none", "blocked", "unblocked"}
        BY <2>1 DEF Inv, TypeOK
      <4>3. QED
        BY <4>1, <4>2 DEF EventKind
    <3>3. CASE lastMail = "blocked"
      <4>1. row.notified # "blocked"
        BY <3>1, <3>3, MailFacts
      <4>2. QED
        BY <2>1, <3>3, <4>1 DEF Inv, Memory
    <3>4. CASE lastMail = "unblocked"
      <4>1. row.notified # "active"
        BY <3>1, <3>4, MailFacts
      <4>2. QED
        BY <2>1, <3>4, <4>1 DEF Inv, Memory
    <3>5. QED
      BY <3>2, <3>3, <3>4
  <2>2. QED
    BY <2>1
<1>2. QED
  BY Invariant, <1>1, PTL DEF Spec, MailsAlternate

\* The decisions are stable: with nothing changed, one pass settles the label
\* and two the row and the mailbox (deny_reconciler.py run, 673-802).
THEOREM PassesSettle == Spec => []PassSettles
<1>1. TypeOK => PassSettles
  <2>1. SUFFICES ASSUME TypeOK PROVE PassSettles
    OBVIOUS
  <2> DEFINE once  == After(org, row, spend, unbilled)
             twice == After(org, once, spend, unbilled)
  <2>2. /\ org \in Org /\ row \in Row /\ spend \in Nat /\ unbilled \in Nat
    BY <2>1, OrgsAreOrgs, BoundsAreNat DEF TypeOK
  <2>3. /\ once \in Row /\ once.governed = row.governed /\ once.cap = row.cap
        /\ once.status = StatusAfter(org, row, spend, unbilled)
    BY <2>2, AfterType
  <2> HIDE DEF once
  <2>4. StatusAfter(org, once, spend, unbilled) = once.status
    BY <2>2, <2>3, StatusSettles
  <2>5. /\ twice \in Row /\ twice.governed = once.governed /\ twice.cap = once.cap
        /\ twice.status = StatusAfter(org, once, spend, unbilled)
    BY <2>3, AfterType
  <2>6. StatusAfter(org, twice, spend, unbilled) = twice.status
    <3> HIDE DEF twice
    <3>1. QED
      BY <2>2, <2>3, <2>5, StatusSettles
  <2>7. /\ After(org, twice, spend, unbilled) = twice
        /\ Mails(org, twice, spend, unbilled) = {}
    BY <2>3, <2>4, <2>5, <2>6, LatchSettles
  <2>8. QED
    BY <2>4, <2>5, <2>7 DEF PassSettles, once
<1>2. QED
  BY TypeCorrect, <1>1, PTL
=============================================================================
