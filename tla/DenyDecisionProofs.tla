------------------------- MODULE DenyDecisionProofs -------------------------
(***************************************************************************)
(* What a pass does to a row, for every row, setting, spend and estimate.  *)
(***************************************************************************)
EXTENDS DenyDecision, TLAPS

\* The row of a new principal is a row (models.py defaults).
LEMMA NewRowType == NewRow \in Row
BY NoRoleIsNoRole DEF NewRow, Row, Status

\* A pass writes one of the three statuses.
LEMMA StatusAfterType ==
    ASSUME NEW o, NEW r \in Row, NEW s, NEW e
    PROVE  StatusAfter(o, r, s, e) \in Status
BY DEF Row, StatusAfter, Status

\* A pass writes a row and leaves alone the columns its decisions depend on,
\* the status apart.
LEMMA AfterType ==
    ASSUME NEW o, NEW r \in Row, NEW s, NEW e
    PROVE  /\ After(o, r, s, e) \in Row
           /\ After(o, r, s, e).governed = r.governed
           /\ After(o, r, s, e).cap = r.cap
           /\ After(o, r, s, e).role = r.role
           /\ After(o, r, s, e).idc = r.idc
           /\ After(o, r, s, e).status = StatusAfter(o, r, s, e)
           /\ After(o, r, s, e).warned = WarnedAfter(o, r, s, e)
           /\ After(o, r, s, e).notified = NotifiedAfter(o, r, s, e)
<1>1. WarnedAfter(o, r, s, e) \in BOOLEAN
  BY DEF WarnedAfter, Row
<1>2. NotifiedAfter(o, r, s, e) \in Status \cup {"none"}
  BY StatusAfterType DEF NotifiedAfter, Row, Status
<1>3. QED
  BY <1>1, <1>2, StatusAfterType DEF After, Row

\* What a decision reads of a row besides its status and its latches.
LEMMA SameCap ==
    ASSUME NEW o, NEW r, NEW q, r.governed = q.governed, r.cap = q.cap, NEW s, NEW e
    PROVE  /\ CapOf(o, r) = CapOf(o, q)
           /\ Effective(o, r, s, e) = Effective(o, q, s, e)
           /\ \A x : OverWarn(o, r, x) <=> OverWarn(o, q, x)
           /\ Alerting(o, r) <=> Alerting(o, q)
<1>1. CapOf(o, r) = CapOf(o, q)
  BY DEF CapOf
<1>2. Effective(o, r, s, e) = Effective(o, q, s, e)
  BY <1>1 DEF Effective
<1>3. \A x : OverWarn(o, r, x) <=> OverWarn(o, q, x)
  BY <1>1 DEF OverWarn
<1>4. Alerting(o, r) <=> Alerting(o, q)
  BY <1>1 DEF Alerting
<1>5. QED
  BY <1>1, <1>2, <1>3, <1>4

\* The label a pass gives is the one the next pass gives.
LEMMA StatusSettles ==
    ASSUME NEW o \in Org, NEW r \in Row, NEW q \in Row, NEW s \in Nat, NEW e \in Nat,
           q.governed = r.governed, q.cap = r.cap,
           q.status = StatusAfter(o, r, s, e)
    PROVE  StatusAfter(o, q, s, e) = q.status
<1>1. CASE ~r.governed
  <2>1. StatusAfter(o, r, s, e) = "active"
    BY <1>1 DEF StatusAfter, Denied
  <2>2. ~q.governed
    BY <1>1
  <2>3. StatusAfter(o, q, s, e) = "active"
    BY <2>2 DEF StatusAfter, Denied
  <2>4. QED
    BY <2>1, <2>3
<1>2. CASE r.governed
  <2> DEFINE over == s >= CapOf(o, r)
             eff  == Effective(o, r, s, e) >= CapOf(o, r)
  <2>1. /\ CapOf(o, q) = CapOf(o, r)
        /\ Effective(o, q, s, e) = Effective(o, r, s, e)
    BY SameCap
  <2>2. q.governed /\ r.status \in Status
    BY <1>2 DEF Row
  <2>3. over => eff
    <3>1. CapOf(o, r) \in Nat
      BY DEF CapOf, Row, Org
    <3>2. QED
      BY <3>1 DEF Effective
  <2>4. Denied(o, r, s, e) <=> r.status = "force_blocked" \/ eff
    BY <1>2 DEF Denied, ShouldDeny
  <2>5. Denied(o, q, s, e) <=> q.status = "force_blocked" \/ eff
    BY <2>1, <2>2 DEF Denied, ShouldDeny
  <2> HIDE DEF over, eff
  <2>6. q.status = CASE ~r.governed -> "active"
          [] Denied(o, r, s, e) /\ r.status = "active" /\ over -> "blocked"
          [] ~Denied(o, r, s, e) /\ r.status = "blocked" /\ ~over /\ r.governed -> "active"
          [] OTHER -> r.status
    BY DEF StatusAfter, over
  <2>7. StatusAfter(o, q, s, e) = CASE ~q.governed -> "active"
          [] Denied(o, q, s, e) /\ q.status = "active" /\ over -> "blocked"
          [] ~Denied(o, q, s, e) /\ q.status = "blocked" /\ ~over /\ q.governed -> "active"
          [] OTHER -> q.status
    BY <2>1 DEF StatusAfter, over
  <2>8. QED
    BY <1>2, <2>2, <2>3, <2>4, <2>5, <2>6, <2>7 DEF Status
<1>3. QED
  BY <1>1, <1>2 DEF Row

\* With a settled label a pass has only a warn left to send, and after it
\* nothing.
LEMMA LatchSettles ==
    ASSUME NEW o, NEW q \in Row, NEW s, NEW e,
           StatusAfter(o, q, s, e) = q.status,
           StatusAfter(o, After(o, q, s, e), s, e) = q.status
    PROVE  LET t == After(o, q, s, e)
           IN  After(o, t, s, e) = t /\ Mails(o, t, s, e) = {}
<1> DEFINE t == After(o, q, s, e)
           eff == Effective(o, q, s, e)
           warns(r) == q.status = "active" /\ ~r.warned /\ OverWarn(o, q, eff)
<1>1. /\ t \in Row /\ t.governed = q.governed /\ t.cap = q.cap
      /\ t.status = q.status /\ t.warned = WarnedAfter(o, q, s, e)
  BY AfterType
<1>2. /\ Effective(o, t, s, e) = eff
      /\ \A x : OverWarn(o, t, x) <=> OverWarn(o, q, x)
      /\ Alerting(o, t) <=> Alerting(o, q)
  BY <1>1, SameCap
<1>3. Events(o, q, q.status, eff) = {x \in {"warn"} : warns(q)}
  BY DEF Events, Barred
<1>4. Events(o, t, t.status, eff) = {x \in {"warn"} : warns(t)}
  BY <1>1, <1>2 DEF Events, Barred
<1>5. t.warned = IF ~Alerting(o, q) THEN q.warned
                 ELSE warns(q) \/ (q.warned /\ OverWarn(o, q, eff))
  BY <1>1, <1>3 DEF WarnedAfter
<1>6. Alerting(o, q) => ~warns(t)
  BY <1>5
<1>7. Mails(o, t, s, e) = {}
  BY <1>1, <1>2, <1>4, <1>6 DEF Mails
<1>8. WarnedAfter(o, t, s, e) = t.warned
  <2>1. WarnedAfter(o, t, s, e) = IF ~Alerting(o, q) THEN t.warned
                 ELSE warns(t) \/ (t.warned /\ OverWarn(o, q, eff))
    BY <1>1, <1>2, <1>4 DEF WarnedAfter
  <2>2. t.warned \in BOOLEAN
    BY <1>1 DEF Row
  <2>3. QED
    BY <1>5, <1>6, <2>1, <2>2
<1>9. NotifiedAfter(o, t, s, e) = t.notified
  BY <1>7 DEF NotifiedAfter
<1>10. After(o, t, s, e) = t
  <2>1. After(o, t, s, e) = [t EXCEPT !.status = t.status, !.warned = t.warned,
                                      !.notified = t.notified]
    BY <1>1, <1>8, <1>9 DEF After
  <2> HIDE DEF t
  <2>2. QED
    BY <1>1, <2>1 DEF Row
<1>11. QED
  BY <1>7, <1>10

\* A pass mails nothing but the three kinds of event.
LEMMA MailsType ==
    ASSUME NEW o, NEW r, NEW s, NEW e
    PROVE  Mails(o, r, s, e) \subseteq {"warn", "blocked", "unblocked"}
BY DEF Mails, Events

\* What a pass mails, and what it remembers of it.
LEMMA MailFacts ==
    ASSUME NEW o, NEW r \in Row, NEW s, NEW e
    PROVE  LET m == Mails(o, r, s, e)
               t == After(o, r, s, e)
           IN  /\ "warn" \in m => ~r.warned /\ t.warned
               /\ "warn" \in m => m = {"warn"}
               /\ "blocked" \in m => r.notified # "blocked" /\ t.notified = "blocked"
               /\ "unblocked" \in m => r.notified # "active" /\ t.notified = "active"
               /\ ("blocked" \notin m /\ "unblocked" \notin m)
                     => t.notified = r.notified
               /\ r.warned => t.warned \/ ~OverWarn(o, r, Effective(o, r, s, e))
<1> DEFINE new == StatusAfter(o, r, s, e)
           eff == Effective(o, r, s, e)
           evs == Events(o, r, new, eff)
           m   == Mails(o, r, s, e)
           t   == After(o, r, s, e)
<1>1. t.warned = WarnedAfter(o, r, s, e) /\ t.notified = NotifiedAfter(o, r, s, e)
  BY AfterType
<1>2. \A x : x \in m <=> ( /\ x \in evs
                           /\ Alerting(o, r)
                           /\ x = "blocked"   => r.notified # new
                           /\ x = "unblocked" => r.notified # "active" )
  BY DEF Mails
<1>3. "warn" \in evs => ~r.warned /\ evs = {"warn"}
  BY DEF Events
<1>4. t.warned = IF ~Alerting(o, r) THEN r.warned
                 ELSE "warn" \in evs \/ (r.warned /\ OverWarn(o, r, eff))
  BY <1>1 DEF WarnedAfter
<1>5. "blocked" \in evs => new = "blocked"
  <2>1. SUFFICES ASSUME "blocked" \in evs PROVE new = "blocked"
    OBVIOUS
  <2>2. r.status = "active" /\ new \in Barred
    BY <2>1 DEF Events
  <2>3. new \in {"active", "blocked", r.status}
    BY DEF StatusAfter
  <2>4. QED
    BY <2>2, <2>3 DEF Barred
<1>6. t.notified = CASE "blocked" \in m -> new
                     [] "unblocked" \in m -> "active"
                     [] OTHER -> r.notified
  BY <1>1 DEF NotifiedAfter
<1>7. ~("blocked" \in evs /\ "unblocked" \in evs)
  BY DEF Events, Barred
<1> HIDE DEF evs, m, t, new, eff
<1>8. "warn" \in m => ~r.warned /\ t.warned
  BY <1>2, <1>3, <1>4
<1>9. "warn" \in m => m = {"warn"}
  BY <1>2, <1>3
<1>10. "blocked" \in m => r.notified # "blocked" /\ t.notified = "blocked"
  BY <1>2, <1>5, <1>6, <1>7
<1>11. "unblocked" \in m => r.notified # "active" /\ t.notified = "active"
  BY <1>2, <1>6, <1>7
<1>12. ("blocked" \notin m /\ "unblocked" \notin m) => t.notified = r.notified
  BY <1>6
<1>13. r.warned => t.warned \/ ~OverWarn(o, r, eff)
  BY <1>4
<1>14. QED
  BY <1>8, <1>9, <1>10, <1>11, <1>12, <1>13 DEF m, t, eff
=============================================================================
