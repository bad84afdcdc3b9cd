----------------------------- MODULE Publication -----------------------------
(***************************************************************************)
(* What the replacement of the deny document promises, and what            *)
(* Enforcement takes it for: a run that has computed a document puts it in *)
(* force in one step, or ends without a trace.  A run that nothing has     *)
(* overlapped may end without only if its document is in force already.    *)
(***************************************************************************)
CONSTANTS Runs, Docs, NoDoc

VARIABLES
    want,       \* the document a run computes if it starts now
    inForce,    \* the document in force
    brings,     \* per run, the document it has computed, or NoDoc
    alone       \* the runs nothing has overlapped since they began

vars == <<want, inForce, brings, alone>>

Init ==
    /\ want \in Docs /\ inForce \in Docs
    /\ brings = [p \in Runs |-> NoDoc]
    /\ alone = {}

Begin(p) ==
    /\ brings[p] = NoDoc
    /\ brings' = [brings EXCEPT ![p] = want]
    /\ alone' = IF \A q \in Runs : brings[q] = NoDoc THEN {p} ELSE {}
    /\ UNCHANGED <<want, inForce>>

Ends(p) ==
    /\ brings[p] # NoDoc
    /\ brings' = [brings EXCEPT ![p] = NoDoc]
    /\ UNCHANGED <<want, alone>>

Publish(p) == Ends(p) /\ inForce' = brings[p]

GiveUp(p) ==
    /\ Ends(p) /\ UNCHANGED inForce
    /\ p \in alone => inForce = brings[p]

Change == want' \in Docs /\ UNCHANGED <<inForce, brings, alone>>

\* An operator may put any document in force.
Operator == inForce' \in Docs /\ alone' = {} /\ UNCHANGED <<want, brings>>

Next == (\E p \in Runs : Begin(p) \/ Publish(p) \/ GiveUp(p)) \/ Change \/ Operator

Spec == Init /\ [][Next]_vars
=============================================================================
