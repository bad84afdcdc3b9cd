---------------------------- MODULE MCSpendAlerts ----------------------------
(* Instance of SpendAlerts for TLC: caps 0, 2 and the org default of 1 or 2, *)
(* a warn threshold of half the cap, mails on or off, estimate on or off.    *)
EXTENDS SpendAlerts

MCCaps == {0, 2, NoCap}
MCOrgs == {[cap |-> 2, blockedOn |-> b, warnPct |-> 50, onEstimate |-> e, blocked |-> {}] :
              b, e \in BOOLEAN}
          \cup {[cap |-> 1, blockedOn |-> TRUE, warnPct |-> 50,
                 onEstimate |-> FALSE, blocked |-> {}]}
MCRoles == {MyRole}
=============================================================================
