---------------------------- MODULE MCEnforcement ----------------------------
(* Instances of Enforcement for TLC: two principals, the consumer role, one  *)
(* other role and one Identity Center role, a cap of 1 and a spend of 0..1.  *)
EXTENDS Enforcement

CONSTANTS u1, u2, tg_consumer, app, sso, opus

MCUsers   == {u1, u2}
MCOneUser == {u1}
MCRank    == [u \in Users |-> IF u = u1 THEN 1 ELSE 2]
MCRoles   == {tg_consumer, app, sso}
MCIdc     == {sso}
MCModels  == {opus}

PlainOrg  == [ cap |-> 1, blockedOn |-> FALSE, warnPct |-> 200,
               onEstimate |-> FALSE, blocked |-> {} ]
MCOneOrg  == {PlainOrg}
MCOrgs    == {PlainOrg, [PlainOrg EXCEPT !.blocked = {opus}],
              [PlainOrg EXCEPT !.onEstimate = TRUE]}

Free(role)  == [NewRow EXCEPT !.role = role, !.idc = (role = sso)]
Bound(role) == [Free(role) EXCEPT !.governed = TRUE]

MCFree      == {Free(app)}
MCBound     == {Bound(app)}
MCIdcRows   == {Bound(sso), Free(sso)}
MCForced    == {Bound(app), [Bound(app) EXCEPT !.status = "force_blocked"]}
MCMixed     == {Bound(app), Free(sso), Bound(tg_consumer)}

MCCaps    == {NoCap, 1}
MCNoCaps  == {NoCap}
=============================================================================
