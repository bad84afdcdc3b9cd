------------------------------ MODULE MCLogins ------------------------------
(***************************************************************************)
(* Who may log in and what they administer: AdminAccess, Teams and         *)
(* SamlLogin side by side.  `active' says which of the three a behaviour   *)
(* is about, so the states are theirs and not their product.               *)
(***************************************************************************)
EXTENDS AdminAccess, Teams, SamlLogin, TLC

VARIABLE active

loginsVars == <<active, vars, teamsVars, samlVars>>

\* The initial state of a part whose turn it is not is one of its own.
LoginsInit ==
    /\ active \in {"access", "teams", "saml"}
    /\ Init /\ TeamsInit /\ SamlInit
    /\ active # "access" => owns /\ ~saml
    /\ active # "teams" => users = {} /\ parent = [t \in TeamIds |-> Absent]
    /\ active # "saml" => client.callback = "old" /\ idps[EnvProvider] = "signed"

LoginsNext ==
    \/ active = "access" /\ Next /\ UNCHANGED <<active, teamsVars, samlVars>>
    \/ active = "teams" /\ TeamsNext /\ UNCHANGED <<active, vars, samlVars>>
    \/ active = "saml" /\ SamlNext /\ UNCHANGED <<active, vars, teamsVars>>

LoginsSpec == LoginsInit /\ [][LoginsNext]_loginsVars

\* Team ids and requests are alike; no property here is a liveness property.
Symmetry == Permutations(RoleRequests) \cup Permutations(TeamIds)
-----------------------------------------------------------------------------
(* Properties *)

\* The type invariants of the three parts.
TypesOK == TypeOK /\ TeamsTypeOK /\ SamlTypeOK
=============================================================================
