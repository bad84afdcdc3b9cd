----------------------------- MODULE AdminAccess -----------------------------
(***************************************************************************)
(* Who may administer tg, and who may log in: api/routes/roles.py, the     *)
(* login of api/auth_routes.py, api/auth.py's session and scope, the       *)
(* bootstrap admin of api/main.py, and delete_user, which drops roles.     *)
(*                                                                         *)
(* A row of admin_roles is both the permission to log in and the power a   *)
(* session has.  While tg owns the directory, granting one also creates    *)
(* the person's login in the Cognito pool, which no roll-back undoes.      *)
(* Team ids are left out: a team admin acts on the teams that are his.     *)
(***************************************************************************)
EXTENDS Naturals, FiniteSets

CONSTANTS
    People,         \* emails
    Boot,           \* BOOTSTRAP_ADMIN_EMAIL
    RoleRequests,   \* API requests in flight at once
    MaxAccess       \* bound on requests, faults and settings changed

ASSUME AccessAssumption == Boot \in People /\ MaxAccess \in Nat

Roles == {"org_admin", "team_admin", "member"}
Ops == {"grant", "enable_login", "revoke", "delete_user"}

VARIABLES
    grants,     \* rows of admin_roles: <<email, role>>
    persons,    \* people with a row in users
    pool,       \* people with a login in the Cognito pool
    owns,       \* tg_owns_directory
    saml,       \* a SAML provider is configured
    flow,       \* people whose browser holds the state and PKCE cookies
    sessions,   \* people with a row of web_sessions that has not expired
    call,       \* per request, what it has decided
    promised,   \* history: people given a row while tg owned the directory
    overtaken,  \* history: operations committed on stale reads
    spent

vars == <<grants, persons, pool, owns, saml, flow, sessions, call, promised,
          overtaken, spent>>

NoCall == [op |-> "none", who |-> Boot, role |-> "member", invite |-> FALSE,
           invited |-> FALSE, stale |-> FALSE]

TypeOK ==
    /\ grants \subseteq People \X Roles
    /\ persons \subseteq People
    /\ pool \subseteq People
    /\ owns \in BOOLEAN /\ saml \in BOOLEAN
    /\ flow \subseteq People
    /\ sessions \subseteq People
    /\ call \in [RoleRequests -> [op : Ops \cup {"none"}, who : People,
                    role : Roles \cup {"any"}, invite : BOOLEAN,
                    invited : BOOLEAN, stale : BOOLEAN]]
    /\ promised \subseteq People
    /\ overtaken \subseteq Ops
    /\ spent \in 0..MaxAccess

Spend == spent < MaxAccess /\ spent' = spent + 1

Has(p, role) == <<p, role>> \in grants
Registered(p) == \E role \in Roles : Has(p, role)
OrgAdmins == {p \in People : Has(p, "org_admin")}
-----------------------------------------------------------------------------
(* Start-up, and the way in *)

\* The first row of an empty table is the bootstrap admin's.
Seeded == IF grants = {} THEN {<<Boot, "org_admin">>} ELSE grants

ApiStart ==
    /\ Seeded # grants
    /\ grants' = Seeded
    /\ UNCHANGED <<persons, pool, owns, saml, flow, sessions, call, promised,
                   overtaken, spent>>

\* GET /auth/login: sets the two short-lived cookies and redirects.
StartLogin(p) ==
    /\ p \notin flow
    /\ flow' = flow \cup {p}
    /\ UNCHANGED <<grants, persons, pool, owns, saml, sessions, call, promised,
                   overtaken, spent>>

\* The provider returns a code for p: by password out of the pool, or
\* federated.  The cookies must still be there.  Only somebody registered is
\* let in, and past a configured SAML provider only an org admin.
Callback(p, federated) ==
    LET seeded == IF p = Boot THEN Seeded ELSE grants
    IN
    /\ p \in flow
    /\ IF federated THEN saml ELSE p \in pool
    /\ \E role \in Roles : <<p, role>> \in seeded
    /\ saml /\ ~federated => <<p, "org_admin">> \in seeded
    /\ grants' = seeded
    /\ sessions' = sessions \cup {p}
    /\ flow' = flow \ {p}
    /\ UNCHANGED <<persons, pool, owns, saml, call, promised, overtaken, spent>>

\* A refused callback, or cookies that outlive their ten minutes.
AbandonLogin(p) ==
    /\ p \in flow
    /\ flow' = flow \ {p}
    /\ UNCHANGED <<grants, persons, pool, owns, saml, sessions, call, promised,
                   overtaken, spent>>

\* Logout deletes the row.  After eight hours the row is refused and stays:
\* its deletion is in the dependency's own session, which nobody commits.
EndSession(p) ==
    /\ p \in sessions
    /\ sessions' = sessions \ {p}
    /\ UNCHANGED <<grants, persons, pool, owns, saml, flow, call, promised,
                   overtaken, spent>>

-----------------------------------------------------------------------------
(* Requests: what they read and decide *)

\* The caller's cookie names a session that lives; power is read per request.
Caller(p) == p \in sessions

Receive(r, op, who, role, invite) ==
    /\ Spend
    /\ call[r].op = "none"
    /\ call' = [call EXCEPT ![r] = [NoCall EXCEPT !.op = op, !.who = who,
                                       !.role = role, !.invite = invite]]
    /\ UNCHANGED <<grants, persons, pool, owns, saml, flow, sessions, promised, overtaken>>

GrantRole(r, p, who, role) ==
    /\ Caller(p) /\ Has(p, "org_admin")
    /\ ~Has(who, role)
    /\ Receive(r, "grant", who, role, owns)

\* A team admin may let a member in; only a person known, and not yet let in.
EnableLogin(r, p, who, role) ==
    /\ Caller(p)
    /\ Has(p, "org_admin") \/ (role = "member" /\ Has(p, "team_admin"))
    /\ who \in persons /\ ~Registered(who)
    /\ Receive(r, "enable_login", who, role, owns)

\* Mutant of LeavesAnOrgAdmin: counts the one to be removed as well.
LeavesNobody(who, role) == role \in {"org_admin", "any"} => OrgAdmins # {}

\* "Prevent removing the last org_admin": somebody else must be one.
LeavesAnOrgAdmin(who, role) ==
    role \in {"org_admin", "any"} => OrgAdmins \ {who} # {}

RevokeRole(r, p, who, role) ==
    /\ Caller(p) /\ Has(p, "org_admin")
    /\ LeavesAnOrgAdmin(who, role)
    /\ Receive(r, "revoke", who, role, FALSE)

DeletePerson(r, p, who) ==
    /\ Caller(p) /\ Has(p, "org_admin")
    /\ who \in persons
    /\ Receive(r, "delete_user", who, "any", FALSE)

-----------------------------------------------------------------------------
(* Requests: the call to Cognito and the commit *)

Done(r, written) ==
    /\ call' = [q \in RoleRequests |->
          IF q = r THEN NoCall
          ELSE [call[q] EXCEPT !.stale = @ \/ (written /\ call[q].op # "none")]]
    /\ overtaken' = IF written /\ call[r].stale THEN overtaken \cup {call[r].op}
                    ELSE overtaken

\* AdminCreateUser fails for somebody who has a login already, which ends the
\* request like any other failure.
Invite(r) ==
    /\ call[r].invite /\ ~call[r].invited
    /\ call[r].who \notin pool
    /\ pool' = pool \cup {call[r].who}
    /\ call' = [call EXCEPT ![r].invited = TRUE]
    /\ UNCHANGED <<grants, persons, owns, saml, flow, sessions, promised, overtaken, spent>>

\* Mutant of MayInsert: the row goes in whatever became of the login.
InsertAnyway(r) == TRUE

MayInsert(r) == call[r].invite => call[r].invited

\* (email, role, team) is unique.
CommitGrant(r) ==
    LET c == call[r] IN
    /\ c.op \in {"grant", "enable_login"}
    /\ MayInsert(r)
    /\ ~Has(c.who, c.role)
    /\ grants' = grants \cup {<<c.who, c.role>>}
    /\ promised' = IF c.invite THEN promised \cup {c.who} ELSE promised
    /\ Done(r, TRUE)
    /\ UNCHANGED <<persons, pool, owns, saml, flow, sessions, spent>>

CommitRevoke(r) ==
    LET c == call[r]
        gone == {g \in grants : g[1] = c.who /\ c.role \in {g[2], "any"}}
    IN
    /\ c.op = "revoke"
    /\ gone # {}
    /\ grants' = grants \ gone
    /\ Done(r, TRUE)
    /\ UNCHANGED <<persons, pool, owns, saml, flow, sessions, promised, spent>>

\* The person's roles go with the row, whichever they are.
CommitDelete(r) ==
    LET who == call[r].who IN
    /\ call[r].op = "delete_user"
    /\ persons' = persons \ {who}
    /\ grants' = {g \in grants : g[1] # who}
    /\ Done(r, TRUE)
    /\ UNCHANGED <<pool, owns, saml, flow, sessions, promised, spent>>

\* A refusal of Cognito, a constraint, nothing to revoke, or a crash.
FailCall(r) ==
    /\ call[r].op # "none"
    /\ Done(r, FALSE)
    /\ UNCHANGED <<grants, persons, pool, owns, saml, flow, sessions, promised, spent>>

-----------------------------------------------------------------------------
(* Settings, and people the CUR sync discovers *)

SetDirectory ==
    /\ Spend
    /\ owns' = ~owns
    /\ UNCHANGED <<grants, persons, pool, saml, flow, sessions, call, promised, overtaken>>

SetSaml ==
    /\ Spend
    /\ saml' = ~saml
    /\ UNCHANGED <<grants, persons, pool, owns, flow, sessions, call, promised, overtaken>>

Discover(p) ==
    /\ Spend
    /\ p \notin persons
    /\ persons' = persons \cup {p}
    /\ UNCHANGED <<grants, pool, owns, saml, flow, sessions, call, promised, overtaken>>

\* The installer has created the bootstrap admin's login.
Init ==
    /\ grants = {} /\ persons = People /\ pool = {Boot}
    /\ owns \in BOOLEAN /\ saml \in BOOLEAN
    /\ flow = {} /\ sessions = {}
    /\ call = [r \in RoleRequests |-> NoCall]
    /\ promised = {} /\ overtaken = {} /\ spent = 0

LoginStep(p) ==
    \/ StartLogin(p) \/ AbandonLogin(p) \/ EndSession(p)
    \/ \E federated \in BOOLEAN : Callback(p, federated)

Handle(r) ==
    \E p, who \in People :
       \/ DeletePerson(r, p, who)
       \/ \E role \in Roles : GrantRole(r, p, who, role) \/ EnableLogin(r, p, who, role)
       \/ \E role \in Roles \cup {"any"} : RevokeRole(r, p, who, role)

Work(r) == Invite(r) \/ CommitGrant(r) \/ CommitRevoke(r) \/ CommitDelete(r) \/ FailCall(r)

Next ==
    \/ ApiStart \/ SetDirectory \/ SetSaml
    \/ \E p \in People : LoginStep(p) \/ Discover(p)
    \/ \E r \in RoleRequests : Handle(r) \/ Work(r)

Spec == Init /\ [][Next]_vars

-----------------------------------------------------------------------------
(* Properties *)

\* roles.py:180-185: a person registered while tg owns the directory can log
\* in.  The login outlives crashes, refusals and overlapping requests; a row
\* without a login could never be repaired, for a person with a row is
\* refused by enable_login and one without a login by reinvite.
NoHalfState == promised \subseteq pool

\* roles.py:364: once somebody administers the organisation somebody always
\* does, unless revokes overlapped, each of which counts the other's admin, or
\* a user was deleted, which asks nothing.
OrgAdminStays ==
    [][ OrgAdmins # {} /\ OrgAdmins' = {} =>
          \/ "revoke" \in overtaken'
          \/ \E r \in RoleRequests : call[r].op = "delete_user" /\ call'[r].op = "none"
      ]_vars

\* roles.py:364: as the comment states it, of every way to remove one.
LastOrgAdminStays == [][ OrgAdmins # {} => OrgAdmins' # {} ]_vars
=============================================================================
