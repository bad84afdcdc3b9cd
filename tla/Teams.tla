-------------------------------- MODULE Teams --------------------------------
(***************************************************************************)
(* The team hierarchy and who belongs where: api/routes/teams.py,          *)
(* db/teams_membership.py and the handlers of api/routes/users.py that     *)
(* touch a team.  team_memberships is the authority on a user's team;      *)
(* users.team_id only shadows it.  parent_team_id makes the teams a forest.*)
(*                                                                         *)
(* A request reads what its checks need, decides, and its writes reach the *)
(* table together at its commit, where the database applies its own        *)
(* constraints: keys, foreign keys and NOT NULL.  Between the two, other   *)
(* requests may commit.  `raced` remembers the operations that committed   *)
(* on reads another commit had made stale.                                 *)
(***************************************************************************)
EXTENDS Naturals, FiniteSets

CONSTANTS
    Emails,     \* people, by email
    TeamIds,    \* team ids, chosen by callers
    TeamRequests, \* API requests in flight at once
    MaxMoves,   \* bound on the number of requests
    Root,       \* parent_team_id is NULL
    Absent,     \* no such team
    NoTeam      \* users.team_id is NULL

ASSUME TeamsAssumption == /\ IsFiniteSet(TeamIds) /\ Emails # {}
                          /\ {Root, Absent, NoTeam} \cap TeamIds = {}
                          /\ Absent \notin {Root, NoTeam}
                          /\ MaxMoves \in Nat

VARIABLES
    parent,    \* per team id, its parent, Root or Absent
    users,     \* the people with a row in users
    members,   \* rows of team_memberships
    shadow,    \* users.team_id
    ready,     \* the start-up backfill has run
    req,       \* per request, what it has decided to write
    raced,     \* history: operations committed on stale reads
    moves

teamsVars == <<parent, users, members, shadow, ready, req, raced, moves>>
teamsData == <<parent, users, members, shadow>>

Operations == {"create_team", "reparent", "delete_team", "assign", "clear",
               "remove", "create_user", "delete_user"}

\* What a handler has decided: the team and the person it is about, the new
\* parent, whether it inserts a membership, and the shadow it read.
Plan == [ op : Operations \cup {"idle"}, team : TeamIds \cup {NoTeam},
          who : Emails, to : TeamIds \cup {Root}, insert : BOOLEAN,
          saw : TeamIds \cup {NoTeam}, stale : BOOLEAN ]

Idle == [ op |-> "idle", team |-> NoTeam, who |-> CHOOSE p \in Emails : TRUE,
          to |-> Root, insert |-> FALSE, saw |-> NoTeam, stale |-> FALSE ]

Teams == {t \in TeamIds : parent[t] # Absent}
TeamsOf(p) == {t \in Teams : <<p, t>> \in members}

TeamsTypeOK ==
    /\ parent \in [TeamIds -> TeamIds \cup {Root, Absent}]
    /\ users \subseteq Emails
    /\ members \subseteq users \X Teams
    /\ shadow \in [Emails -> Teams \cup {NoTeam}]
    /\ \A p \in Emails \ users : shadow[p] = NoTeam
    /\ \A t \in Teams : parent[t] \in Teams \cup {Root}
    /\ ready \in BOOLEAN
    /\ req \in [TeamRequests -> Plan]
    /\ raced \subseteq Operations
    /\ moves \in 0..MaxMoves
-----------------------------------------------------------------------------
(* The hierarchy *)

\* What the walk up from t meets: it follows the parent at most as many times
\* as there are teams, after which it only repeats itself.
WalkUp(t) ==
    LET met[n \in Nat] ==
            IF n = 0 THEN {t}
            ELSE met[n - 1] \cup {parent[x] : x \in met[n - 1] \cap TeamIds}
    IN  met[Cardinality(TeamIds)]

\* Mutant of ValidParent: only refuses a team as its own parent.
NotItself(t, p) == p \in (Teams \cup {Root}) \ {t}

\* _validate_parent: the chain above p exists, ends, and does not meet t.
ValidParent(t, p) ==
    p = Root \/ /\ p # t
                /\ t \notin WalkUp(p) /\ Absent \notin WalkUp(p)
                /\ Root \in WalkUp(p)

\* Scope.admin_team_ids: down from the seeds, level by level, until a level
\* brings nothing new.
Subtree(seeds) ==
    LET down[n \in Nat] ==
            IF n = 0 THEN seeds
            ELSE down[n - 1] \cup {t \in Teams : parent[t] \in down[n - 1]}
    IN  down[Cardinality(TeamIds)]

-----------------------------------------------------------------------------
(* Start-up: every user with a shadow and no membership gets one. *)

Backfill ==
    /\ ~ready
    /\ ready' = TRUE
    /\ members' = members \cup {<<p, shadow[p]>> : p \in
                     {u \in users : shadow[u] # NoTeam /\ TeamsOf(u) = {}}}
    /\ UNCHANGED <<parent, users, shadow, req, raced, moves>>

-----------------------------------------------------------------------------
(* Handlers: what they read and decide *)

Decide(r, plan) ==
    /\ ready
    /\ req[r].op = "idle"
    /\ moves < MaxMoves /\ moves' = moves + 1
    /\ req' = [req EXCEPT ![r] = plan]
    /\ UNCHANGED <<teamsData, ready, raced>>

CreateTeam(r, t) ==
    \E p \in TeamIds \cup {Root} :
        /\ parent[t] = Absent
        /\ ValidParent(t, p)
        /\ Decide(r, [Idle EXCEPT !.op = "create_team", !.team = t, !.to = p])

UpdateTeam(r, t) ==
    \E p \in TeamIds \cup {Root} :
        /\ parent[t] \notin {Absent, p}
        /\ ValidParent(t, p)
        /\ Decide(r, [Idle EXCEPT !.op = "reparent", !.team = t, !.to = p])

DeleteTeam(r, t) ==
    /\ parent[t] # Absent
    /\ Decide(r, [Idle EXCEPT !.op = "delete_team", !.team = t])

\* assign_user_team: 409 for a member of a different team.
MayJoin(p, t) == TeamsOf(p) \subseteq {t}

\* POST members, which does not look whether user and team exist, and PUT
\* team, which does; both assign.
Assign(r, p, t) ==
    /\ MayJoin(p, t)
    /\ Decide(r, [Idle EXCEPT !.op = "assign", !.who = p, !.team = t,
                              !.insert = (t \notin TeamsOf(p)), !.saw = shadow[p]])

\* PUT team with no team: the membership it finds goes.
ClearTeam(r, p) ==
    /\ p \in users
    /\ \E t \in (IF TeamsOf(p) = {} THEN {NoTeam} ELSE TeamsOf(p)) :
          Decide(r, [Idle EXCEPT !.op = "clear", !.who = p, !.team = t,
                                !.saw = shadow[p]])

RemoveMember(r, p, t) ==
    /\ <<p, t>> \in members
    /\ Decide(r, [Idle EXCEPT !.op = "remove", !.who = p, !.team = t, !.saw = shadow[p]])

CreateUser(r, p) ==
    /\ p \notin users
    /\ \E t \in TeamIds \cup {NoTeam} :
          Decide(r, [Idle EXCEPT !.op = "create_user", !.who = p, !.team = t])

DeleteUser(r, p) ==
    /\ p \in users
    /\ Decide(r, [Idle EXCEPT !.op = "delete_user", !.who = p])

HandleTeams(r) ==
    \/ \E t \in TeamIds : CreateTeam(r, t) \/ UpdateTeam(r, t) \/ DeleteTeam(r, t)
    \/ \E p \in Emails :
          \/ ClearTeam(r, p) \/ CreateUser(r, p) \/ DeleteUser(r, p)
          \/ \E t \in TeamIds : Assign(r, p, t) \/ RemoveMember(r, p, t)

-----------------------------------------------------------------------------
(* Commits *)

\* The handler ends; what the others have read may now be stale.
Finish(r, written) ==
    /\ req' = [q \in TeamRequests |->
          IF q = r THEN Idle
          ELSE [req[q] EXCEPT !.stale = @ \/ (written /\ req[q].op # "idle")]]
    /\ raced' = IF written /\ req[r].stale THEN raced \cup {req[r].op} ELSE raced
    /\ UNCHANGED <<ready, moves>>

\* A constraint of the database, an UPDATE of a row gone meanwhile, or a
\* crash: everything the request wrote is rolled back.
RollBack(r) ==
    /\ req[r].op # "idle"
    /\ Finish(r, FALSE)
    /\ UNCHANGED teamsData

\* INSERT or UPDATE of a team row: the parent is a foreign key.
WriteTeam(r) ==
    LET q == req[r] IN
    /\ q.op \in {"create_team", "reparent"}
    /\ (q.op = "create_team") <=> (parent[q.team] = Absent)
    /\ q.to \in Teams \cup {Root}
    /\ parent' = [parent EXCEPT ![q.team] = q.to]
    /\ Finish(r, TRUE)
    /\ UNCHANGED <<users, members, shadow>>

\* Mutant of DropTeam: what refers to the team keeps doing so.
DropTeamAlone(r) ==
    LET t == req[r].team IN
    /\ req[r].op = "delete_team"
    /\ parent' = [parent EXCEPT ![t] = Absent]
    /\ Finish(r, TRUE)
    /\ UNCHANGED <<users, members, shadow>>

\* The ORM clears what refers to the team: children become roots, shadows go;
\* a membership's team_id may not be NULL, so a team with members stays.
DropTeam(r) ==
    LET t == req[r].team IN
    /\ req[r].op = "delete_team"
    /\ \A p \in Emails : <<p, t>> \notin members
    /\ parent' = [x \in TeamIds |-> IF x = t THEN Absent
                                    ELSE IF parent[x] = t THEN Root ELSE parent[x]]
    /\ shadow' = [p \in Emails |-> IF shadow[p] = t THEN NoTeam ELSE shadow[p]]
    /\ Finish(r, TRUE)
    /\ UNCHANGED <<users, members>>

\* Mutant of WriteAssign: forgets the shadow column.
AssignNoShadow(r) ==
    LET q == req[r] IN
    /\ q.op = "assign"
    /\ q.insert => q.who \in users /\ q.team \in Teams /\ <<q.who, q.team>> \notin members
    /\ members' = IF q.insert THEN members \cup {<<q.who, q.team>>} ELSE members
    /\ Finish(r, TRUE)
    /\ UNCHANGED <<parent, users, shadow>>

\* (email, team) is unique, and both are foreign keys.  The shadow is updated
\* when it is not already what is wanted; a user without a row has none.
WriteAssign(r) ==
    LET q == req[r] IN
    /\ q.op = "assign"
    /\ q.insert => q.who \in users /\ q.team \in Teams /\ <<q.who, q.team>> \notin members
    /\ q.saw # q.team => q.who \in users /\ q.team \in Teams
    /\ members' = IF q.insert THEN members \cup {<<q.who, q.team>>} ELSE members
    /\ shadow' = IF q.saw # q.team THEN [shadow EXCEPT ![q.who] = q.team] ELSE shadow
    /\ Finish(r, TRUE)
    /\ UNCHANGED <<parent, users>>

\* DELETE of a membership and the shadow: a membership already gone only
\* makes the ORM warn.  "remove" clears the shadow if it was this team's.
WriteRemove(r) ==
    LET q == req[r]
        clears == IF q.op = "clear" THEN q.saw # NoTeam ELSE q.saw = q.team
    IN
    /\ q.op \in {"clear", "remove"}
    /\ clears => q.who \in users
    /\ members' = members \ {<<q.who, q.team>>}
    /\ shadow' = IF clears THEN [shadow EXCEPT ![q.who] = NoTeam] ELSE shadow
    /\ Finish(r, TRUE)
    /\ UNCHANGED <<parent, users>>

InsertUser(r) ==
    LET q == req[r] IN
    /\ q.op = "create_user"
    /\ q.who \notin users
    /\ q.team \in Teams \cup {NoTeam}
    /\ users' = users \cup {q.who}
    /\ members' = IF q.team = NoTeam THEN members ELSE members \cup {<<q.who, q.team>>}
    /\ shadow' = [shadow EXCEPT ![q.who] = q.team]
    /\ Finish(r, TRUE)
    /\ UNCHANGED parent

\* The memberships go first, or their foreign key would keep the user.
DropUser(r) ==
    LET p == req[r].who IN
    /\ req[r].op = "delete_user"
    /\ users' = users \ {p}
    /\ members' = {m \in members : m[1] # p}
    /\ shadow' = [shadow EXCEPT ![p] = NoTeam]
    /\ Finish(r, TRUE)
    /\ UNCHANGED parent

CommitTeams(r) == \/ WriteTeam(r)   \/ DropTeam(r)   \/ WriteAssign(r)
             \/ WriteRemove(r) \/ InsertUser(r) \/ DropUser(r)

\* An upgraded database: the hierarchy is a forest, some users have a team
\* that only the shadow records.
TeamsInit ==
    /\ users \in {{}, Emails}
    /\ parent \in [TeamIds -> TeamIds \cup {Root, Absent}]
    /\ \A t \in Teams : parent[t] \in Teams \cup {Root} /\ Root \in WalkUp(t)
    /\ shadow \in [Emails -> {NoTeam} \cup Teams]
    /\ \A p \in Emails \ users : shadow[p] = NoTeam
    /\ \E kept \in SUBSET users :
          members = {<<p, shadow[p]>> : p \in {u \in kept : shadow[u] # NoTeam}}
    /\ ready = FALSE
    /\ req = [r \in TeamRequests |-> Idle]
    /\ raced = {}
    /\ moves = 0

TeamsNext == Backfill \/ \E r \in TeamRequests : HandleTeams(r) \/ CommitTeams(r) \/ RollBack(r)

TeamsSpec == TeamsInit /\ [][TeamsNext]_teamsVars

-----------------------------------------------------------------------------
(* Properties *)

\* teams.py:92: no team is its own ancestor, whatever is created, moved and
\* deleted, unless two moves overlapped: each walks up a hierarchy the other
\* is about to change.
Forest == "reparent" \in raced \/ \A t \in Teams : Root \in WalkUp(t)

\* teams_membership.py:11-13: at most one membership per user, unless two
\* assignments overlapped: the look-up and the insert are apart, and the
\* unique constraint is on the pair.
OneTeamEach == "assign" \in raced \/ \A p \in Emails : Cardinality(TeamsOf(p)) <= 1

\* The shadow is the membership, so that lists, counts, spend and scopes,
\* some of which read the one and some the other, agree: once the backfill
\* has run, and unless requests about a membership overlapped others.
ShadowAgrees ==
    \/ ~ready \/ raced \cap {"assign", "clear", "remove"} # {}
    \/ \A p \in users : TeamsOf(p) = {shadow[p]} \ {NoTeam}

\* A team admin reaches exactly the teams whose chain of parents leads to a
\* team of his, whatever the hierarchy has become, cycles included.
ScopeIsDescent ==
    \A s \in Teams : Subtree({s}) = {t \in Teams : s \in WalkUp(t)}

\* teams.py:92: the hierarchy has no cycle, and an admin's scope is what lies
\* under the teams granted.
Hierarchy == Forest /\ ScopeIsDescent

\* teams_membership.py:11-13: one team a user, the same in both tables.
Memberships == OneTeamEach /\ ShadowAgrees
=============================================================================
