----------------------------- MODULE GithubSync -----------------------------
(***************************************************************************)
(* Merged pull requests from GitHub: the ten-minute job                    *)
(* (worker/jobs/github_sync.py) and the endpoints that track repositories  *)
(* and keep tokens (api/routes/integrations_github.py).                    *)
(*                                                                         *)
(* GitHub lists a repository's closed pull requests by last update, the    *)
(* newest first, one page per request, while they go on being updated and  *)
(* reopened.  A sync stops where everything further down is older than its *)
(* horizon, one day before the last sync; no sync lasts a day.  Instead of *)
(* times a repository has the set of pull requests older than its horizon. *)
(* A pull request is a version, 0 until it is merged; one that was closed  *)
(* without is in the list too.                                             *)
(***************************************************************************)
EXTENDS Naturals, Sequences, FiniteSets, SequencesExt

CONSTANTS
    Repos, Pulls,
    Syncs,          \* runs at once
    TimerSync,      \* the scheduled one of them
    PerPage, MaxPages,
    MaxHub          \* bound on updates, faults, edits and runs by hand

HubAssumption == /\ Repos # {} /\ PerPage \in Nat \ {0} /\ MaxPages \in Nat \ {0}
                 /\ TimerSync \in Syncs /\ MaxHub \in Nat

VARIABLES
    feed,       \* GitHub: per repository, its closed pull requests, newest
                \* update first
    version,    \* GitHub: how often each has been updated since it was merged
    private,    \* GitHub: repositories that are not public
    orgPat,     \* there is an org-default token
    repo,       \* github_repos
    activity,   \* github_activity: per repository and pull request, its version
    sync,       \* per run, its progress
    confirmed,  \* history: repositories a probe has found private
    cut,        \* history: repositories where a walk has met MaxPages
    slid,       \* history: per repository, the pull requests that have moved up
                \* from a page not yet asked for to one that a walk had read
    hubMoves

hubVars ==
    <<feed, version, private, orgPat, repo, activity, sync, confirmed, cut, slid, hubMoves>>
hub == <<feed, version, private>>

Modes == {"auto", "override", "public"}
Visibility == {"unprobed", "public", "private"}         \* is_public
Untracked == [mode |-> "none", seen |-> "unprobed", pat |-> FALSE,
              status |-> "none", old |-> {}]
Tracked(r) == repo[r].mode # "none"

NoSync == [step |-> "idle", todo |-> {}, repo |-> CHOOSE r \in Repos : TRUE,
           token |-> "none", page |-> 0, data |-> <<>>, horizon |-> {}, fresh |-> {}]

HubTypeOK ==
    /\ feed \in [Repos -> Seq(Pulls)] /\ version \in [Repos -> [Pulls -> Nat]]
    /\ private \subseteq Repos /\ orgPat \in BOOLEAN
    /\ repo \in [Repos -> [mode : Modes \cup {"none"}, seen : Visibility, pat : BOOLEAN,
                           status : {"none", "ok", "paused", "rate_limited",
                                     "auth_failed", "not_found"},
                           old : SUBSET Pulls]]
    /\ activity \in [Repos -> [Pulls -> Nat]]
    /\ \A s \in Syncs :
          /\ sync[s].step \in {"idle", "next", "fetching", "storing"}
          /\ sync[s].todo \subseteq Repos /\ sync[s].repo \in Repos
          /\ sync[s].token \in {"none", "org", "override"}
          /\ sync[s].page \in 0..MaxPages /\ sync[s].data \in Seq(Pulls \X Nat)
          /\ sync[s].horizon \subseteq Pulls /\ sync[s].fresh \subseteq Pulls
    /\ confirmed \subseteq Repos /\ cut \subseteq Repos
    /\ slid \in [Repos -> SUBSET Pulls]
    /\ hubMoves \in 0..MaxHub

HubMove == hubMoves < MaxHub /\ hubMoves' = hubMoves + 1
-----------------------------------------------------------------------------
(* GitHub *)

\* p of r is changed now: it is nobody's horizon's, and walks under way that
\* have it may have it from before.
Touch(r, p) ==
    /\ repo' = [repo EXCEPT ![r].old = @ \ {p}]
    /\ sync' = [s \in Syncs |->
          IF sync[s].step \in {"fetching", "storing"} /\ sync[s].repo = r
          THEN [sync[s] EXCEPT !.fresh = @ \cup {p}, !.horizon = @ \ {p}] ELSE sync[s]]

ToTop(r, p) == feed' = [feed EXCEPT ![r] = <<p>> \o RemoveFirst(@, p)]

\* A pull request is merged, or updated after that: it is the newest.
Update(r, p) ==
    /\ HubMove
    /\ version[r][p] > 0 \/ p \notin Range(feed[r])
    /\ ToTop(r, p) /\ Touch(r, p)
    /\ version' = [version EXCEPT ![r][p] = @ + 1]
    /\ UNCHANGED <<private, orgPat, activity, confirmed, cut, slid>>

\* One is closed without being merged, or updated after that.
CloseUnmerged(r, p) ==
    /\ HubMove
    /\ version[r][p] = 0
    /\ ToTop(r, p) /\ Touch(r, p)
    /\ UNCHANGED <<version, private, orgPat, activity, confirmed, cut, slid>>

\* What moves from the first place a walk has not read to the last it has, when
\* p leaves the list of r.
Slides(r, p) ==
    {feed[r][i] : i \in {i \in 2..Len(feed[r]) :
        /\ \E j \in 1..(i - 1) : feed[r][j] = p
        /\ \E s \in Syncs : /\ sync[s].step = "fetching" /\ sync[s].repo = r
                           /\ i = sync[s].page * PerPage + 1}}

\* One that was closed without being merged is reopened, and is no longer
\* listed: those below it move up.
Reopen(r, p) ==
    /\ HubMove
    /\ version[r][p] = 0 /\ p \in Range(feed[r])
    /\ feed' = [feed EXCEPT ![r] = RemoveFirst(@, p)]
    /\ Touch(r, p)
    /\ slid' = [slid EXCEPT ![r] = @ \cup Slides(r, p)]
    /\ UNCHANGED <<version, private, orgPat, activity, confirmed, cut>>

Flip ==
    /\ HubMove
    /\ \E r \in Repos : private' = (private \ {r}) \cup ({r} \ private)
    /\ UNCHANGED <<feed, version, orgPat, repo, activity, sync, confirmed, cut, slid>>

\* The unauthenticated probe of a repository; a rate limit decides nothing.
Probe(r) == {"unprobed", IF r \in private THEN "private" ELSE "public"}
-----------------------------------------------------------------------------
(* Endpoints *)

PutToken ==
    /\ HubMove
    /\ orgPat' = ~orgPat
    /\ UNCHANGED <<hub, repo, activity, sync, confirmed, cut, slid>>

Create(r) ==
    /\ HubMove
    /\ ~Tracked(r)
    /\ \E seen \in Probe(r) :
          /\ repo' = [repo EXCEPT ![r] = [Untracked EXCEPT !.mode = "auto", !.seen = seen,
                         !.status = IF seen = "private" /\ ~orgPat THEN "paused" ELSE "ok"]]
          /\ confirmed' = IF seen = "private" THEN confirmed \cup {r} ELSE confirmed
    /\ UNCHANGED <<hub, orgPat, activity, sync, cut, slid>>

\* Another mode forgets what the probe said, and the token unless it is used;
\* a token sets the mode, and an empty one is deleted.
Patch(r) ==
    /\ HubMove
    /\ Tracked(r)
    /\ \/ \E mode \in Modes :
             repo' = [repo EXCEPT ![r].mode = mode, ![r].seen = "unprobed",
                                  ![r].status = "ok",
                                  ![r].pat = @ /\ mode = "override"]
       \/ repo' = [repo EXCEPT ![r].mode = "override", ![r].pat = TRUE, ![r].status = "ok"]
       \/ repo' = [repo EXCEPT ![r].pat = FALSE]
    /\ UNCHANGED <<hub, orgPat, activity, sync, confirmed, cut, slid>>

\* The rows of its pull requests stay.
DeleteRepo(r) ==
    /\ HubMove
    /\ Tracked(r)
    /\ repo' = [repo EXCEPT ![r] = Untracked]
    /\ UNCHANGED <<hub, orgPat, activity, sync, confirmed, cut, slid>>
-----------------------------------------------------------------------------
(* A run *)

\* What a run is for: all that is tracked, or the repository an admin names,
\* tracked or not.
Asked(s) == LET all == {r \in Repos : Tracked(r)} IN
            IF s = TimerSync THEN {all} ELSE {all} \cup {{r} : r \in Repos}

BeginSync(s) ==
    /\ sync[s].step = "idle"
    /\ IF s = TimerSync THEN UNCHANGED hubMoves ELSE HubMove
    /\ \E todo \in Asked(s) \ {{}} :
          sync' = [sync EXCEPT ![s] = [NoSync EXCEPT !.step = "next", !.todo = todo]]
    /\ UNCHANGED <<hub, orgPat, repo, activity, confirmed, cut, slid>>

\* Mutant of OrgFor: a repository no probe could classify gets the org token.
OrgUnlessPublic(seen) == IF seen # "public" /\ orgPat THEN {"org"} ELSE {}

OrgFor(seen) == IF seen = "private" /\ orgPat THEN {"org"} ELSE {}

\* _resolve_repo_token: no token for what is public, the repository's own where
\* the admin says so, the org's where a probe has found it private; else none
\* of them and the repository is paused.
Tokens(mode, pat, seen) ==
    CASE mode = "public"   -> {"none"}
      [] mode = "override" -> IF pat THEN {"override"} ELSE {}
      [] OTHER             -> IF seen = "public" THEN {"none"} ELSE OrgFor(seen)

\* A repository that is not tracked, or no longer, is resolved as auto.
Resolve(s) ==
    /\ sync[s].step = "next"
    /\ \E r \in sync[s].todo :
       LET mode == IF Tracked(r) THEN repo[r].mode ELSE "auto" IN
       \E seen \in IF mode = "auto" /\ repo[r].seen = "unprobed"
                   THEN Probe(r) ELSE {repo[r].seen} :
       LET tokens == Tokens(mode, repo[r].pat, seen)
           shown == IF mode = "public" THEN "public" ELSE seen
       IN
       /\ repo' = IF Tracked(r)
                  THEN [repo EXCEPT ![r].seen = shown,
                                    ![r].status = IF tokens = {} THEN "paused" ELSE @]
                  ELSE repo
       /\ confirmed' = IF mode = "auto" /\ repo[r].seen = "unprobed" /\ seen = "private"
                       THEN confirmed \cup {r} ELSE confirmed
       /\ IF tokens = {} THEN sync' = [sync EXCEPT ![s].todo = @ \ {r}]
          ELSE sync' = [sync EXCEPT ![s] =
                  [NoSync EXCEPT !.step = "fetching", !.repo = r, !.todo = sync[s].todo \ {r},
                                 !.token = CHOOSE t \in tokens : TRUE,
                                 !.horizon = repo[r].old]]
    /\ UNCHANGED <<hub, orgPat, activity, cut, slid, hubMoves>>

Next1(s) == [sync[s] EXCEPT !.step = "next", !.data = <<>>, !.page = 0, !.token = "none",
                            !.horizon = {}, !.fresh = {}]

\* What one request sees: nothing of a private repository without a token.
Page(r, n) == SubSeq(feed[r], (n - 1) * PerPage + 1,
                     IF n * PerPage < Len(feed[r]) THEN n * PerPage ELSE Len(feed[r]))

\* Mutant of More: one page and no further.
OnePage(r, n) == FALSE

\* Mutant of More: on while pages are full, without a limit.
WhileFull(r, n) == Len(Page(r, n)) = PerPage

\* The Link header names a next page, and the walk is not at its limit.
More(r, n) == n * PerPage < Len(feed[r]) /\ n < MaxPages

FetchPage(s) ==
    LET w == sync[s]
        n == w.page + 1
        page == Page(w.repo, n)
        crossed == page # <<>> /\ page[Len(page)] \in w.horizon
        items == [k \in 1..Len(page) |-> <<page[k], version[w.repo][page[k]]>>]
    IN
    /\ w.step = "fetching"
    /\ w.token # "none" \/ w.repo \notin private
    /\ sync' = [sync EXCEPT ![s].page = n, ![s].data = @ \o items,
                            ![s].step = IF crossed \/ ~More(w.repo, n) THEN "storing" ELSE @]
    /\ cut' = IF ~crossed /\ n = MaxPages /\ n * PerPage < Len(feed[w.repo])
              THEN cut \cup {w.repo} ELSE cut
    /\ UNCHANGED <<hub, orgPat, repo, activity, confirmed, slid, hubMoves>>

\* 404 without a token; a rate limit or a refused token at any time.
Refused(s) ==
    LET w == sync[s] IN
    /\ w.step = "fetching"
    /\ \/ /\ w.token = "none" /\ w.repo \in private
          /\ repo' = IF Tracked(w.repo) THEN [repo EXCEPT ![w.repo].status = "not_found"] ELSE repo
          /\ UNCHANGED hubMoves
       \/ /\ HubMove
          /\ \E status \in {"rate_limited", "auth_failed"} :
                repo' = IF Tracked(w.repo) THEN [repo EXCEPT ![w.repo].status = status] ELSE repo
    /\ sync' = [sync EXCEPT ![s] = Next1(s)]
    /\ UNCHANGED <<hub, orgPat, activity, confirmed, cut, slid>>

\* Where p stands, merged, in the data of a walk.
Merged(data, p) == {k \in 1..Len(data) : data[k][1] = p /\ data[k][2] > 0}

\* A pull request that slid to the next page between two requests comes twice;
\* where it is new it is inserted twice, and the transaction fails.
Collides(s) == \E p \in Pulls :
    /\ activity[sync[s].repo][p] = 0
    /\ \E j, k \in Merged(sync[s].data, p) : j # k

\* Mutant of Older: the horizon is the time of the sync, without the margin.
NoMargin(r) == {Range(feed[r])}

\* What can be older than a day before now: the lower end of the feed, and
\* nothing that was updated while a sync that still runs has been running.
Older(r) ==
    LET fresh == UNION {sync[s].fresh : s \in {q \in Syncs : sync[q].repo = r}} IN
    {old \in {Range(SubSeq(feed[r], k, Len(feed[r]))) : k \in 1..(Len(feed[r]) + 1)} :
        repo[r].old \subseteq old /\ old \cap fresh = {}}

\* The last of what the data has of p.
LastOf(data, p) == CHOOSE k \in Merged(data, p) : \A j \in Merged(data, p) : j <= k

\* What was not merged is passed over; a repository that is not tracked is now.
Store(s) ==
    LET w == sync[s]
        r == w.repo
    IN
    /\ w.step = "storing" /\ ~Collides(s)
    /\ activity' = [activity EXCEPT ![r] = [p \in Pulls |->
          IF Merged(w.data, p) = {} THEN @[p] ELSE w.data[LastOf(w.data, p)][2]]]
    /\ \E old \in Older(r) :
          repo' = [repo EXCEPT ![r] =
             IF Tracked(r) THEN [@ EXCEPT !.status = "ok", !.old = old]
             ELSE [Untracked EXCEPT !.mode = "auto", !.status = "ok", !.old = old]]
    /\ sync' = [sync EXCEPT ![s] = Next1(s)]
    /\ UNCHANGED <<hub, orgPat, confirmed, cut, slid, hubMoves>>

\* The collision, or any other exception: the next repository's turn.
Except(s) ==
    /\ sync[s].step \in {"fetching", "storing"}
    /\ IF sync[s].step = "storing" /\ Collides(s) THEN UNCHANGED hubMoves ELSE HubMove
    /\ sync' = [sync EXCEPT ![s] = Next1(s)]
    /\ UNCHANGED <<hub, orgPat, repo, activity, confirmed, cut, slid>>

EndSync(s) ==
    /\ sync[s].step = "next" /\ sync[s].todo = {}
    /\ sync' = [sync EXCEPT ![s] = NoSync]
    /\ UNCHANGED <<hub, orgPat, repo, activity, confirmed, cut, slid, hubMoves>>

HubInit ==
    /\ feed = [r \in Repos |-> <<>>] /\ version = [r \in Repos |-> [p \in Pulls |-> 0]]
    /\ private = {} /\ orgPat = TRUE
    /\ repo = [r \in Repos |-> [Untracked EXCEPT !.mode = "auto", !.status = "ok"]]
    /\ activity = [r \in Repos |-> [p \in Pulls |-> 0]]
    /\ sync = [s \in Syncs |-> NoSync]
    /\ confirmed = {} /\ cut = {} /\ slid = [r \in Repos |-> {}] /\ hubMoves = 0

SyncGoesOn(s) == Resolve(s) \/ FetchPage(s) \/ Refused(s) \/ Store(s) \/ Except(s) \/ EndSync(s)

HubNext ==
    \/ Flip \/ PutToken
    \/ \E r \in Repos, p \in Pulls : Update(r, p) \/ CloseUnmerged(r, p) \/ Reopen(r, p)
    \/ \E r \in Repos : Create(r) \/ Patch(r) \/ DeleteRepo(r)
    \/ \E s \in Syncs : BeginSync(s) \/ SyncGoesOn(s)

HubSpec == HubInit /\ [][HubNext]_hubVars

\* The job is scheduled every ten minutes, a run that it has started goes on,
\* and a probe it repeats for ever is answered some time.
HubFairness ==
    /\ WF_hubVars(BeginSync(TimerSync))
    /\ WF_hubVars(SyncGoesOn(TimerSync))
    /\ SF_hubVars(Resolve(TimerSync) /\ sync'[TimerSync].step = "fetching")

HubFairSpec == HubSpec /\ HubFairness
-----------------------------------------------------------------------------
(* Properties *)

\* github_sync.py:236-299: a pull request the next sync will not look at any
\* more is in the table at its last version, whatever was updated, closed or
\* reopened between two pages, whichever runs overlapped or failed: an early
\* stop hides nothing.  A walk that ends at MaxPages does, and says so in the
\* log; so does one from under which a pull request has slid.
NothingSkipped ==
    \A r \in Repos \ cut : \A p \in repo[r].old \ slid[r] : activity[r][p] = version[r][p]

\* github_sync.py:292-296: the walk stops at "a PR whose updated_at is older than
\* horizon -- everything beyond is already synced"; NothingSkipped, whatever has
\* slid.
BeyondIsSynced ==
    \A r \in Repos \ cut : \A p \in repo[r].old : activity[r][p] = version[r][p]

\* github_sync.py:19-22: "A repo is NEVER handed the org default until a probe
\* confirms it is private".
OrgTokenIsKept == \A s \in Syncs : sync[s].token = "org" => sync[s].repo \in confirmed

\* What the resolver can use for a repository as GitHub has it now.  What a
\* probe has once found is not asked about again.
Reachable(r) ==
    CASE repo[r].mode = "override"    -> repo[r].pat
      [] repo[r].mode = "public"      -> r \notin private
      [] repo[r].seen = "public"      -> r \notin private
      [] repo[r].seen = "private"     -> orgPat
      [] OTHER                        -> r \notin private \/ orgPat

\* github_sync.py: when GitHub has come to rest, a tracked repository that can
\* be read has all its merged pull requests in the table at their last version,
\* if no walk has met MaxPages there, but for those that have slid past one.
MirrorCatchesUp ==
    \A r \in Repos : <>[](Tracked(r) /\ Reachable(r) /\ r \notin cut =>
                              \A p \in Pulls \ slid[r] : activity[r][p] = version[r][p])
=============================================================================
