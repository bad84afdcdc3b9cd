------------------------------ MODULE JiraSync ------------------------------
(***************************************************************************)
(* Jira issues: the job that fetches them (worker/jobs/jira_sync.py), the  *)
(* endpoints that configure sites (api/routes/integrations_jira.py) and    *)
(* the flag that turns the feature on (db/jira_feature.py).                *)
(*                                                                         *)
(* A tick looks at one site after the other, in whatever order the table   *)
(* came, with the tokens and the dates it read at its beginning, and asks  *)
(* each for the first HARD_CAP of the keys that are missing or older than  *)
(* an hour, a page at a time.  One run at a time.                          *)
(***************************************************************************)
EXTENDS Naturals, FiniteSets

CONSTANTS
    Sites,
    Synth,          \* those jira_synth_seed has added
    Keys,           \* issue keys, which sort as numbers do
    Home,           \* the site that has an issue, or "nowhere"
    PageSize, HardCap,
    MaxJira         \* bound on edits, faults and new references

JiraAssumption ==
    /\ Sites # {} /\ Keys \subseteq Nat /\ Home \in [Keys -> Sites \cup {"nowhere"}]
    /\ PageSize \in Nat \ {0} /\ HardCap \in Nat \ {0} /\ MaxJira \in Nat

VARIABLES
    jiraOn,     \* admin_config.jira_enabled
    site,       \* jira_sites
    valid,      \* Jira: sites that accept the token stored
    hold,       \* Jira: sites whose Retry-After has not passed
    refs,       \* pr_jira_refs: the keys in it
    issue,      \* jira_issues: by its last sync, within the hour or older
    job,        \* the tick
    jiraMoves

jiraVars == <<jiraOn, site, valid, hold, refs, issue, job, jiraMoves>>
jira == <<valid, hold>>

NoSite == [there |-> FALSE, token |-> FALSE, status |-> "ok", probed |-> FALSE]
NoJob == [step |-> "idle", todo |-> {}, at |-> CHOOSE s \in Sites : TRUE,
          tokens |-> {}, probed |-> {}, keys |-> {}]

JiraTypeOK ==
    /\ jiraOn \in BOOLEAN
    /\ site \in [Sites -> [there : BOOLEAN, token : BOOLEAN, probed : BOOLEAN,
                             status : {"ok", "paused", "auth_failed"}]]
    /\ valid \subseteq Sites /\ hold \subseteq Sites
    /\ refs \subseteq Keys
    /\ issue \in [Keys -> {"none", "stale", "fresh"}]
    /\ job.step \in {"idle", "site", "fetching"}
    /\ job.todo \subseteq Sites /\ job.at \in Sites /\ job.keys \subseteq Keys
    /\ job.tokens \subseteq Sites /\ job.probed \subseteq Sites
    /\ jiraMoves \in 0..MaxJira

JiraMove == jiraMoves < MaxJira /\ jiraMoves' = jiraMoves + 1
-----------------------------------------------------------------------------
(* The world and the endpoints *)

SetFlag ==
    /\ JiraMove
    /\ jiraOn' = ~jiraOn
    /\ UNCHANGED <<site, jira, refs, issue, job>>

\* GithubSync finds keys of allowed projects in a page of pull requests.
Refer ==
    /\ JiraMove
    /\ \E page \in SUBSET (Keys \ refs) : page # {} /\ refs' = refs \cup page
    /\ UNCHANGED <<jiraOn, site, jira, issue, job>>

\* A site is written only with a token it has just accepted.
CreateSite ==
    /\ JiraMove
    /\ \E s \in Sites \ Synth :
          /\ ~site[s].there
          /\ site' = [site EXCEPT ![s] = [NoSite EXCEPT !.there = TRUE, !.token = TRUE]]
          /\ valid' = valid \cup {s}
    /\ UNCHANGED <<jiraOn, hold, refs, issue, job>>

\* A new token leaves the status to the next tick.
UpdateSite ==
    /\ JiraMove
    /\ \E s \in Sites \ Synth :
          /\ site[s].there
          /\ site' = [site EXCEPT ![s].token = TRUE]
          /\ valid' = valid \cup {s}
    /\ UNCHANGED <<jiraOn, hold, refs, issue, job>>

DeleteSite ==
    /\ JiraMove
    /\ \E s \in Sites : site[s].there /\ site' = [site EXCEPT ![s] = NoSite]
    /\ UNCHANGED <<jiraOn, jira, refs, issue, job>>

\* A token expires in Jira, or its secret cannot be read.
Revoke ==
    /\ JiraMove
    /\ \E s \in Sites :
          \/ valid' = valid \ {s} /\ UNCHANGED site
          \/ site' = [site EXCEPT ![s].token = FALSE] /\ UNCHANGED valid
    /\ UNCHANGED <<jiraOn, hold, refs, issue, job>>

\* An hour goes by for the issues, 23 of them for the probes.
Age ==
    /\ job = NoJob
    /\ \/ \E k \in Keys : issue[k] = "fresh" /\ issue' = [issue EXCEPT ![k] = "stale"]
          /\ UNCHANGED site
       \/ \E s \in Sites : site[s].probed /\ site' = [site EXCEPT ![s].probed = FALSE]
          /\ UNCHANGED issue
    /\ UNCHANGED <<jiraOn, jira, refs, job, jiraMoves>>

HoldOver ==
    /\ \E s \in hold : hold' = hold \ {s}
    /\ UNCHANGED <<jiraOn, site, valid, refs, issue, job, jiraMoves>>
-----------------------------------------------------------------------------
(* The tick *)

\* The feature's flag, and the sites as they are now; without a site or
\* without the flag the tick is over.
BeginTick ==
    /\ job = NoJob
    /\ jiraOn /\ \E s \in Sites : site[s].there
    /\ job' = [NoJob EXCEPT !.step = "site",
                  !.todo = {s \in Sites : site[s].there},
                  !.tokens = {s \in Sites : site[s].token},
                  !.probed = {s \in Sites : site[s].probed}]
    /\ UNCHANGED <<jiraOn, site, jira, refs, issue, jiraMoves>>

\* Mutant of Wanted: issues without a row only.
Missing == {k \in refs : issue[k] = "none"}

Wanted == {k \in refs : issue[k] # "fresh"}

\* The first n of a sorted list of keys.
FirstOf(n, keys) == {k \in keys : Cardinality({j \in keys : j < k}) < n}

KeysToFetch == FirstOf(HardCap, Wanted)

\* The sites after s.
Rest(s) == job.todo \ {s}

Passed(s) == job' = IF Rest(s) = {} THEN NoJob
                    ELSE [NoJob EXCEPT !.step = "site", !.todo = Rest(s),
                                       !.tokens = job.tokens, !.probed = job.probed]

\* The turn of s is over, with its new status; a site deleted meanwhile gets none.
Done(s, status) ==
    /\ Passed(s)
    /\ site' = IF site[s].there
               THEN [site EXCEPT ![s].status = status, ![s].probed = TRUE] ELSE site

SkipSynth ==
    /\ job.step = "site"
    /\ \E s \in job.todo \cap Synth : Passed(s)
    /\ UNCHANGED <<jiraOn, site, jira, refs, issue, jiraMoves>>

\* No token, a token the daily probe finds refused, nothing to fetch, or a
\* list of keys.
Turn ==
    /\ job.step = "site"
    /\ \E s \in job.todo \ Synth :
          IF s \notin job.tokens \/ s \notin job.probed \cup valid
          THEN Done(s, "auth_failed")
          ELSE IF KeysToFetch = {} THEN Done(s, "ok")
          ELSE /\ job' = [job EXCEPT !.step = "fetching", !.at = s, !.keys = KeysToFetch]
               /\ UNCHANGED site
    /\ UNCHANGED <<jiraOn, jira, refs, issue, jiraMoves>>

\* One page: what this site has of it is written, each issue at once fresh.
Search ==
    LET s == job.at
        page == FirstOf(PageSize, job.keys)
        left == job.keys \ page
    IN
    /\ job.step = "fetching"
    /\ s \in valid
    /\ issue' = [k \in Keys |-> IF k \in page /\ Home[k] = s THEN "fresh" ELSE issue[k]]
    /\ IF left = {} THEN Done(s, "ok")
       ELSE job' = [job EXCEPT !.keys = left] /\ UNCHANGED site
    /\ UNCHANGED <<jiraOn, jira, refs, jiraMoves>>

SearchRefused ==
    /\ job.step = "fetching" /\ job.at \notin valid
    /\ Done(job.at, "auth_failed")
    /\ UNCHANGED <<jiraOn, jira, refs, issue, jiraMoves>>

\* 429: the pages before it are kept, the site is paused until a Retry-After.
RateLimited ==
    /\ JiraMove
    /\ job.step = "fetching"
    /\ Done(job.at, "paused")
    /\ hold' = hold \cup {job.at}
    /\ UNCHANGED <<jiraOn, valid, refs, issue>>

\* Any other answer, or a worker that dies: the sites after it have no turn.
Abort ==
    /\ JiraMove
    /\ job # NoJob /\ job' = NoJob
    /\ UNCHANGED <<jiraOn, site, jira, refs, issue>>

JiraInit ==
    /\ jiraOn = FALSE
    /\ site = [s \in Sites |-> [NoSite EXCEPT !.there = TRUE, !.token = s \notin Synth]]
    /\ valid = Sites \ Synth /\ hold = {} /\ refs = {}
    /\ issue = [k \in Keys |-> "none"] /\ job = NoJob /\ jiraMoves = 0

TickGoesOn == SkipSynth \/ Turn \/ Search \/ SearchRefused

JiraNext ==
    \/ SetFlag \/ Refer \/ CreateSite \/ UpdateSite \/ DeleteSite \/ Revoke
    \/ Age \/ HoldOver \/ BeginTick \/ TickGoesOn \/ RateLimited \/ Abort

JiraSpec == JiraInit /\ [][JiraNext]_jiraVars

\* Every quarter of an hour there is a tick, and a tick goes on.
JiraFairness == WF_jiraVars(BeginTick) /\ WF_jiraVars(TickGoesOn)
JiraFairSpec == JiraSpec /\ JiraFairness
-----------------------------------------------------------------------------
(* Properties *)

\* The feature is on, a pull request refers to k, and its site can be asked.
Due(k) == /\ jiraOn /\ k \in refs /\ Home[k] \in valid \ Synth
            /\ site[Home[k]].there /\ site[Home[k]].token

\* The keys that are fetched before k, or would be.
Before(k) == {j \in refs : j < k /\ issue[j] # "fresh"}

\* jira_sync.py:179-198, 218-236, 287-420: when the sites have come to rest,
\* every issue a pull request refers to and a site with a good token has is
\* fetched again and again, whatever other sites do not have it, refuse their
\* token or were rate limited before, as long as fewer than HARD_CAP keys that
\* are not in step come before it: nothing of the list of one site is lost on
\* another.
IssuesArrive ==
    \A k \in Keys :
        (<>[](Due(k) /\ Cardinality(Before(k)) < HardCap)) => []<>(issue[k] = "fresh")

\* jira_sync.py:8-9: "rows that never synced are always pulled".
AlwaysPulled == \A k \in Keys : (<>[]Due(k)) => <>(issue[k] # "none")

\* jira_sync.py:21: "paused -- server returned 429; next tick respects
\* Retry-After".
RetryAfterRespected ==
    [][ \A s \in hold : ~(job.step = "fetching" /\ job.at = s /\ issue' # issue) ]_jiraVars
=============================================================================
