---------------------------- MODULE ReportsProofs ----------------------------
(***************************************************************************)
(* GithubSync, JiraSync and PrMetrics for any repositories, sites, pull    *)
(* requests and runs, and the four parts of Reports side by side.          *)
(***************************************************************************)
EXTENDS MCReports, SpendAlertsProofs, Sums, SequenceTheorems

-----------------------------------------------------------------------------
(* Sequences as GitHub's feed uses them *)

Distinct(seq) == \A i, j \in DOMAIN seq : seq[i] = seq[j] => i = j

\* What follows a member of S in the sequence is one too.
Closed(seq, S) == \A i, j \in DOMAIN seq : i < j /\ seq[i] \in S => seq[j] \in S

\* A set of numbers has a least one.
LEMMA MinIsLeast ==
    ASSUME NEW S \in SUBSET Nat, S # {}
    PROVE  Min(S) \in S /\ \A x \in S : Min(S) <= x
<1>1. PICK n \in S : \A m \in S : ~ (<<m, n>> \in OpToRel(<, Nat))
  BY NatLessThanWellFounded, WFMin
<1>2. ASSUME NEW m \in S PROVE n <= m
  <2>1. <<m, n>> \notin {ss \in Nat \X Nat : ss[1] < ss[2]}
    BY <1>1 DEF OpToRel
  <2>2. m \in Nat /\ n \in Nat
    OBVIOUS
  <2>3. QED
    BY <2>1, <2>2
<1>3. QED
  BY <1>2 DEF Min

\* The first occurrence is taken out: what was before it stays where it was,
\* what was behind it moves up.
LEMMA TakenOut ==
    ASSUME NEW S, NEW seq \in Seq(S), NEW p
    PROVE  /\ RemoveFirst(seq, p) \in Seq(S)
           /\ \/ RemoveFirst(seq, p) = seq /\ \A i \in DOMAIN seq : seq[i] # p
              \/ \E k \in DOMAIN seq :
                    /\ seq[k] = p
                    /\ Len(RemoveFirst(seq, p)) = Len(seq) - 1
                    /\ \A i \in 1..(Len(seq) - 1) :
                          RemoveFirst(seq, p)[i] = IF i < k THEN seq[i] ELSE seq[i + 1]
<1>1. Len(seq) \in Nat /\ DOMAIN seq = 1..Len(seq) /\ \A i \in 1..Len(seq) : seq[i] \in S
  BY LenProperties
<1>2. CASE ~ \E i \in 1..Len(seq) : seq[i] = p
  BY <1>1, <1>2 DEF RemoveFirst
<1>3. CASE \E i \in 1..Len(seq) : seq[i] = p
  <2> DEFINE I == {i \in 1..Len(seq) : seq[i] = p}
             k == Min(I)
  <2>1. k \in I
    <3>1. I \in SUBSET Nat /\ I # {}
      BY <1>1, <1>3
    <3> HIDE DEF I
    <3>2. QED
      BY <3>1, MinIsLeast
  <2>2. RemoveFirst(seq, p) = RemoveAt(seq, k)
    BY <1>3 DEF RemoveFirst, SelectInSeq
  <2> HIDE DEF k
  <2> DEFINE a == SubSeq(seq, 1, k - 1)
             b == SubSeq(seq, k + 1, Len(seq))
  <2>3. k \in 1..Len(seq) /\ seq[k] = p
    BY <2>1
  <2>4. /\ a \in Seq(S) /\ Len(a) = k - 1
        /\ \A i \in 1..(k - 1) : a[i] = seq[i]
    <3>1. \A i \in 1..(k - 1) : seq[i] \in S
      BY <1>1, <2>3
    <3>2. k - 1 \in Int /\ 1 \in Int
      BY <2>3
    <3>3. QED
      BY <1>1, <2>3, <3>1, <3>2, SubSeqProperties, Z3
  <2>5. /\ b \in Seq(S) /\ Len(b) = Len(seq) - k
        /\ \A i \in 1..(Len(seq) - k) : b[i] = seq[k + i]
    <3>1. \A i \in (k + 1)..Len(seq) : seq[i] \in S
      BY <1>1, <2>3
    <3>2. k + 1 \in Int /\ Len(seq) \in Int
      BY <1>1, <2>3
    <3>3. /\ b \in Seq(S)
          /\ Len(b) = IF k + 1 <= Len(seq) THEN Len(seq) - (k + 1) + 1 ELSE 0
          /\ \A i \in 1..(Len(seq) - (k + 1) + 1) : b[i] = seq[k + 1 + i - 1]
      BY <3>1, <3>2, SubSeqProperties
    <3> HIDE DEF b
    <3>4. \A i \in 1..(Len(seq) - k) : k + 1 + i - 1 = k + i
      BY <1>1, <2>3
    <3>5. Len(seq) - (k + 1) + 1 = Len(seq) - k
      BY <1>1, <2>3
    <3>6. Len(b) = Len(seq) - k
      <4>1. CASE k + 1 <= Len(seq)
        BY <3>3, <3>5, <4>1
      <4>2. CASE ~(k + 1 <= Len(seq))
        <5> DEFINE n == Len(seq)
        <5>1. n \in Nat /\ k \in 1..n /\ ~(k + 1 <= n)
          BY <1>1, <2>3, <4>2
        <5> HIDE DEF n
        <5>2. k = n
          BY ONLY <5>1
        <5>3. QED
          BY <1>1, <3>3, <4>2, <5>2 DEF n
      <4>3. QED
        BY <4>1, <4>2
    <3>7. QED
      BY <3>3, <3>4, <3>5, <3>6
  <2> HIDE DEF a, b
  <2>6. RemoveFirst(seq, p) = a \o b
    BY <2>2 DEF RemoveAt, a, b
  <2>7. /\ a \o b \in Seq(S) /\ Len(a \o b) = Len(a) + Len(b)
        /\ \A i \in 1..(Len(a) + Len(b)) :
              (a \o b)[i] = IF i <= Len(a) THEN a[i] ELSE b[i - Len(a)]
    BY <2>4, <2>5, ConcatProperties
  <2> DEFINE c == a \o b
  <2>8. c \in Seq(S) /\ Len(c) = Len(seq) - 1
    BY <1>1, <2>3, <2>4, <2>5, <2>7
  <2>9. ASSUME NEW i \in 1..(Len(seq) - 1)
        PROVE  c[i] = IF i < k THEN seq[i] ELSE seq[i + 1]
    <3>1. c[i] = IF i <= Len(a) THEN a[i] ELSE b[i - Len(a)]
      BY <1>1, <2>3, <2>4, <2>5, <2>7
    <3> HIDE DEF c
    <3>2. CASE i < k
      BY <1>1, <2>3, <2>4, <3>1, <3>2
    <3>3. CASE ~(i < k)
      <4>1. c[i] = b[i - (k - 1)] /\ i - (k - 1) \in 1..(Len(seq) - k)
        BY <1>1, <2>3, <2>4, <3>1, <3>3
      <4>2. k + (i - (k - 1)) = i + 1
        BY <1>1, <2>3
      <4>3. QED
        BY <2>5, <3>3, <4>1, <4>2
    <3>4. QED
      BY <3>2, <3>3
  <2> HIDE DEF c
  <2>10. QED
    BY <1>1, <2>3, <2>6, <2>8, <2>9 DEF c
<1>4. QED
  BY <1>2, <1>3


\* A sequence with p in front, and nowhere else.
Newest(seq, p) == <<p>> \o RemoveFirst(seq, p)

\* Where the i-th member was, if p was at k.
Place(k, i) == IF i <= k THEN i - 1 ELSE i

\* Its places: p, and behind it what was there, at most one place further down.
LEMMA NewestPlaces ==
    ASSUME NEW S, NEW seq \in Seq(S), Distinct(seq), NEW p \in S
    PROVE  /\ Newest(seq, p) \in Seq(S)
           /\ Len(Newest(seq, p)) \in Nat \ {0} /\ Newest(seq, p)[1] = p
           /\ \E k \in Nat :
                 \A i \in 2..Len(Newest(seq, p)) :
                    /\ Place(k, i) \in DOMAIN seq
                    /\ Newest(seq, p)[i] = seq[Place(k, i)] /\ seq[Place(k, i)] # p
<1> DEFINE r == RemoveFirst(seq, p)
           n == Newest(seq, p)
<1>1. Len(seq) \in Nat /\ DOMAIN seq = 1..Len(seq)
  BY LenProperties
<1>2. /\ r \in Seq(S)
      /\ \/ r = seq /\ \A i \in DOMAIN seq : seq[i] # p
         \/ \E k \in DOMAIN seq :
               /\ seq[k] = p /\ Len(r) = Len(seq) - 1
               /\ \A i \in 1..(Len(seq) - 1) : r[i] = IF i < k THEN seq[i] ELSE seq[i + 1]
  BY TakenOut
<1>3. <<p>> \in Seq(S) /\ Len(<<p>>) = 1 /\ <<p>>[1] = p
  OBVIOUS
<1> HIDE DEF r
<1>4. Len(r) \in Nat
  BY <1>2, LenProperties
<1>5. /\ n \in Seq(S) /\ Len(n) = 1 + Len(r)
      /\ \A i \in 1..(1 + Len(r)) : n[i] = IF i <= 1 THEN <<p>>[i] ELSE r[i - 1]
  BY <1>2, <1>3, ConcatProperties DEF Newest, r
<1>6. n[1] = p /\ Len(n) \in Nat \ {0}
  BY <1>3, <1>4, <1>5
<1> HIDE DEF n
<1>7. CASE r = seq /\ \A i \in DOMAIN seq : seq[i] # p
  <2> DEFINE k == Len(seq) + 1
  <2>1. ASSUME NEW i \in 2..Len(n)
        PROVE  i <= k /\ i - 1 \in DOMAIN seq /\ n[i] = seq[i - 1] /\ seq[i - 1] # p
    <3>1. i \in 2..(1 + Len(seq))
      BY <1>5, <1>7
    <3>2. i - 1 \in DOMAIN seq /\ i <= k /\ ~(i <= 1)
      BY <1>1, <3>1
    <3>3. n[i] = r[i - 1]
      BY <1>1, <1>5, <1>7, <3>1, <3>2
    <3>4. QED
      BY <1>7, <3>2, <3>3
  <2>2. k \in Nat
    BY <1>1
  <2> HIDE DEF k
  <2>3. QED
    BY <1>5, <1>6, <2>1, <2>2 DEF n, Place
<1>8. CASE \E k \in DOMAIN seq :
               /\ seq[k] = p /\ Len(r) = Len(seq) - 1
               /\ \A i \in 1..(Len(seq) - 1) : r[i] = IF i < k THEN seq[i] ELSE seq[i + 1]
  <2>1. PICK k \in DOMAIN seq :
               /\ seq[k] = p /\ Len(r) = Len(seq) - 1
               /\ \A i \in 1..(Len(seq) - 1) : r[i] = IF i < k THEN seq[i] ELSE seq[i + 1]
    BY <1>8
  <2>2. ASSUME NEW i \in 2..Len(n)
        PROVE  Place(k, i) \in DOMAIN seq /\ n[i] = seq[Place(k, i)] /\ seq[Place(k, i)] # p
    <3>1. i \in 2..Len(seq)
      BY <1>1, <1>5, <2>1
    <3>2. i - 1 \in 1..(Len(seq) - 1) /\ i \in 1..(1 + Len(r)) /\ ~(i <= 1)
      BY <1>1, <2>1, <3>1
    <3>3. n[i] = r[i - 1]
      BY <1>5, <3>2
    <3>4. r[i - 1] = IF i - 1 < k THEN seq[i - 1] ELSE seq[i - 1 + 1]
      BY <2>1, <3>2
    <3>5. i - 1 + 1 = i /\ k \in 1..Len(seq) /\ (i - 1 < k <=> i <= k)
      BY <1>1, <3>1
    <3>6. n[i] = seq[Place(k, i)]
      BY <3>3, <3>4, <3>5 DEF Place
    <3>7. Place(k, i) \in DOMAIN seq /\ Place(k, i) # k
      BY <1>1, <3>1, <3>5 DEF Place
    <3>8. QED
      BY <2>1, <3>6, <3>7 DEF Distinct
  <2>3. k \in Nat
    BY <1>1
  <2>4. QED
    BY <1>5, <1>6, <2>2, <2>3 DEF n
<1>9. QED
  BY <1>2, <1>7, <1>8

\* What a repository keeps when a pull request is updated.
LEMMA NewestKeeps ==
    ASSUME NEW S, NEW seq \in Seq(S), Distinct(seq), NEW p \in S
    PROVE  /\ Newest(seq, p) \in Seq(S) /\ Distinct(Newest(seq, p))
           /\ \A H : Closed(seq, H) => Closed(Newest(seq, p), H \ {p})
           /\ \A i \in DOMAIN Newest(seq, p) :
                 \/ Newest(seq, p)[i] = p
                 \/ \E a \in DOMAIN seq : a <= i /\ seq[a] = Newest(seq, p)[i]
<1> DEFINE n == Newest(seq, p)
<1>1. PICK k \in Nat : \A i \in 2..Len(n) :
          Place(k, i) \in DOMAIN seq /\ n[i] = seq[Place(k, i)] /\ seq[Place(k, i)] # p
  BY NewestPlaces
<1>2. n \in Seq(S) /\ Len(n) \in Nat \ {0} /\ n[1] = p
  BY NewestPlaces
<1> HIDE DEF n
<1>3. Len(seq) \in Nat /\ DOMAIN seq = 1..Len(seq) /\ DOMAIN n = 1..Len(n)
  BY <1>2, LenProperties
<1>4. \A i \in DOMAIN n : i = 1 \/ i \in 2..Len(n)
  BY <1>2, <1>3
<1>5. \A i, j \in 2..Len(n) : i < j => Place(k, i) < Place(k, j)
  BY <1>2 DEF Place
<1>6. \A i, j \in 2..Len(n) : Place(k, i) = Place(k, j) => i = j
  BY <1>2, <1>5 DEF Place
<1>7. Distinct(n)
  <2> SUFFICES ASSUME NEW i \in DOMAIN n, NEW j \in DOMAIN n, n[i] = n[j] PROVE i = j
    BY DEF Distinct
  <2>1. (i = 1 /\ j = 1) \/ (i \in 2..Len(n) /\ j \in 2..Len(n))
    BY <1>1, <1>2, <1>4
  <2>2. CASE i \in 2..Len(n) /\ j \in 2..Len(n)
    <3>1. Place(k, i) = Place(k, j)
      BY <1>1, <2>2 DEF Distinct
    <3>2. QED
      BY <1>6, <2>2, <3>1
  <2>3. QED
    BY <2>1, <2>2
<1>8. ASSUME NEW H, Closed(seq, H) PROVE Closed(n, H \ {p})
  <2> SUFFICES ASSUME NEW i \in DOMAIN n, NEW j \in DOMAIN n, i < j, n[i] \in H \ {p}
               PROVE  n[j] \in H \ {p}
    BY DEF Closed
  <2>1. i \in 2..Len(n) /\ j \in 2..Len(n)
    BY <1>2, <1>3, <1>4
  <2>2. Place(k, i) < Place(k, j)
    BY <1>5, <2>1
  <2>3. /\ Place(k, i) \in DOMAIN seq /\ Place(k, j) \in DOMAIN seq
        /\ seq[Place(k, i)] \in H /\ n[j] = seq[Place(k, j)] /\ n[j] # p
    BY <1>1, <2>1
  <2>4. QED
    BY <1>8, <2>2, <2>3 DEF Closed
<1>9. ASSUME NEW i \in DOMAIN n
      PROVE  n[i] = p \/ \E a \in DOMAIN seq : a <= i /\ seq[a] = n[i]
  <2>1. CASE i = 1
    BY <1>2, <2>1
  <2>2. CASE i \in 2..Len(n)
    <3>1. Place(k, i) <= i
      BY <2>2 DEF Place
    <3>2. QED
      BY <1>1, <2>2, <3>1
  <2>3. QED
    BY <1>4, <2>1, <2>2
<1>10. QED
  BY <1>2, <1>7, <1>8, <1>9 DEF n

\* The data of a walk has the pull request p, merged or not.
Has(data, p) == \E k \in 1..Len(data) : data[k][1] = p

\* The last place where one stands merged, as Store picks it.
LEMMA LastOfExists ==
    ASSUME NEW S, NEW data \in Seq(S), NEW p, Merged(data, p) # {}
    PROVE  LastOf(data, p) \in Merged(data, p)
<1> DEFINE M == Merged(data, p)
           Left == {m \in Nat : \E k \in M : m = Len(data) - k}
<1>1. Len(data) \in Nat /\ M \subseteq 1..Len(data)
  BY LenProperties DEF Merged
<1> HIDE DEF M
<1>2. Left \in SUBSET Nat /\ Left # {}
  <2>1. PICK k \in M : TRUE
    BY DEF M
  <2>2. Len(data) - k \in Nat
    BY <1>1
  <2>3. QED
    BY <2>1, <2>2
<1> DEFINE m == Min(Left)
<1>3. m \in Left /\ \A x \in Left : m <= x
  <2> HIDE DEF Left
  <2>1. QED
    BY <1>2, MinIsLeast
<1> HIDE DEF m
<1>4. PICK k \in M : m = Len(data) - k
  BY <1>3
<1>5. ASSUME NEW j \in M PROVE j <= k
  <2>1. j \in Nat /\ k \in Nat /\ Len(data) - j \in Nat
    BY <1>1, <1>4
  <2>2. m <= Len(data) - j
    BY <1>3, <2>1
  <2>3. QED
    BY <1>1, <1>4, <2>1, <2>2
<1>6. \E l \in M : \A j \in M : j <= l
  BY <1>4, <1>5
<1>7. QED
  BY <1>6 DEF LastOf, M


-----------------------------------------------------------------------------
(* GithubSync.  What stands below the horizon of a repository, or of a walk *)
(* in it, is stored at its last version; what a walk has seen is stored or  *)
(* was changed since, and then it is below nobody's horizon.  What slid past *)
(* a walk is excepted.                                                      *)

RepoRecords ==
    [mode : Modes \cup {"none"}, seen : Visibility, pat : BOOLEAN,
     status : {"none", "ok", "paused", "rate_limited", "auth_failed", "not_found"},
     old : SUBSET Pulls]

Walks ==
    [step : {"idle", "next", "fetching", "storing"}, todo : SUBSET Repos, repo : Repos,
     token : {"none", "org", "override"}, page : 0..MaxPages, data : Seq(Pulls \X Nat),
     horizon : SUBSET Pulls, fresh : SUBSET Pulls]

HubTypes ==
    /\ feed \in [Repos -> Seq(Pulls)] /\ version \in [Repos -> [Pulls -> Nat]]
    /\ private \subseteq Repos /\ orgPat \in BOOLEAN
    /\ repo \in [Repos -> RepoRecords] /\ activity \in [Repos -> [Pulls -> Nat]]
    /\ sync \in [Syncs -> Walks]
    /\ confirmed \subseteq Repos /\ cut \subseteq Repos
    /\ slid \in [Repos -> SUBSET Pulls]
    /\ hubMoves \in 0..MaxHub

\* Between two repositories a run remembers nothing.
Clear(w) == /\ w.step \in {"idle", "next"} /\ w.token = "none" /\ w.page = 0
            /\ w.data = <<>> /\ w.horizon = {} /\ w.fresh = {}

\* Every pull request of S is in the table at its last version.
Stored(r, S) == \A p \in S : activity[r][p] = version[r][p]

RepoHolds(r) ==
    /\ Distinct(feed[r]) /\ Closed(feed[r], repo[r].old)
    /\ ~Tracked(r) => repo[r] = Untracked
    /\ r \in cut \/ Stored(r, repo[r].old \ slid[r])
    /\ \A p \in Pulls : activity[r][p] <= version[r][p]
    /\ repo[r].seen = "private" => r \in confirmed

\* What a walk has of the pull request p.
WasSeen(w, p) == p \in w.fresh \/ Has(w.data, p)

WalkHolds(w) ==
    /\ w.step \notin {"fetching", "storing"} => Clear(w)
    /\ w.step = "fetching" => w.page < MaxPages
    /\ Closed(feed[w.repo], w.horizon)
    /\ \A k \in 1..Len(w.data) :
          /\ w.data[k][1] \in w.fresh \/ w.data[k][2] = version[w.repo][w.data[k][1]]
          /\ w.data[k][2] <= version[w.repo][w.data[k][1]]
    /\ w.step = "fetching" =>
          \A i \in DOMAIN feed[w.repo] :
              i <= w.page * PerPage => WasSeen(w, feed[w.repo][i]) \/ feed[w.repo][i] \in slid[w.repo]
    /\ w.repo \in cut \/ Stored(w.repo, w.horizon \ slid[w.repo])
    /\ w.repo \in cut \/ w.step # "storing"
          \/ \A i \in DOMAIN feed[w.repo] :
                WasSeen(w, feed[w.repo][i]) \/ feed[w.repo][i] \in w.horizon \cup slid[w.repo]
    /\ w.token = "org" => w.repo \in confirmed

Apart ==
    \A s \in Syncs :
        /\ repo[sync[s].repo].old \cap sync[s].fresh = {}
        /\ \A q \in Syncs : sync[q].repo = sync[s].repo => sync[q].horizon \cap sync[s].fresh = {}

HubInv ==
    /\ HubTypes
    /\ \A r \in Repos : RepoHolds(r)
    /\ \A s \in Syncs : WalkHolds(sync[s])
    /\ Apart

LEMMA NoSyncType == ASSUME HubAssumption PROVE NoSync \in Walks /\ Clear(NoSync)
<1>1. (CHOOSE r \in Repos : TRUE) \in Repos
  BY DEF HubAssumption
<1>2. <<>> \in Seq(Pulls \X Nat) /\ 0 \in 0..MaxPages
  BY DEF HubAssumption
<1>3. QED
  BY <1>1, <1>2 DEF NoSync, Walks, Clear

LEMMA HubMoveType == ASSUME HubAssumption, HubTypes, HubMove PROVE hubMoves' \in 0..MaxHub
BY DEF HubAssumption, HubTypes, HubMove

\* A walk that remembers nothing claims nothing.
LEMMA ClearHolds == ASSUME NEW s, Clear(sync'[s]) PROVE WalkHolds(sync[s])'
<1>1. Len(<<>>) = 0
  OBVIOUS
<1>2. \A k \in 1..Len(sync'[s].data) : FALSE
  BY <1>1 DEF Clear
<1>3. QED
  BY <1>2 DEF Clear, WalkHolds, Closed, Stored

\* The horizon of a walk is its own still, or that of its repository, and
\* what it knows to be fresh is forgotten at most.
Follows(v, w) ==
    /\ w.fresh = {} \/ (w.repo = v.repo /\ w.fresh = v.fresh)
    /\ \/ w.horizon \in {{}, repo[w.repo].old}
       \/ w.repo = v.repo /\ w.horizon = v.horizon

\* A step that stores nothing and updates nothing.
LEMMA StepHolds ==
    ASSUME HubInv, HubTypes', UNCHANGED <<feed, version, activity, slid>>,
           cut \subseteq cut', confirmed \subseteq confirmed',
           \A r \in Repos : /\ repo'[r].old \in {repo[r].old, {}}
                            /\ repo'[r].mode = "none" => repo'[r] = Untracked
                            /\ repo'[r].seen = "private" => r \in confirmed',
           \A q \in Syncs : \/ sync'[q] = sync[q]
                            \/ WalkHolds(sync[q])' /\ Follows(sync[q], sync'[q])
    PROVE  HubInv'
<1> USE DEF HubInv
<1>1. ASSUME NEW r \in Repos PROVE RepoHolds(r)'
  BY <1>1 DEF RepoHolds, Tracked, Closed, Stored
<1>2. ASSUME NEW q \in Syncs PROVE WalkHolds(sync[q])'
  <2>1. CASE sync'[q] = sync[q]
    <3>1. WalkHolds(sync[q])
      OBVIOUS
    <3>2. QED
      BY <2>1, <3>1 DEF WalkHolds, Stored
  <2>2. QED
    BY <2>1
<1>3. \A q \in Syncs : Follows(sync[q], sync'[q])
  BY DEF Follows
<1>4. Apart'
  <2> SUFFICES ASSUME NEW s \in Syncs
               PROVE  /\ repo'[sync'[s].repo].old \cap sync'[s].fresh = {}
                      /\ \A q \in Syncs : sync'[q].repo = sync'[s].repo =>
                            sync'[q].horizon \cap sync'[s].fresh = {}
    BY DEF Apart
  <2>1. CASE sync'[s].fresh = {}
    BY <2>1
  <2>2. CASE sync'[s].repo = sync[s].repo /\ sync'[s].fresh = sync[s].fresh
    <3>1. sync[s].repo \in Repos
      BY DEF HubTypes, Walks
    <3>2. repo'[sync[s].repo].old \cap sync[s].fresh = {}
      BY <3>1 DEF Apart
    <3>3. ASSUME NEW q \in Syncs, sync'[q].repo = sync[s].repo
          PROVE  sync'[q].horizon \cap sync[s].fresh = {}
      BY <1>3, <3>1, <3>3 DEF Follows, Apart
    <3>4. QED
      BY <2>2, <3>2, <3>3
  <2>3. QED
    BY <1>3, <2>1, <2>2 DEF Follows
<1>5. QED
  BY <1>1, <1>2, <1>4


LEMMA RepoTypes ==
    ASSUME HubInv, NEW r \in Repos
    PROVE  /\ repo[r] \in RepoRecords
           /\ repo[r].mode = "none" => repo[r] = Untracked
           /\ repo[r].seen = "private" => r \in confirmed
BY DEF HubInv, HubTypes, RepoHolds, Tracked

\* Another record for one repository, by an endpoint.
LEMMA EditHolds ==
    ASSUME HubAssumption, HubInv, HubMove, NEW r \in Repos, NEW t \in RepoRecords,
           repo' = [repo EXCEPT ![r] = t],
           t.old \in {repo[r].old, {}},
           t.mode = "none" => t = Untracked,
           t.seen = "private" => r \in confirmed',
           confirmed \subseteq confirmed', confirmed' \subseteq Repos,
           UNCHANGED <<hub, orgPat, activity, sync, cut, slid>>
    PROVE  HubInv'
<1>1. HubTypes'
  BY HubMoveType DEF HubInv, HubTypes, hub
<1>2. \A q \in Repos : /\ repo'[q].old \in {repo[q].old, {}}
                       /\ repo'[q].mode = "none" => repo'[q] = Untracked
                       /\ repo'[q].seen = "private" => q \in confirmed'
  <2>1. repo \in [Repos -> RepoRecords]
    BY DEF HubInv, HubTypes
  <2>2. \A q \in Repos : repo'[q] = IF q = r THEN t ELSE repo[q]
    BY <2>1
  <2>3. QED
    BY <2>2, RepoTypes
<1>3. QED
  BY <1>1, <1>2, StepHolds DEF hub

\* The endpoints.
LEMMA CreateHolds ==
    ASSUME HubAssumption, HubInv, NEW r \in Repos, Create(r) PROVE HubInv'
<1>1. PICK seen \in Probe(r) :
          /\ repo' = [repo EXCEPT ![r] = [Untracked EXCEPT !.mode = "auto", !.seen = seen,
                         !.status = IF seen = "private" /\ ~orgPat THEN "paused" ELSE "ok"]]
          /\ confirmed' = IF seen = "private" THEN confirmed \cup {r} ELSE confirmed
  BY DEF Create
<1> DEFINE t == [Untracked EXCEPT !.mode = "auto", !.seen = seen,
                         !.status = IF seen = "private" /\ ~orgPat THEN "paused" ELSE "ok"]
<1>2. seen \in Visibility
  BY DEF Probe, Visibility
<1>3. /\ t \in RepoRecords /\ t.old = {} /\ t.mode = "auto" /\ t.seen = seen
  BY <1>2 DEF Untracked, RepoRecords, Modes, Visibility
<1>4. confirmed' \subseteq Repos /\ confirmed \subseteq confirmed' /\ (seen = "private" => r \in confirmed')
  BY <1>1 DEF HubInv, HubTypes
<1>5. repo' = [repo EXCEPT ![r] = t]
  BY <1>1
<1> HIDE DEF t
<1>6. QED
  BY <1>3, <1>4, <1>5, EditHolds DEF Create

LEMMA PatchHolds ==
    ASSUME HubAssumption, HubInv, NEW r \in Repos, Patch(r) PROVE HubInv'
<1>1. /\ repo[r] \in RepoRecords /\ repo[r].mode # "none"
      /\ repo[r].seen = "private" => r \in confirmed
  BY RepoTypes DEF Patch, Tracked
<1>2. confirmed' = confirmed /\ confirmed \subseteq Repos
  BY DEF Patch, HubInv, HubTypes
<1>3. PICK t \in RepoRecords :
         /\ repo' = [repo EXCEPT ![r] = t]
         /\ t.old = repo[r].old /\ t.mode # "none" /\ t.seen \in {"unprobed", repo[r].seen}
  <2>1. CASE \E mode \in Modes :
             repo' = [repo EXCEPT ![r].mode = mode, ![r].seen = "unprobed",
                                  ![r].status = "ok",
                                  ![r].pat = @ /\ mode = "override"]
    <3>1. PICK mode \in Modes :
             repo' = [repo EXCEPT ![r].mode = mode, ![r].seen = "unprobed",
                                  ![r].status = "ok",
                                  ![r].pat = @ /\ mode = "override"]
      BY <2>1
    <3>2. PICK b \in BOOLEAN : b = (repo[r].pat /\ mode = "override")
      OBVIOUS
    <3> DEFINE t == [repo[r] EXCEPT !.mode = mode, !.seen = "unprobed", !.status = "ok",
                                    !.pat = b]
    <3>3. repo \in [Repos -> RepoRecords]
      BY DEF HubInv, HubTypes
    <3>4. repo' = [repo EXCEPT ![r] = t]
      BY <3>1, <3>2, <3>3 DEF RepoRecords
    <3>5. t \in RepoRecords
      BY <1>1 DEF RepoRecords, Modes, Visibility
    <3>6. t.old = repo[r].old /\ t.mode # "none" /\ t.seen = "unprobed"
      BY <1>1 DEF RepoRecords, Modes
    <3> HIDE DEF t
    <3>7. QED
      BY <3>4, <3>5, <3>6
  <2>2. CASE repo' = [repo EXCEPT ![r].mode = "override", ![r].pat = TRUE, ![r].status = "ok"]
    <3> DEFINE t == [repo[r] EXCEPT !.mode = "override", !.pat = TRUE, !.status = "ok"]
    <3>1. t \in RepoRecords
      BY <1>1 DEF RepoRecords, Modes
    <3>2. t.old = repo[r].old /\ t.mode # "none" /\ t.seen = repo[r].seen
      BY <1>1 DEF RepoRecords
    <3>3. repo' = [repo EXCEPT ![r] = t]
      BY <2>2
    <3> HIDE DEF t
    <3>4. QED
      BY <3>1, <3>2, <3>3
  <2>3. CASE repo' = [repo EXCEPT ![r].pat = FALSE]
    <3> DEFINE t == [repo[r] EXCEPT !.pat = FALSE]
    <3>1. t \in RepoRecords
      BY <1>1 DEF RepoRecords
    <3>2. t.old = repo[r].old /\ t.mode # "none" /\ t.seen = repo[r].seen
      BY <1>1 DEF RepoRecords
    <3>3. repo' = [repo EXCEPT ![r] = t]
      BY <2>3
    <3> HIDE DEF t
    <3>4. QED
      BY <3>1, <3>2, <3>3
  <2>4. QED
    BY <2>1, <2>2, <2>3 DEF Patch
<1>4. QED
  BY <1>1, <1>2, <1>3, EditHolds DEF Patch

LEMMA DeleteRepoHolds ==
    ASSUME HubAssumption, HubInv, NEW r \in Repos, DeleteRepo(r) PROVE HubInv'
<1>1. Untracked \in RepoRecords /\ Untracked.old = {} /\ Untracked.seen = "unprobed"
  BY DEF Untracked, RepoRecords, Visibility
<1>2. confirmed' = confirmed /\ confirmed \subseteq Repos
  BY DEF DeleteRepo, HubInv, HubTypes
<1>3. QED
  BY <1>1, <1>2, EditHolds DEF DeleteRepo

\* A token or a repository's visibility changes.
LEMMA SwitchHolds ==
    ASSUME HubAssumption, HubInv, Flip \/ PutToken PROVE HubInv'
<1>1. HubTypes'
  BY HubMoveType DEF HubInv, HubTypes, Flip, PutToken, hub
<1>2. UNCHANGED <<feed, version, activity, repo, sync, cut, confirmed, slid>>
  BY DEF Flip, PutToken, hub
<1>3. QED
  BY <1>1, <1>2, RepoTypes, StepHolds


\* The next walk of a run, and its repository's new status.
LEMMA RunHolds ==
    ASSUME HubInv, NEW s \in Syncs, NEW w \in Walks, sync' = [sync EXCEPT ![s] = w],
           Clear(w) \/ (WalkHolds(sync[s])' /\ Follows(sync[s], w)),
           NEW r \in Repos, NEW t \in RepoRecords,
           repo' \in {repo, [repo EXCEPT ![r] = t]},
           t.old = repo[r].old, t.mode = "none" => t = Untracked,
           t.seen = "private" => r \in confirmed',
           confirmed \subseteq confirmed', confirmed' \subseteq Repos,
           cut \subseteq cut', cut' \subseteq Repos, hubMoves' \in 0..MaxHub,
           UNCHANGED <<hub, orgPat, activity, slid>>
    PROVE  HubInv'
<1>1. repo' \in [Repos -> RepoRecords] /\ sync' \in [Syncs -> Walks]
  BY DEF HubInv, HubTypes
<1>2. HubTypes'
  BY <1>1 DEF HubInv, HubTypes, hub
<1>3. \A q \in Syncs : sync'[q] = IF q = s THEN w ELSE sync[q]
  BY DEF HubInv, HubTypes
<1>4. WalkHolds(sync[s])' /\ Follows(sync[s], w)
  <2>1. CASE Clear(w)
    <3>1. Clear(sync'[s])
      BY <1>3, <2>1
    <3>2. QED
      BY <2>1, <3>1, ClearHolds DEF Follows, Clear
  <2>2. QED
    BY <2>1
<1>5. \A q \in Syncs : \/ sync'[q] = sync[q]
                       \/ WalkHolds(sync[q])' /\ Follows(sync[q], sync'[q])
  BY <1>3, <1>4
<1>6. \A q \in Repos : repo'[q] = repo[q] \/ (q = r /\ repo'[q] = t)
  BY DEF HubInv, HubTypes
<1>7. \A q \in Repos : /\ repo'[q].old \in {repo[q].old, {}}
                       /\ repo'[q].mode = "none" => repo'[q] = Untracked
                       /\ repo'[q].seen = "private" => q \in confirmed'
  BY <1>6, RepoTypes
<1>8. QED
  BY <1>2, <1>5, <1>7, StepHolds DEF hub

LEMMA WalkTypes ==
    ASSUME HubAssumption, HubInv, NEW s \in Syncs
    PROVE  /\ sync[s] \in Walks /\ sync[s].repo \in Repos /\ WalkHolds(sync[s])
           /\ Next1(s) \in Walks /\ Clear(Next1(s))
           /\ feed[sync[s].repo] \in Seq(Pulls) /\ Distinct(feed[sync[s].repo])
<1>1. sync[s] \in Walks /\ WalkHolds(sync[s])
  BY DEF HubInv, HubTypes
<1>2. <<>> \in Seq(Pulls \X Nat) /\ 0 \in 0..MaxPages
  BY DEF HubAssumption
<1>3. Next1(s) \in Walks /\ Clear(Next1(s))
  BY <1>1, <1>2 DEF Next1, Walks, Clear
<1>4. QED
  BY <1>1, <1>3 DEF Walks, HubInv, HubTypes, RepoHolds

\* Steps that leave nothing in hand.
LEMMA BeginSyncHolds ==
    ASSUME HubAssumption, HubInv, NEW s \in Syncs, BeginSync(s) PROVE HubInv'
<1>0. PICK todo \in Asked(s) \ {{}} :
         sync' = [sync EXCEPT ![s] = [NoSync EXCEPT !.step = "next", !.todo = todo]]
  BY DEF BeginSync
<1> DEFINE w == [NoSync EXCEPT !.step = "next", !.todo = todo]
<1>1. w \in Walks /\ Clear(w)
  <2>1. todo \subseteq Repos
    BY DEF Asked
  <2>2. QED
    BY <2>1, NoSyncType DEF NoSync, Walks, Clear
<1>2. sync' = [sync EXCEPT ![s] = w]
  BY <1>0
<1> HIDE DEF w
<1>3. PICK r \in Repos : TRUE
  BY DEF HubAssumption
<1>4. hubMoves' \in 0..MaxHub
  BY HubMoveType DEF BeginSync, HubInv, HubTypes
<1>5. UNCHANGED <<hub, orgPat, repo, activity, confirmed, cut, slid>>
  BY DEF BeginSync
<1>6. confirmed \subseteq Repos /\ cut \subseteq Repos
  BY DEF HubInv, HubTypes
<1>7. QED
  BY <1>1, <1>2, <1>3, <1>4, <1>5, <1>6, RepoTypes, RunHolds

LEMMA EndSyncHolds ==
    ASSUME HubAssumption, HubInv, NEW s \in Syncs, EndSync(s) PROVE HubInv'
<1>1. NoSync \in Walks /\ Clear(NoSync) /\ sync[s].repo \in Repos
  BY NoSyncType, WalkTypes
<1>2. UNCHANGED <<hub, orgPat, repo, activity, confirmed, cut, slid, hubMoves>>
      /\ sync' = [sync EXCEPT ![s] = NoSync]
  BY DEF EndSync
<1>3. confirmed \subseteq Repos /\ cut \subseteq Repos /\ hubMoves \in 0..MaxHub
  BY DEF HubInv, HubTypes
<1>4. QED
  BY <1>1, <1>2, <1>3, RepoTypes, RunHolds

LEMMA ExceptHolds ==
    ASSUME HubAssumption, HubInv, NEW s \in Syncs, Except(s) PROVE HubInv'
<1>1. Next1(s) \in Walks /\ Clear(Next1(s)) /\ sync[s].repo \in Repos
  BY WalkTypes
<1>2. UNCHANGED <<hub, orgPat, repo, activity, confirmed, cut, slid>>
      /\ sync' = [sync EXCEPT ![s] = Next1(s)]
  BY DEF Except
<1>3. hubMoves' \in 0..MaxHub
  BY HubMoveType DEF Except, HubInv, HubTypes
<1>4. confirmed \subseteq Repos /\ cut \subseteq Repos
  BY DEF HubInv, HubTypes
<1>5. QED
  BY <1>1, <1>2, <1>3, <1>4, RepoTypes, RunHolds

LEMMA RefusedHolds ==
    ASSUME HubAssumption, HubInv, NEW s \in Syncs, Refused(s) PROVE HubInv'
<1> DEFINE r == sync[s].repo
<1>1. Next1(s) \in Walks /\ Clear(Next1(s)) /\ r \in Repos
  BY WalkTypes
<1>2. UNCHANGED <<hub, orgPat, activity, confirmed, cut, slid>>
      /\ sync' = [sync EXCEPT ![s] = Next1(s)]
  BY DEF Refused
<1>3. hubMoves' \in 0..MaxHub
  BY HubMoveType DEF Refused, HubInv, HubTypes
<1>4. confirmed \subseteq Repos /\ cut \subseteq Repos
  BY DEF HubInv, HubTypes
<1>5. PICK status \in {"not_found", "rate_limited", "auth_failed"} :
          repo' = IF Tracked(r) THEN [repo EXCEPT ![r].status = status] ELSE repo
  BY DEF Refused
<1> HIDE DEF r
<1> DEFINE t == [repo[r] EXCEPT !.status = status]
<1>6. repo[r] \in RepoRecords /\ (repo[r].seen = "private" => r \in confirmed)
  BY <1>1, RepoTypes
<1>7. t \in RepoRecords /\ t.old = repo[r].old /\ t.mode = repo[r].mode /\ t.seen = repo[r].seen
  BY <1>6 DEF RepoRecords
<1>8. repo' \in {repo, [repo EXCEPT ![r] = t]}
  BY <1>5
<1>9. CASE Tracked(r)
  <2> HIDE DEF t
  <2>1. t.mode # "none"
    BY <1>7, <1>9 DEF Tracked
  <2>2. QED
    BY <1>1, <1>2, <1>3, <1>4, <1>6, <1>7, <1>8, <2>1, RunHolds
<1>10. CASE ~Tracked(r)
  BY <1>1, <1>2, <1>3, <1>4, <1>5, <1>10, RepoTypes, RunHolds
<1>11. QED
  BY <1>9, <1>10


LEMMA ResolveHolds ==
    ASSUME HubAssumption, HubInv, NEW s \in Syncs, Resolve(s) PROVE HubInv'
<1>1. PICK r \in sync[s].todo :
        \E seen \in IF (IF Tracked(r) THEN repo[r].mode ELSE "auto") = "auto"
                       /\ repo[r].seen = "unprobed"
                    THEN Probe(r) ELSE {repo[r].seen} :
        LET mode == IF Tracked(r) THEN repo[r].mode ELSE "auto"
            tokens == Tokens(mode, repo[r].pat, seen)
            shown == IF mode = "public" THEN "public" ELSE seen
        IN
        /\ repo' = IF Tracked(r)
                   THEN [repo EXCEPT ![r].seen = shown,
                                     ![r].status = IF tokens = {} THEN "paused" ELSE @]
                   ELSE repo
        /\ confirmed' = IF mode = "auto" /\ repo[r].seen = "unprobed" /\ seen = "private"
                        THEN confirmed \cup {r} ELSE confirmed
        /\ IF tokens = {} THEN sync' = [sync EXCEPT ![s].todo = @ \ {r}]
           ELSE sync' = [sync EXCEPT ![s] =
                   [NoSync EXCEPT !.step = "fetching", !.repo = r, !.todo = sync[s].todo \ {r},
                                  !.token = CHOOSE t \in tokens : TRUE,
                                  !.horizon = repo[r].old]]
  BY DEF Resolve
<1> DEFINE mode == IF Tracked(r) THEN repo[r].mode ELSE "auto"
<1>2. PICK seen \in IF mode = "auto" /\ repo[r].seen = "unprobed"
                    THEN Probe(r) ELSE {repo[r].seen} :
        LET tokens == Tokens(mode, repo[r].pat, seen)
            shown == IF mode = "public" THEN "public" ELSE seen
        IN
        /\ repo' = IF Tracked(r)
                   THEN [repo EXCEPT ![r].seen = shown,
                                     ![r].status = IF tokens = {} THEN "paused" ELSE @]
                   ELSE repo
        /\ confirmed' = IF mode = "auto" /\ repo[r].seen = "unprobed" /\ seen = "private"
                        THEN confirmed \cup {r} ELSE confirmed
        /\ IF tokens = {} THEN sync' = [sync EXCEPT ![s].todo = @ \ {r}]
           ELSE sync' = [sync EXCEPT ![s] =
                   [NoSync EXCEPT !.step = "fetching", !.repo = r, !.todo = sync[s].todo \ {r},
                                  !.token = CHOOSE t \in tokens : TRUE,
                                  !.horizon = repo[r].old]]
  BY <1>1
<1> DEFINE tokens == Tokens(mode, repo[r].pat, seen)
           shown == IF mode = "public" THEN "public" ELSE seen
           t == [repo[r] EXCEPT !.seen = shown, !.status = IF tokens = {} THEN "paused" ELSE @]
<1>3. /\ sync[s] \in Walks /\ sync[s].step = "next" /\ WalkHolds(sync[s]) /\ r \in Repos
  BY WalkTypes DEF Resolve, Walks
<1>4. /\ repo[r] \in RepoRecords /\ (repo[r].mode = "none" => repo[r] = Untracked)
      /\ (repo[r].seen = "private" => r \in confirmed)
  BY <1>3, RepoTypes
<1>5. seen \in Visibility /\ mode \in Modes
  BY <1>2, <1>4 DEF Probe, Visibility, RepoRecords, Modes, Tracked
<1>6. tokens \subseteq {"none", "org", "override"} /\ ("org" \in tokens => seen = "private")
  BY DEF Tokens, OrgFor
<1>7. confirmed \subseteq confirmed' /\ confirmed' \subseteq Repos
  BY <1>2, <1>3 DEF HubInv, HubTypes
<1>8. seen = "private" => r \in confirmed'
  BY <1>2, <1>4
<1>9. /\ UNCHANGED <<hub, orgPat, activity, cut, slid, hubMoves>>
      /\ cut \subseteq Repos /\ hubMoves \in 0..MaxHub
  BY DEF Resolve, HubInv, HubTypes
<1>10. /\ t \in RepoRecords /\ t.old = repo[r].old /\ t.mode = repo[r].mode
       /\ t.seen = "private" => r \in confirmed'
  BY <1>4, <1>5, <1>8 DEF RepoRecords, Visibility
<1>11. repo' = IF Tracked(r) THEN [repo EXCEPT ![r] = t] ELSE repo
  <2>1. repo' = IF Tracked(r)
                THEN [repo EXCEPT ![r].seen = shown,
                                  ![r].status = IF tokens = {} THEN "paused" ELSE @]
                ELSE repo
    BY <1>2
  <2> HIDE DEF shown, tokens
  <2>2. repo \in [Repos -> RepoRecords]
    BY DEF HubInv, HubTypes
  <2>3. QED
    BY <1>3, <2>1, <2>2 DEF RepoRecords
<1> DEFINE v == [sync[s] EXCEPT !.todo = sync[s].todo \ {r}]
           w == [NoSync EXCEPT !.step = "fetching", !.repo = r, !.todo = sync[s].todo \ {r},
                               !.token = CHOOSE x \in tokens : TRUE,
                               !.horizon = repo[r].old]
<1>12. /\ tokens = {} => sync' = [sync EXCEPT ![s] = v]
       /\ tokens # {} => sync' = [sync EXCEPT ![s] = w]
  <2>1. tokens = {} => sync' = [sync EXCEPT ![s].todo = @ \ {r}]
    BY <1>2
  <2>2. tokens # {} => sync' = [sync EXCEPT ![s] = w]
    BY <1>2
  <2> HIDE DEF tokens, w
  <2>3. QED
    BY <2>1, <2>2
<1> HIDE DEF t, shown, mode
<1>13. PICK u \in RepoRecords :
         /\ repo' \in {repo, [repo EXCEPT ![r] = u]}
         /\ u.old = repo[r].old /\ (u.mode = "none" => u = Untracked)
         /\ u.seen = "private" => r \in confirmed'
  <2>1. CASE Tracked(r)
    <3>1. t.mode # "none"
      BY <1>10, <2>1 DEF Tracked
    <3>2. QED
      BY <1>10, <1>11, <2>1, <3>1
  <2>2. CASE ~Tracked(r)
    BY <1>4, <1>7, <1>11, <2>2
  <2>3. QED
    BY <2>1, <2>2
<1>14. CASE tokens = {}
  <2>1. v \in Walks /\ Clear(v)
    BY <1>3 DEF Walks, Clear, WalkHolds
  <2>2. sync' = [sync EXCEPT ![s] = v]
    BY <1>12, <1>14
  <2> HIDE DEF v, tokens
  <2>3. QED
    BY <1>3, <1>7, <1>9, <1>13, <2>1, <2>2, RunHolds
<1>15. CASE tokens # {}
  <2>1. (CHOOSE x \in tokens : TRUE) \in tokens
    BY <1>15
  <2>2. sync' = [sync EXCEPT ![s] = w]
    BY <1>12, <1>15
  <2> HIDE DEF tokens
  <2>3. /\ w \in Walks /\ w.step = "fetching" /\ w.repo = r /\ w.page = 0 /\ w.data = <<>>
        /\ w.horizon = repo[r].old /\ w.fresh = {} /\ w.token \in tokens
    BY <1>3, <1>4, <1>6, <2>1, NoSyncType DEF NoSync, Walks, RepoRecords
  <2> HIDE DEF w
  <2>4. sync'[s] = w
    BY <2>2 DEF HubInv, HubTypes
  <2>5. Follows(sync[s], w)
    BY <2>3 DEF Follows
  <2>6. /\ Closed(feed[r], repo[r].old) /\ (r \in cut \/ Stored(r, repo[r].old \ slid[r]))
        /\ feed[r] \in Seq(Pulls)
    BY <1>3 DEF HubInv, HubTypes, RepoHolds
  <2>7. \A i \in DOMAIN feed[r] : ~(i <= 0 * PerPage)
    <3>1. 0 * PerPage = 0
      BY DEF HubAssumption
    <3>2. DOMAIN feed[r] = 1..Len(feed[r]) /\ Len(feed[r]) \in Nat
      BY <2>6, LenProperties
    <3>3. QED
      BY <3>1, <3>2
  <2>8. \A k \in 1..Len(<<>>) : FALSE
    OBVIOUS
  <2>9. /\ feed' = feed /\ version' = version /\ activity' = activity /\ cut' = cut
        /\ slid' = slid
    BY <1>9 DEF hub
  <2>10. w.token = "org" => r \in confirmed'
    BY <1>6, <1>8, <2>3
  <2>11. MaxPages \in Nat \ {0}
    BY DEF HubAssumption
  <2>12. WalkHolds(sync[s])'
    BY <2>3, <2>4, <2>6, <2>7, <2>8, <2>9, <2>10, <2>11 DEF WalkHolds, Stored
  <2>13. QED
    BY <1>3, <1>7, <1>9, <1>13, <2>2, <2>3, <2>5, <2>12, RunHolds
<1>16. QED
  BY <1>14, <1>15


\* A page is PerPage places of the feed, or those that are left of it.
LEMMA PagePlaces ==
    ASSUME HubAssumption, NEW r, feed[r] \in Seq(Pulls), NEW m \in Nat
    PROVE  LET page == Page(r, m + 1)
               n == Len(feed[r]) IN
           /\ page \in Seq(Pulls) /\ Len(page) \in Nat
           /\ \A k \in 1..Len(page) :
                 m * PerPage + k \in DOMAIN feed[r] /\ page[k] = feed[r][m * PerPage + k]
           /\ \A i \in DOMAIN feed[r] :
                 \/ i <= m * PerPage
                 \/ i - m * PerPage \in 1..Len(page)
                 \/ m * PerPage + Len(page) < i /\ (m + 1) * PerPage < i
                       /\ Len(page) # 0
<1> DEFINE a == m * PerPage
           b == (m + 1) * PerPage
           n == Len(feed[r])
           e == IF b < n THEN b ELSE n
           page == Page(r, m + 1)
<1>1. PerPage \in Nat \ {0}
  BY DEF HubAssumption
<1>2. a \in Nat /\ b = a + PerPage
  BY <1>1
<1>3. n \in Nat /\ DOMAIN feed[r] = 1..n /\ \A i \in 1..n : feed[r][i] \in Pulls
  BY LenProperties
<1>4. page = SubSeq(feed[r], a + 1, e)
  <2> DEFINE c == m + 1
  <2>1. (c - 1) * PerPage = a
    OBVIOUS
  <2> HIDE DEF c
  <2>2. Page(r, c) = SubSeq(feed[r], (c - 1) * PerPage + 1,
                            IF c * PerPage < n THEN c * PerPage ELSE n)
    BY DEF Page
  <2> HIDE DEF a, n
  <2>3. QED
    BY <2>1, <2>2 DEF c
<1> HIDE DEF a, b, n, page
<1>5. e \in 0..n /\ a + 1 \in Int
  BY <1>1, <1>2, <1>3
<1>6. \A i \in (a + 1)..e : feed[r][i] \in Pulls
  BY <1>2, <1>3, <1>5
<1>7. /\ page \in Seq(Pulls)
      /\ Len(page) = IF a + 1 <= e THEN e - (a + 1) + 1 ELSE 0
      /\ \A k \in 1..(e - (a + 1) + 1) : page[k] = feed[r][a + 1 + k - 1]
  BY <1>4, <1>5, <1>6, SubSeqProperties
<1> DEFINE l == Len(page)
<1>8. l = (IF a + 1 <= e THEN e - (a + 1) + 1 ELSE 0)
  BY <1>7
<1> HIDE DEF l
<1>9. l = IF a < e THEN e - a ELSE 0
  BY <1>2, <1>5, <1>8
<1>10. ASSUME NEW k \in 1..l PROVE a + k \in 1..n /\ page[k] = feed[r][a + k]
  <2>1. k \in 1..(e - (a + 1) + 1) /\ a + 1 + k - 1 = a + k /\ a + k \in 1..n
    BY <1>2, <1>3, <1>5, <1>9
  <2>2. QED
    BY <1>7, <2>1
<1>11. ASSUME NEW i \in 1..n
       PROVE  i <= a \/ i - a \in 1..l \/ (a + l < i /\ b < i /\ l # 0)
  BY <1>1, <1>2, <1>3, <1>5, <1>9
<1>12. l \in Nat
  BY <1>2, <1>3, <1>5, <1>9
<1>13. QED
  BY <1>3, <1>7, <1>10, <1>11, <1>12 DEF a, b, n, page, l

LEMMA FetchPageHolds ==
    ASSUME HubAssumption, HubInv, NEW s \in Syncs, FetchPage(s) PROVE HubInv'
<1> DEFINE v == sync[s]
           r == v.repo
           m == v.page
           n == m + 1
           page == Page(r, n)
           crossed == page # <<>> /\ page[Len(page)] \in v.horizon
           items == [k \in 1..Len(page) |-> <<page[k], version[r][page[k]]>>]
           step == IF crossed \/ ~More(r, n) THEN "storing" ELSE "fetching"
           data == v.data \o items
           w == [v EXCEPT !.page = n, !.data = data, !.step = step]
<1>1. /\ v \in Walks /\ r \in Repos /\ WalkHolds(v) /\ v.step = "fetching"
      /\ feed[r] \in Seq(Pulls) /\ m \in Nat /\ m < MaxPages /\ MaxPages \in Nat
      /\ version[r] \in [Pulls -> Nat]
  <2> HIDE DEF page, crossed, data, step, w
  <2>1. v \in Walks /\ r \in Repos /\ WalkHolds(v) /\ feed[r] \in Seq(Pulls)
    BY WalkTypes
  <2>2. v.step = "fetching"
    BY DEF FetchPage
  <2>3. MaxPages \in Nat /\ version[r] \in [Pulls -> Nat]
    BY <2>1 DEF HubAssumption, HubInv, HubTypes
  <2> HIDE DEF v
  <2>4. m \in Nat /\ m < MaxPages
    BY <2>1, <2>2, <2>3 DEF Walks, WalkHolds
  <2>5. QED
    BY <2>1, <2>2, <2>3, <2>4
<1>2. /\ sync' = [sync EXCEPT ![s].page = n, ![s].data = @ \o items,
                              ![s].step = IF crossed \/ ~More(r, n) THEN "storing" ELSE @]
      /\ cut' = IF ~crossed /\ n = MaxPages /\ n * PerPage < Len(feed[r])
                THEN cut \cup {r} ELSE cut
      /\ UNCHANGED <<hub, orgPat, repo, activity, confirmed, slid, hubMoves>>
  BY DEF FetchPage
<1>3. /\ page \in Seq(Pulls) /\ Len(page) \in Nat
      /\ \A k \in 1..Len(page) : m * PerPage + k \in DOMAIN feed[r] /\ page[k] = feed[r][m * PerPage + k]
      /\ \A i \in DOMAIN feed[r] :
            \/ i <= m * PerPage
            \/ i - m * PerPage \in 1..Len(page)
            \/ m * PerPage + Len(page) < i /\ n * PerPage < i /\ Len(page) # 0
  BY <1>1, PagePlaces
<1> HIDE DEF page, v, data
<1>4. items \in Seq(Pulls \X Nat) /\ Len(items) = Len(page)
  <2>1. \A k \in 1..Len(page) : page[k] \in Pulls
    BY <1>3, LenProperties
  <2>2. QED
    BY SMTT(30), <1>1, <1>3, <2>1
<1>5. sync' = [sync EXCEPT ![s] = w]
  <2> HIDE DEF items, crossed, page
  <2>1. s \in DOMAIN sync /\ sync[s] = v /\ v \in Walks
    BY <1>1 DEF HubInv, HubTypes, v
  <2>2. QED
    BY <1>1, <1>2, <2>1 DEF Walks, data
<1>6. /\ v.data \in Seq(Pulls \X Nat) /\ Len(v.data) \in Nat
  BY <1>1, LenProperties DEF Walks
<1> DEFINE had == Len(v.data)
           got == Len(page)
<1>7. /\ data \in Seq(Pulls \X Nat) /\ Len(data) = had + got
      /\ \A k \in 1..(had + got) :
            data[k] = IF k <= had THEN v.data[k] ELSE items[k - had]
  BY <1>4, <1>6, ConcatProperties DEF data
<1>7a. had \in Nat /\ got \in Nat
  BY <1>3, <1>6
<1> HIDE DEF data, had, got
<1>8. ASSUME NEW p, Has(v.data, p) PROVE Has(data, p)
  <2>1. PICK k \in 1..had : v.data[k][1] = p
    BY <1>8 DEF Has, had
  <2>2. k \in 1..(had + got) /\ k <= had
    BY <1>7a, <2>1
  <2>2a. data[k] = v.data[k]
    BY <1>7, <2>2
  <2>3. QED
    BY <1>7, <2>1, <2>2, <2>2a DEF Has
<1>9. ASSUME NEW k \in 1..got PROVE Has(data, page[k])
  <2> DEFINE j == had + k
  <2>1. j \in 1..(had + got) /\ ~(j <= had) /\ j - had = k
    BY <1>7a
  <2>2. data[j] = items[k]
    BY <1>7, <2>1
  <2>3. data[j][1] = page[k]
    BY <2>2 DEF got
  <2> HIDE DEF j
  <2>4. QED
    BY <1>7, <2>1, <2>3 DEF Has
<1>10. ASSUME NEW k \in 1..(had + got)
       PROVE  /\ data[k][1] \in v.fresh \/ data[k][2] = version[r][data[k][1]]
              /\ data[k][2] <= version[r][data[k][1]]
  <2>1. CASE k <= had
    <3>1. k \in 1..had
      BY <1>7a, <2>1
    <3>2. data[k] = v.data[k]
      BY <1>7, <2>1
    <3>3. QED
      BY <1>1, <3>1, <3>2 DEF WalkHolds, had
  <2>2. CASE ~(k <= had)
    <3>1. k - had \in 1..got /\ data[k] = items[k - had]
      BY <1>7, <1>7a, <2>2
    <3>2. data[k][2] = version[r][data[k][1]]
      BY <3>1 DEF got
    <3>3. page[k - had] \in Pulls /\ data[k][1] = page[k - had]
      BY <1>3, <3>1, ElementOfSeq DEF got
    <3>4. version[r][data[k][1]] \in Nat
      BY <1>1, <3>3
    <3>5. QED
      BY <3>2, <3>4
  <2>3. QED
    BY <2>1, <2>2
<1> HIDE DEF items
\* Every place up to the end of this page is seen.
<1>11. ASSUME NEW i \in DOMAIN feed[r], i <= m * PerPage \/ i - m * PerPage \in 1..Len(page)
       PROVE  feed[r][i] \in v.fresh \cup slid[r] \/ Has(data, feed[r][i])
  <2>1. CASE i <= m * PerPage
    BY <1>1, <1>8, <2>1 DEF WalkHolds, WasSeen
  <2>2. CASE i - m * PerPage \in 1..Len(page)
    <3> DEFINE k == i - m * PerPage
    <3>1. i \in Nat /\ m * PerPage \in Nat
      BY <1>1, LenProperties DEF HubAssumption
    <3>2. m * PerPage + k = i
      BY <3>1
    <3>3. feed[r][i] = page[k]
      BY <1>3, <2>2, <3>2
    <3>4. QED
      BY <1>9, <2>2, <3>3 DEF got
  <2>3. QED
    BY <1>11, <2>1, <2>2
<1>12. /\ n \in 1..MaxPages /\ step \in {"fetching", "storing"}
       /\ step = "fetching" => n < MaxPages
  BY <1>1 DEF More
<1>13. ASSUME NEW i \in DOMAIN feed[r], i <= n * PerPage
       PROVE  feed[r][i] \in v.fresh \cup slid[r] \/ Has(data, feed[r][i])
  <2>1. i \in Nat /\ n * PerPage \in Nat
    BY SMTT(30), <1>1, LenProperties DEF HubAssumption
  <2>2. ~(n * PerPage < i)
    BY <1>13, <2>1
  <2>3. QED
    BY <1>3, <1>11, <2>2
<1>14. ASSUME NEW i \in DOMAIN feed[r], step = "storing", r \notin cut'
       PROVE  feed[r][i] \in v.fresh \cup slid[r] \/ Has(data, feed[r][i]) \/ feed[r][i] \in v.horizon
  <2>1. CASE m * PerPage + Len(page) < i /\ n * PerPage < i /\ Len(page) # 0
    <3>1. Len(feed[r]) \in Nat /\ i \in 1..Len(feed[r]) /\ n * PerPage \in Nat /\ m * PerPage \in Nat
      BY <1>1, LenProperties DEF HubAssumption
    <3>2. n * PerPage < Len(feed[r])
      BY <2>1, <3>1
    <3>3. crossed
      BY <1>1, <1>2, <1>12, <1>14, <3>2 DEF More
    <3>4. Len(page) \in 1..Len(page)
      BY <1>3, <2>1
    <3>5. /\ m * PerPage + Len(page) \in DOMAIN feed[r]
          /\ feed[r][m * PerPage + Len(page)] \in v.horizon
      BY <1>3, <3>3, <3>4
    <3>6. QED
      BY <1>1, <2>1, <3>5 DEF WalkHolds, Closed
  <2>2. QED
    BY <1>3, <1>11, <2>1
<1> HIDE DEF step, crossed
<1>15. /\ w \in Walks /\ w.step = step /\ w.page = n /\ w.data = data /\ w.repo = r
       /\ w.horizon = v.horizon /\ w.fresh = v.fresh /\ w.token = v.token
  <2>1. n \in 0..MaxPages
    BY <1>1, <1>12
  <2> HIDE DEF n
  <2>2. QED
    BY <1>1, <1>7, <1>12, <2>1 DEF Walks
<1> HIDE DEF w
<1>16. sync'[s] = w
  BY <1>5 DEF HubInv, HubTypes
<1>17. Follows(sync[s], w)
  BY <1>15 DEF Follows, v
<1>18. cut \subseteq cut' /\ cut' \subseteq Repos
  BY <1>1, <1>2 DEF HubInv, HubTypes
<1>19. /\ feed' = feed /\ version' = version /\ activity' = activity /\ repo' = repo
       /\ confirmed' = confirmed /\ slid' = slid
  BY <1>2 DEF hub
<1>20. WalkHolds(sync[s])'
  BY ZenonT(30), <1>1, <1>7, <1>10, <1>12, <1>13, <1>14, <1>15, <1>16, <1>18, <1>19 DEF WalkHolds, Stored, WasSeen
<1>21. /\ repo[r] \in RepoRecords /\ (repo[r].mode = "none" => repo[r] = Untracked)
       /\ (repo[r].seen = "private" => r \in confirmed)
  BY <1>1, RepoTypes
<1>22. confirmed \subseteq Repos /\ hubMoves \in 0..MaxHub
  BY DEF HubInv, HubTypes
<1>23. QED
  BY <1>1, <1>2, <1>5, <1>15, <1>17, <1>18, <1>19, <1>20, <1>21, <1>22, RunHolds


\* What a change of the pull request p of r does to its record and to walks.
LEMMA TouchMoves ==
    ASSUME NEW r \in Repos, NEW p \in Pulls, Touch(r, p)
    PROVE  /\ repo' = [repo EXCEPT ![r] = [repo[r] EXCEPT !.old = repo[r].old \ {p}]]
           /\ sync' = [s \in Syncs |->
                 IF sync[s].step \in {"fetching", "storing"} /\ sync[s].repo = r
                 THEN [sync[s] EXCEPT !.fresh = sync[s].fresh \cup {p},
                                      !.horizon = sync[s].horizon \ {p}]
                 ELSE sync[s]]
BY DEF Touch

\* The feed of r becomes n, and p is changed: nobody is behind another it was not
\* behind before, and whoever stands on a page a walk has read is p, or stood
\* there, or is one of those that slide.
Shuffles(r, p, n, slides) ==
    /\ Distinct(n)
    /\ \A H : Closed(feed[r], H) => Closed(n, H \ {p})
    /\ \A i \in DOMAIN n : n[i] = p \/ \E a \in DOMAIN feed[r] : feed[r][a] = n[i]
    /\ \A s \in Syncs : sync[s].step = "fetching" /\ sync[s].repo = r =>
          \A i \in DOMAIN n : i <= sync[s].page * PerPage =>
             \/ n[i] = p \/ n[i] \in slides
             \/ \E a \in DOMAIN feed[r] : a <= sync[s].page * PerPage /\ feed[r][a] = n[i]

\* The version of p may grow; the others stay.
Grows(r, p) ==
    /\ version' \in [Repos -> [Pulls -> Nat]] /\ version[r][p] <= version'[r][p]
    /\ \A q \in Repos, x \in Pulls : (q # r \/ x # p) => version'[q][x] = version[q][x]

LEMMA ChangeHolds ==
    ASSUME HubAssumption, HubInv, NEW r \in Repos, NEW p \in Pulls,
           NEW n \in Seq(Pulls), NEW slides \in SUBSET Pulls,
           Shuffles(r, p, n, slides), Grows(r, p), Touch(r, p), HubMove,
           feed' = [feed EXCEPT ![r] = n],
           slid' = [slid EXCEPT ![r] = slid[r] \cup slides],
           UNCHANGED <<private, orgPat, activity, confirmed, cut>>
    PROVE  HubInv'
<1>1. /\ repo' = [repo EXCEPT ![r] = [repo[r] EXCEPT !.old = repo[r].old \ {p}]]
      /\ sync' = [s \in Syncs |->
            IF sync[s].step \in {"fetching", "storing"} /\ sync[s].repo = r
            THEN [sync[s] EXCEPT !.fresh = sync[s].fresh \cup {p},
                                 !.horizon = sync[s].horizon \ {p}]
            ELSE sync[s]]
  BY TouchMoves
<1>2. UNCHANGED <<private, orgPat, activity, confirmed, cut>> /\ hubMoves' \in 0..MaxHub
  BY HubMoveType DEF HubInv
<1>3. /\ feed \in [Repos -> Seq(Pulls)] /\ version \in [Repos -> [Pulls -> Nat]]
      /\ repo \in [Repos -> RepoRecords] /\ sync \in [Syncs -> Walks]
      /\ slid \in [Repos -> SUBSET Pulls] /\ activity \in [Repos -> [Pulls -> Nat]]
  BY DEF HubInv, HubTypes
<1>5. \A q \in Repos : /\ feed'[q] = IF q = r THEN n ELSE feed[q]
                       /\ slid'[q] = IF q = r THEN slid[r] \cup slides ELSE slid[q]
  BY <1>3
<1>6. \A q \in Repos, x \in Pulls : version[q][x] <= version'[q][x]
  <2> SUFFICES ASSUME NEW q \in Repos, NEW x \in Pulls PROVE version[q][x] <= version'[q][x]
    OBVIOUS
  <2>1. version[q][x] \in Nat
    BY <1>3
  <2>2. (q = r /\ x = p) \/ version'[q][x] = version[q][x]
    BY DEF Grows
  <2>3. QED
    BY <2>1, <2>2 DEF Grows
<1>6a. /\ version' \in [Repos -> [Pulls -> Nat]]
       /\ \A q \in Repos, x \in Pulls : (q # r \/ x # p) => version'[q][x] = version[q][x]
  BY DEF Grows
<1>7. /\ repo' \in [Repos -> RepoRecords]
      /\ \A q \in Repos : q # r => repo'[q] = repo[q]
      /\ repo'[r].old = repo[r].old \ {p}
      /\ repo'[r].mode = repo[r].mode /\ repo'[r].seen = repo[r].seen
      /\ repo[r] = Untracked => repo'[r] = Untracked
  <2> DEFINE d == repo[r].old \ {p}
             t == [repo[r] EXCEPT !.old = d]
  <2>1. repo[r] \in RepoRecords /\ d \subseteq Pulls
    BY <1>3 DEF RepoRecords
  <2>2. repo[r] = Untracked => d = {}
    BY DEF Untracked
  <2>3. repo' = [repo EXCEPT ![r] = t]
    BY <1>1
  <2> HIDE DEF d
  <2>4. t \in RepoRecords /\ t.old = d /\ t.mode = repo[r].mode /\ t.seen = repo[r].seen
    BY <2>1 DEF RepoRecords
  <2>5. ASSUME repo[r] = Untracked PROVE t = Untracked
    <3>1. d = repo[r].old
      BY <2>2, <2>5 DEF Untracked
    <3>2. t = repo[r]
      BY <2>1, <3>1 DEF RepoRecords
    <3>3. QED
      BY <2>5, <3>2
  <2> HIDE DEF t
  <2>6. repo' \in [Repos -> RepoRecords] /\ repo'[r] = t
        /\ \A q \in Repos : q # r => repo'[q] = repo[q]
    BY <1>3, <2>3, <2>4
  <2>7. QED
    BY <2>4, <2>5, <2>6 DEF d
<1> DEFINE Hit(s) == sync[s].step \in {"fetching", "storing"} /\ sync[s].repo = r
           moved(s) == [sync[s] EXCEPT !.fresh = sync[s].fresh \cup {p},
                                       !.horizon = sync[s].horizon \ {p}]
<1>8. \A s \in Syncs : sync'[s] = IF Hit(s) THEN moved(s) ELSE sync[s]
  BY <1>1
<1>9. ASSUME NEW s \in Syncs
      PROVE  /\ sync'[s] \in Walks
             /\ sync'[s].step = sync[s].step /\ sync'[s].repo = sync[s].repo
             /\ sync'[s].page = sync[s].page /\ sync'[s].data = sync[s].data
             /\ sync'[s].token = sync[s].token /\ sync[s].fresh \subseteq sync'[s].fresh
             /\ sync'[s].fresh \subseteq sync[s].fresh \cup (IF Hit(s) THEN {p} ELSE {})
             /\ Hit(s) => p \in sync'[s].fresh
             /\ sync'[s].horizon =
                  IF sync[s].repo = r THEN sync[s].horizon \ {p} ELSE sync[s].horizon
  <2>1. sync[s] \in Walks /\ WalkHolds(sync[s])
    BY <1>3 DEF HubInv
  <2> DEFINE h == sync[s].horizon \ {p}
             f == sync[s].fresh \cup {p}
             m == [sync[s] EXCEPT !.fresh = f, !.horizon = h]
  <2>2. h \subseteq Pulls /\ f \subseteq Pulls
    BY <2>1 DEF Walks
  <2>3. CASE Hit(s)
    <3>1. sync'[s] = m
      BY <1>8, <2>3
    <3> HIDE DEF h, f
    <3>2. /\ m \in Walks /\ m.step = sync[s].step /\ m.repo = sync[s].repo
          /\ m.page = sync[s].page /\ m.data = sync[s].data /\ m.token = sync[s].token
          /\ m.fresh = f /\ m.horizon = h
      BY <2>1, <2>2 DEF Walks
    <3> HIDE DEF m
    <3>3. QED
      BY <2>3, <3>1, <3>2 DEF h, f
  <2>4. CASE ~Hit(s)
    <3>1. sync[s].repo = r => sync[s].horizon = {}
      BY <2>1, <2>4 DEF WalkHolds, Clear
    <3>2. sync'[s] = sync[s]
      BY <1>8, <2>4
    <3>3. QED
      BY <2>1, <2>4, <3>1, <3>2
  <2>5. QED
    BY <2>3, <2>4
<1> HIDE DEF moved
<1>10. HubTypes'
  <2>1. feed' \in [Repos -> Seq(Pulls)] /\ slid' \in [Repos -> SUBSET Pulls]
    BY <1>3
  <2>2. sync' \in [Syncs -> Walks]
    BY <1>1, <1>9
  <2>3. QED
    BY <1>2, <1>6a, <1>7, <2>1, <2>2 DEF HubInv, HubTypes
<1>11. ASSUME NEW q \in Repos PROVE RepoHolds(q)'
  <2>1. RepoHolds(q) /\ repo[q] \in RepoRecords
    BY <1>3 DEF HubInv
  <2>2. CASE q # r
    <3>1. feed'[q] = feed[q] /\ repo'[q] = repo[q] /\ \A x \in Pulls : version'[q][x] = version[q][x]
      BY <1>5, <1>6a, <1>7, <2>2
    <3>2. repo[q].old \subseteq Pulls /\ slid'[q] = slid[q]
      BY <1>5, <2>1, <2>2 DEF RepoRecords
    <3>3. QED
      BY <1>2, <2>1, <3>1, <3>2 DEF RepoHolds, Tracked, Stored
  <2>3. CASE q = r
    <3>1. feed'[q] = n /\ repo'[q].old = repo[q].old \ {p}
          /\ repo'[q].mode = repo[q].mode /\ repo'[q].seen = repo[q].seen
      BY <1>5, <1>7, <2>3
    <3>2. Distinct(feed'[q]) /\ Closed(feed'[q], repo'[q].old)
      <4>1. Closed(feed[r], repo[r].old)
        BY <2>1, <2>3 DEF RepoHolds
      <4>2. Distinct(n) /\ Closed(n, repo[r].old \ {p})
        BY <4>1 DEF Shuffles
      <4>3. QED
        BY <2>3, <3>1, <4>2
    <3>3. repo[q] = Untracked => repo'[q] = Untracked
      BY <1>7, <2>3
    <3>4. Stored(q, repo[q].old \ slid[q]) =>
             \A x \in repo'[q].old \ slid'[q] : activity'[q][x] = version'[q][x]
      BY <1>2, <1>5, <1>6a, <2>1, <3>1 DEF Stored, RepoRecords
    <3>5. \A x \in Pulls : activity'[q][x] <= version'[q][x]
      <4> SUFFICES ASSUME NEW x \in Pulls PROVE activity[q][x] <= version'[q][x]
        BY <1>2
      <4>1. activity[q][x] \in Nat /\ version[q][x] \in Nat /\ version'[q][x] \in Nat
        BY <1>3, <1>6a
      <4>2. activity[q][x] <= version[q][x] /\ version[q][x] <= version'[q][x]
        BY <1>6, <2>1 DEF RepoHolds
      <4>3. QED
        BY <4>1, <4>2
    <3>6. QED
      BY <1>2, <2>1, <3>1, <3>2, <3>3, <3>4, <3>5 DEF RepoHolds, Tracked, Stored
  <2>4. QED
    BY <2>2, <2>3
<1>12. ASSUME NEW s \in Syncs PROVE WalkHolds(sync[s])'
  <2> DEFINE v == sync[s]
             w == sync'[s]
             q == v.repo
  <2>1. WalkHolds(v) /\ v \in Walks /\ q \in Repos
    BY <1>3 DEF HubInv, Walks
  <2>2. CASE ~Hit(s)
    <3>1. w = v
      BY <1>8, <2>2
    <3>2. CASE q = r
      <4>1. Clear(v) /\ v.step \notin {"fetching", "storing"}
        BY <2>1, <2>2, <3>2 DEF WalkHolds
      <4>2. Clear(sync'[s])
        BY <3>1, <4>1
      <4>3. QED
        BY <4>2, ClearHolds
    <3>3. CASE q # r
      <4>1. /\ feed'[q] = feed[q] /\ slid'[q] = slid[q]
            /\ \A x \in Pulls : version'[q][x] = version[q][x]
        BY <1>5, <1>6a, <2>1, <3>3
      <4>2. \A k \in 1..Len(v.data) : v.data[k][1] \in Pulls
        BY <2>1, ElementOfSeq DEF Walks
      <4>3. v.horizon \subseteq Pulls
        BY <2>1 DEF Walks
      <4>4. cut' = cut /\ confirmed' = confirmed /\ activity' = activity
        BY <1>2
      <4>5. sync'[s] = sync[s] /\ feed'[sync[s].repo] = feed[sync[s].repo]
            /\ slid'[sync[s].repo] = slid[sync[s].repo]
        BY <3>1, <4>1
      <4>6. \A k \in 1..Len(v.data) :
               /\ v.data[k][1] \in v.fresh \/ v.data[k][2] = version'[q][v.data[k][1]]
               /\ v.data[k][2] <= version'[q][v.data[k][1]]
        BY <2>1, <4>1, <4>2 DEF WalkHolds
      <4>7. q \in cut \/ \A x \in v.horizon \ slid[q] : activity[q][x] = version'[q][x]
        BY <2>1, <4>1, <4>3 DEF WalkHolds, Stored
      <4> HIDE DEF Hit
      <4>8. QED
        BY <2>1, <4>4, <4>5, <4>6, <4>7 DEF WalkHolds, Stored, WasSeen, Clear
    <3>4. QED
      BY <3>2, <3>3
  <2>3. CASE Hit(s)
    <3>1. /\ q = r /\ w.step = v.step /\ w.repo = r /\ w.page = v.page /\ w.data = v.data
          /\ w.token = v.token /\ v.fresh \subseteq w.fresh /\ p \in w.fresh
          /\ w.horizon = v.horizon \ {p} /\ v.step \in {"fetching", "storing"}
      BY <1>9, <2>3
    <3>2. feed'[r] = n /\ slid'[r] = slid[r] \cup slides
      BY <1>5
    <3> HIDE DEF Hit, w
    <3>3. Closed(feed'[r], w.horizon)
      <4>1. Closed(feed[r], v.horizon)
        BY <2>1, <3>1 DEF WalkHolds
      <4>2. Closed(n, v.horizon \ {p})
        BY <4>1 DEF Shuffles
      <4>3. QED
        BY <3>1, <3>2, <4>2
    <3>4. ASSUME NEW k \in 1..Len(w.data)
          PROVE  /\ w.data[k][1] \in w.fresh \/ w.data[k][2] = version'[r][w.data[k][1]]
                 /\ w.data[k][2] <= version'[r][w.data[k][1]]
      <4>1. w.data[k] \in Pulls \X Nat
        BY <2>1, <3>1, ElementOfSeq DEF Walks
      <4>2. /\ w.data[k][1] \in v.fresh \/ w.data[k][2] = version[r][w.data[k][1]]
            /\ w.data[k][2] <= version[r][w.data[k][1]]
        BY <2>1, <3>1 DEF WalkHolds
      <4> DEFINE x == w.data[k][1]
      <4>3. x \in Pulls /\ w.data[k][2] \in Nat
        BY <4>1
      <4> HIDE DEF x
      <4>4. version[r][x] \in Nat /\ version'[r][x] \in Nat /\ version[r][x] <= version'[r][x]
        BY <1>3, <1>6, <1>6a, <4>3
      <4>5. w.data[k][2] <= version'[r][x]
        BY <4>2, <4>3, <4>4 DEF x
      <4>6. x \in w.fresh \/ w.data[k][2] = version'[r][x]
        BY <1>6a, <3>1, <4>2, <4>3 DEF x
      <4>7. QED
        BY <4>5, <4>6 DEF x
    <3>6. \A x : WasSeen(v, x) => WasSeen(w, x)
      BY <3>1 DEF WasSeen
    <3>7. ASSUME w.step = "fetching", NEW i \in DOMAIN feed'[r], i <= w.page * PerPage
          PROVE  WasSeen(w, feed'[r][i]) \/ feed'[r][i] \in slid'[r]
      <4>1. CASE n[i] = p
        BY <3>1, <3>2, <4>1 DEF WasSeen
      <4>2. ASSUME NEW a \in DOMAIN feed[r], a <= v.page * PerPage, feed[r][a] = n[i]
            PROVE  WasSeen(w, n[i]) \/ n[i] \in slid'[r]
        <5>1. WasSeen(v, feed[r][a]) \/ feed[r][a] \in slid[r]
          BY <2>1, <3>1, <3>7, <4>2 DEF WalkHolds
        <5>2. QED
          BY <3>2, <3>6, <4>2, <5>1
      <4>3. \/ n[i] = p \/ n[i] \in slides
            \/ \E a \in DOMAIN feed[r] : a <= v.page * PerPage /\ feed[r][a] = n[i]
        <5>1. sync[s].step = "fetching" /\ sync[s].repo = r /\ i \in DOMAIN n
              /\ i <= sync[s].page * PerPage
          BY <3>1, <3>2, <3>7
        <5>2. QED
          BY <5>1 DEF Shuffles
      <4>4. QED
        BY <3>2, <4>1, <4>2, <4>3
    <3>8. ASSUME r \notin cut, w.step = "storing", NEW i \in DOMAIN feed'[r]
          PROVE  WasSeen(w, feed'[r][i]) \/ feed'[r][i] \in w.horizon \cup slid'[r]
      <4>1. CASE n[i] = p
        BY <3>1, <3>2, <4>1 DEF WasSeen
      <4>2. ASSUME NEW a \in DOMAIN feed[r], feed[r][a] = n[i], n[i] # p
            PROVE  WasSeen(w, n[i]) \/ n[i] \in w.horizon \cup slid'[r]
        <5>1. WasSeen(v, feed[r][a]) \/ feed[r][a] \in v.horizon \cup slid[r]
          BY <2>1, <3>1, <3>8 DEF WalkHolds
        <5>2. QED
          BY <3>1, <3>2, <3>6, <4>2, <5>1
      <4>3. n[i] = p \/ \E a \in DOMAIN feed[r] : feed[r][a] = n[i]
        BY <3>2, <3>8 DEF Shuffles
      <4>4. QED
        BY <3>2, <4>1, <4>2, <4>3
    <3>9. r \in cut \/ \A x \in w.horizon \ slid'[r] : activity'[r][x] = version'[r][x]
      BY <1>2, <1>6a, <2>1, <3>1, <3>2 DEF WalkHolds, Stored, Walks
    <3>10. /\ w.step = "fetching" => w.page < MaxPages
           /\ w.token = "org" => r \in confirmed
      BY <2>1, <3>1 DEF WalkHolds
    <3>11. QED
      BY <1>2, <3>1, <3>3, <3>4, <3>7, <3>8, <3>9, <3>10 DEF WalkHolds, Stored, w
  <2>4. QED
    BY <2>2, <2>3
<1>13. Apart'
  <2> SUFFICES ASSUME NEW s \in Syncs
               PROVE  /\ repo'[sync'[s].repo].old \cap sync'[s].fresh = {}
                      /\ \A q \in Syncs : sync'[q].repo = sync'[s].repo =>
                            sync'[q].horizon \cap sync'[s].fresh = {}
    BY DEF Apart
  <2>1. sync[s] \in Walks /\ sync[s].repo \in Repos
    BY <1>3 DEF Walks
  <2>2. /\ repo[sync[s].repo].old \cap sync[s].fresh = {}
        /\ \A q \in Syncs : sync[q].repo = sync[s].repo => sync[q].horizon \cap sync[s].fresh = {}
    BY DEF HubInv, Apart
  <2>3. repo'[sync[s].repo].old =
           IF sync[s].repo = r THEN repo[sync[s].repo].old \ {p} ELSE repo[sync[s].repo].old
    BY <1>7, <2>1
  <2>4. repo'[sync'[s].repo].old \cap sync'[s].fresh = {}
    BY <1>9, <2>2, <2>3
  <2>5. ASSUME NEW q \in Syncs, sync'[q].repo = sync'[s].repo
        PROVE  sync'[q].horizon \cap sync'[s].fresh = {}
    BY ZenonT(30), <1>9, <2>2, <2>5
  <2>6. QED
    BY <2>4, <2>5
<1>14. QED
  BY <1>10, <1>11, <1>12, <1>13 DEF HubInv

\* A pull request that goes to the top is p, and the others move down.
LEMMA TopHolds ==
    ASSUME HubAssumption, HubInv, NEW r \in Repos, NEW p \in Pulls,
           ToTop(r, p), Touch(r, p), Grows(r, p), HubMove,
           UNCHANGED <<private, orgPat, activity, confirmed, cut, slid>>
    PROVE  HubInv'
<1> DEFINE n == Newest(feed[r], p)
<1>1. /\ feed[r] \in Seq(Pulls) /\ Distinct(feed[r])
      /\ slid \in [Repos -> SUBSET Pulls] /\ sync \in [Syncs -> Walks]
  BY DEF HubInv, HubTypes, RepoHolds
<1>2. /\ n \in Seq(Pulls) /\ Distinct(n)
      /\ \A H : Closed(feed[r], H) => Closed(n, H \ {p})
      /\ \A i \in DOMAIN n :
            n[i] = p \/ \E a \in DOMAIN feed[r] : a <= i /\ feed[r][a] = n[i]
  BY <1>1, NewestKeeps
<1>3. feed' = [feed EXCEPT ![r] = n]
  BY DEF ToTop, Newest
<1> HIDE DEF n
<1>4. slid' = [slid EXCEPT ![r] = slid[r] \cup {}] /\ {} \in SUBSET Pulls
  BY <1>1
<1>5. ASSUME NEW s \in Syncs, NEW i \in DOMAIN n, i <= sync[s].page * PerPage, n[i] # p
      PROVE  \E a \in DOMAIN feed[r] : a <= sync[s].page * PerPage /\ feed[r][a] = n[i]
  <2>1. PICK a \in DOMAIN feed[r] : a <= i /\ feed[r][a] = n[i]
    BY <1>2, <1>5
  <2>2. a \in Nat /\ i \in Nat
    BY <1>1, <1>2, LenProperties
  <2>3. sync[s].page * PerPage \in Nat
    <3>1. sync[s].page \in Nat /\ PerPage \in Nat
      BY <1>1 DEF Walks, HubAssumption
    <3>2. QED
      BY <3>1
  <2>4. a <= sync[s].page * PerPage
    BY <1>5, <2>1, <2>2, <2>3
  <2>5. QED
    BY <2>1, <2>4
<1>6. Shuffles(r, p, n, {})
  BY <1>2, <1>5 DEF Shuffles
<1>7. QED
  BY <1>2, <1>3, <1>4, <1>6, ChangeHolds

LEMMA UpdateHolds ==
    ASSUME HubAssumption, HubInv, NEW r \in Repos, NEW p \in Pulls, Update(r, p)
    PROVE  HubInv'
<1>1. version' = [version EXCEPT ![r] = [version[r] EXCEPT ![p] = version[r][p] + 1]]
  BY DEF Update
<1>2. version \in [Repos -> [Pulls -> Nat]]
  BY DEF HubInv, HubTypes
<1> DEFINE u == [version[r] EXCEPT ![p] = version[r][p] + 1]
<1>3. version[r] \in [Pulls -> Nat] /\ version[r][p] + 1 \in Nat /\ version[r][p] \in Nat
  BY <1>2
<1>4. /\ u \in [Pulls -> Nat] /\ u[p] = version[r][p] + 1
      /\ \A x \in Pulls : x # p => u[x] = version[r][x]
  BY <1>3
<1> HIDE DEF u
<1>5. /\ version' \in [Repos -> [Pulls -> Nat]]
      /\ \A q \in Repos : version'[q] = IF q = r THEN u ELSE version[q]
  BY <1>1, <1>2, <1>4 DEF u
<1>6. version[r][p] <= version'[r][p]
  BY <1>3, <1>4, <1>5
<1>7. \A q \in Repos, x \in Pulls : (q # r \/ x # p) => version'[q][x] = version[q][x]
  BY <1>4, <1>5
<1>8. Grows(r, p)
  BY <1>5, <1>6, <1>7 DEF Grows
<1>9. QED
  BY <1>8, TopHolds DEF Update

LEMMA CloseUnmergedHolds ==
    ASSUME HubAssumption, HubInv, NEW r \in Repos, NEW p \in Pulls, CloseUnmerged(r, p)
    PROVE  HubInv'
<1>1. version \in [Repos -> [Pulls -> Nat]] /\ version' = version
  BY DEF HubInv, HubTypes, CloseUnmerged
<1>2. version[r][p] \in Nat
  BY <1>1
<1>3. version[r][p] <= version'[r][p]
  BY <1>1, <1>2
<1>4. Grows(r, p)
  BY <1>1, <1>3 DEF Grows
<1>5. QED
  BY <1>4, TopHolds DEF CloseUnmerged

\* Where p has been taken out of a feed, nobody moves up by more than a place.
LEMMA TakenOutKeeps ==
    ASSUME NEW S, NEW seq \in Seq(S), Distinct(seq), NEW p
    PROVE  LET n == RemoveFirst(seq, p) IN
           /\ n \in Seq(S) /\ Distinct(n)
           /\ \A H : Closed(seq, H) => Closed(n, H \ {p})
           /\ \A i \in DOMAIN n :
                 \/ i \in DOMAIN seq /\ n[i] = seq[i]
                 \/ /\ i + 1 \in DOMAIN seq /\ n[i] = seq[i + 1]
                    /\ \E j \in 1..i : seq[j] = p
<1> DEFINE n == RemoveFirst(seq, p)
<1>1. /\ n \in Seq(S)
      /\ \/ n = seq /\ \A i \in DOMAIN seq : seq[i] # p
         \/ \E k \in DOMAIN seq :
               /\ seq[k] = p /\ Len(n) = Len(seq) - 1
               /\ \A i \in 1..(Len(seq) - 1) : n[i] = IF i < k THEN seq[i] ELSE seq[i + 1]
  BY TakenOut
<1> HIDE DEF n
<1>2. Len(seq) \in Nat /\ DOMAIN seq = 1..Len(seq) /\ DOMAIN n = 1..Len(n)
  BY <1>1, LenProperties
<1>3. CASE n = seq /\ \A i \in DOMAIN seq : seq[i] # p
  <2>1. \A H : Closed(seq, H) => Closed(n, H \ {p})
    BY <1>3 DEF Closed
  <2>2. QED
    BY <1>1, <1>3, <2>1 DEF n
<1>4. ASSUME NEW k \in DOMAIN seq, seq[k] = p, Len(n) = Len(seq) - 1,
             \A i \in 1..(Len(seq) - 1) : n[i] = IF i < k THEN seq[i] ELSE seq[i + 1]
      PROVE  /\ Distinct(n)
             /\ \A H : Closed(seq, H) => Closed(n, H \ {p})
             /\ \A i \in DOMAIN n :
                   \/ i \in DOMAIN seq /\ n[i] = seq[i]
                   \/ /\ i + 1 \in DOMAIN seq /\ n[i] = seq[i + 1]
                      /\ \E j \in 1..i : seq[j] = p
  <2> DEFINE was(i) == IF i < k THEN i ELSE i + 1
  <2>1. \A i \in DOMAIN n : /\ was(i) \in DOMAIN seq /\ n[i] = seq[was(i)] /\ was(i) # k
                            /\ i \in Nat /\ i \in DOMAIN seq
    BY <1>2, <1>4
  <2>2. \A i, j \in DOMAIN n : i < j => was(i) < was(j)
    BY <2>1
  <2>3. \A i, j \in DOMAIN n : was(i) = was(j) => i = j
    BY <2>1
  <2>4. \A i \in DOMAIN n : n[i] # p
    BY <1>4, <2>1 DEF Distinct
  <2>5. \A i \in DOMAIN n : was(i) = i \/ (was(i) = i + 1 /\ k \in 1..i)
    BY <1>2, <2>1
  <2> HIDE DEF was
  <2>6. Distinct(n)
    BY <2>1, <2>3 DEF Distinct
  <2>7. ASSUME NEW H, Closed(seq, H) PROVE Closed(n, H \ {p})
    BY <2>1, <2>2, <2>4, <2>7 DEF Closed
  <2>8. QED
    BY <1>4, <2>1, <2>5, <2>6, <2>7
<1>5. QED
  BY <1>1, <1>3, <1>4 DEF n

LEMMA ReopenHolds ==
    ASSUME HubAssumption, HubInv, NEW r \in Repos, NEW p \in Pulls, Reopen(r, p)
    PROVE  HubInv'
<1> DEFINE n == RemoveFirst(feed[r], p)
<1>1. /\ feed[r] \in Seq(Pulls) /\ Distinct(feed[r])
      /\ slid \in [Repos -> SUBSET Pulls] /\ sync \in [Syncs -> Walks]
      /\ version \in [Repos -> [Pulls -> Nat]]
  BY DEF HubInv, HubTypes, RepoHolds
<1>2. /\ n \in Seq(Pulls) /\ Distinct(n)
      /\ \A H : Closed(feed[r], H) => Closed(n, H \ {p})
      /\ \A i \in DOMAIN n :
            \/ i \in DOMAIN feed[r] /\ n[i] = feed[r][i]
            \/ /\ i + 1 \in DOMAIN feed[r] /\ n[i] = feed[r][i + 1]
               /\ \E j \in 1..i : feed[r][j] = p
  BY <1>1, TakenOutKeeps
<1>3. /\ feed' = [feed EXCEPT ![r] = n] /\ Touch(r, p) /\ HubMove
      /\ slid' = [slid EXCEPT ![r] = slid[r] \cup Slides(r, p)]
      /\ UNCHANGED <<version, private, orgPat, activity, confirmed, cut>>
  BY DEF Reopen
<1> HIDE DEF n
<1>4. Len(feed[r]) \in Nat /\ DOMAIN feed[r] = 1..Len(feed[r]) /\ DOMAIN n = 1..Len(n)
      /\ \A i \in 1..Len(feed[r]) : feed[r][i] \in Pulls
  BY <1>1, <1>2, LenProperties
<1>5. Slides(r, p) \in SUBSET Pulls
  BY <1>4 DEF Slides
<1>6. ASSUME NEW s \in Syncs, sync[s].step = "fetching", sync[s].repo = r,
             NEW i \in DOMAIN n, i <= sync[s].page * PerPage
      PROVE  \/ n[i] \in Slides(r, p)
             \/ \E a \in DOMAIN feed[r] : a <= sync[s].page * PerPage /\ feed[r][a] = n[i]
  <2> DEFINE e == sync[s].page * PerPage
  <2>1. e \in Nat /\ i \in Nat /\ i >= 1
    BY <1>1, <1>4 DEF Walks, HubAssumption
  <2>2. CASE i + 1 \in DOMAIN feed[r] /\ n[i] = feed[r][i + 1] /\ i = e
               /\ \E j \in 1..i : feed[r][j] = p
    <3>1. i + 1 \in 2..Len(feed[r]) /\ (i + 1) - 1 = i
      BY <1>4, <2>1, <2>2
    <3>2. i + 1 = sync[s].page * PerPage + 1
      BY <2>2
    <3> DEFINE k == i + 1
    <3>3. \E j \in 1..(k - 1) : feed[r][j] = p
      BY <2>2, <3>1
    <3>4. k \in 2..Len(feed[r]) /\ k = sync[s].page * PerPage + 1 /\ n[i] = feed[r][k]
      BY <2>2, <3>1, <3>2
    <3> HIDE DEF k, e
    <3>5. feed[r][k] \in Slides(r, p)
      BY <1>6, <3>3, <3>4 DEF Slides
    <3>6. QED
      BY <3>4, <3>5
  <2>3. CASE i + 1 \in DOMAIN feed[r] /\ n[i] = feed[r][i + 1] /\ i # e
    <3>1. i + 1 <= e
      BY <1>6, <2>1, <2>3
    <3>2. QED
      BY <2>3, <3>1
  <2>4. CASE i \in DOMAIN feed[r] /\ n[i] = feed[r][i]
    BY <1>6, <2>4
  <2>5. QED
    BY <1>2, <2>2, <2>3, <2>4
<1>7. \A i \in DOMAIN n : n[i] = p \/ \E a \in DOMAIN feed[r] : feed[r][a] = n[i]
  BY <1>2
<1>8. Grows(r, p)
  <2>1. version[r][p] \in Nat
    BY <1>1
  <2>2. QED
    BY <1>1, <1>3, <2>1 DEF Grows
<1>9. Shuffles(r, p, n, Slides(r, p))
  BY <1>2, <1>6, <1>7 DEF Shuffles
<1>10. QED
  BY <1>2, <1>3, <1>5, <1>8, <1>9, ChangeHolds


\* The lower end of a feed.
LEMMA LowerEnd ==
    ASSUME NEW S, NEW seq \in Seq(S), Distinct(seq), NEW k \in 1..(Len(seq) + 1)
    PROVE  /\ Range(SubSeq(seq, k, Len(seq))) \subseteq S
           /\ Closed(seq, Range(SubSeq(seq, k, Len(seq))))
           /\ \A p \in Range(SubSeq(seq, k, Len(seq))) : \E i \in DOMAIN seq : seq[i] = p
<1> DEFINE n == Len(seq)
           low == SubSeq(seq, k, n)
<1>1. n \in Nat /\ DOMAIN seq = 1..n /\ \A i \in 1..n : seq[i] \in S
  BY LenProperties
<1> HIDE DEF n
<1>2. k \in 1..(n + 1)
  BY DEF n
<1>3. k \in Int /\ n \in Int /\ \A i \in k..n : seq[i] \in S
  BY <1>1, <1>2
<1>4. /\ low \in Seq(S) /\ Len(low) = IF k <= n THEN n - k + 1 ELSE 0
      /\ \A i \in 1..(n - k + 1) : low[i] = seq[k + i - 1]
  BY <1>3, SubSeqProperties
<1> HIDE DEF low
<1> DEFINE l == Len(low)
<1>5. DOMAIN low = 1..l /\ l = IF k <= n THEN n - k + 1 ELSE 0
  BY <1>4, LenProperties
<1> HIDE DEF l
<1>6. l = n - k + 1
  BY <1>1, <1>2, <1>5
<1>7. ASSUME NEW p \in Range(low) PROVE \E i \in k..n : seq[i] = p
  <2>1. PICK j \in 1..l : low[j] = p
    BY <1>5 DEF Range
  <2>2. k + j - 1 \in k..n /\ j \in 1..(n - k + 1)
    BY <1>1, <1>2, <1>6
  <2>3. QED
    BY <1>4, <2>1, <2>2
<1>8. ASSUME NEW i \in k..n PROVE seq[i] \in Range(low)
  <2> DEFINE j == i - k + 1
  <2>1. j \in 1..l /\ j \in 1..(n - k + 1) /\ k + j - 1 = i
    BY <1>1, <1>2, <1>6
  <2> HIDE DEF j
  <2>2. low[j] = seq[i]
    BY <1>4, <2>1
  <2>3. QED
    BY <1>5, <2>1, <2>2 DEF Range
<1>9. Closed(seq, Range(low))
  <2> SUFFICES ASSUME NEW i \in 1..n, NEW j \in 1..n, i < j, seq[i] \in Range(low)
               PROVE  seq[j] \in Range(low)
    BY <1>1 DEF Closed
  <2>1. PICK a \in k..n : seq[a] = seq[i]
    BY <1>7
  <2>2. a = i
    BY <1>1, <1>2, <2>1 DEF Distinct
  <2>3. j \in k..n
    BY <1>1, <1>2, <2>2
  <2>4. QED
    BY <1>8, <2>3
<1>10. k..n \subseteq 1..n
  BY <1>1, <1>2
<1>11. QED
  BY <1>1, <1>7, <1>9, <1>10 DEF low, n

LEMMA StoreHolds ==
    ASSUME HubAssumption, HubInv, NEW s \in Syncs, Store(s) PROVE HubInv'
<1> DEFINE w == sync[s]
           r == w.repo
           value(p) == IF Merged(w.data, p) = {} THEN activity[r][p]
                       ELSE w.data[LastOf(w.data, p)][2]
<1>1. /\ w \in Walks /\ r \in Repos /\ WalkHolds(w) /\ w.step = "storing"
      /\ feed[r] \in Seq(Pulls) /\ Distinct(feed[r])
      /\ Next1(s) \in Walks /\ Clear(Next1(s))
  BY WalkTypes DEF Store
<1>2. /\ feed \in [Repos -> Seq(Pulls)] /\ version \in [Repos -> [Pulls -> Nat]]
      /\ repo \in [Repos -> RepoRecords] /\ sync \in [Syncs -> Walks]
      /\ activity \in [Repos -> [Pulls -> Nat]]
  BY DEF HubInv, HubTypes
<1>3. /\ UNCHANGED <<hub, orgPat, confirmed, cut, slid, hubMoves>>
      /\ sync' = [sync EXCEPT ![s] = Next1(s)]
  BY DEF Store
<1>4. activity' = [activity EXCEPT ![r] = [p \in Pulls |-> value(p)]]
  BY DEF Store
<1>5. PICK old \in Older(r) :
          repo' = [repo EXCEPT ![r] =
             IF Tracked(r) THEN [repo[r] EXCEPT !.status = "ok", !.old = old]
             ELSE [Untracked EXCEPT !.mode = "auto", !.status = "ok", !.old = old]]
  BY DEF Store
<1>6. PICK k \in 1..(Len(feed[r]) + 1) : old = Range(SubSeq(feed[r], k, Len(feed[r])))
  BY <1>5 DEF Older
<1>7. ASSUME NEW q \in Syncs, sync[q].repo = r PROVE old \cap sync[q].fresh = {}
  BY <1>5, <1>7 DEF Older
<1>8. /\ old \subseteq Pulls /\ Closed(feed[r], old)
      /\ \A p \in old : \E i \in DOMAIN feed[r] : feed[r][i] = p
  BY <1>1, <1>6, LowerEnd
<1>9. w.data \in Seq(Pulls \X Nat)
  BY <1>1 DEF Walks
<1> HIDE DEF w
<1>10. ASSUME NEW p \in Pulls
       PROVE  /\ value(p) \in Nat /\ value(p) <= version[r][p]
              /\ p \notin w.fresh => value(p) \in {version[r][p], activity[r][p]}
              /\ p \notin w.fresh /\ Has(w.data, p) => value(p) = version[r][p]
  <2>1. activity[r][p] \in Nat /\ version[r][p] \in Nat /\ activity[r][p] <= version[r][p]
    BY <1>1, <1>2 DEF HubInv, RepoHolds
  <2>2. CASE Merged(w.data, p) # {}
    <3> DEFINE j == LastOf(w.data, p)
    <3>1. j \in 1..Len(w.data) /\ w.data[j][1] = p
      BY <1>9, <2>2, LastOfExists DEF Merged
    <3> HIDE DEF j
    <3>2. w.data[j] \in Pulls \X Nat
      BY <1>9, <3>1, ElementOfSeq
    <3>3. (p \in w.fresh \/ w.data[j][2] = version[r][p]) /\ w.data[j][2] <= version[r][p]
      BY <1>1, <3>1 DEF WalkHolds
    <3>4. value(p) = w.data[j][2]
      BY <2>2 DEF j
    <3>5. QED
      BY <3>2, <3>3, <3>4
  <2>3. CASE Merged(w.data, p) = {}
    <3>1. value(p) = activity[r][p]
      BY <2>3
    \* The data has it, but not merged: it is not merged still, and never was stored.
    <3>2. ASSUME p \notin w.fresh, Has(w.data, p) PROVE activity[r][p] = version[r][p]
      <4>1. PICK j \in 1..Len(w.data) : w.data[j][1] = p
        BY <3>2 DEF Has
      <4>2. w.data[j] \in Pulls \X Nat
        BY <1>9, <4>1, ElementOfSeq
      <4>3. w.data[j][2] = version[r][p]
        BY <1>1, <3>2, <4>1 DEF WalkHolds
      <4>4. ~(w.data[j][2] > 0)
        BY <2>3, <4>1 DEF Merged
      <4>5. QED
        BY <2>1, <4>3, <4>4
    <3>3. QED
      BY <2>1, <3>1, <3>2
  <2>4. QED
    BY <2>2, <2>3
<1> HIDE DEF value
<1>11. /\ activity' \in [Repos -> [Pulls -> Nat]]
       /\ \A q \in Repos : q # r => activity'[q] = activity[q]
       /\ \A p \in Pulls : activity'[r][p] = value(p)
  <2> DEFINE t == [p \in Pulls |-> value(p)]
  <2>1. t \in [Pulls -> Nat] /\ \A p \in Pulls : t[p] = value(p)
    BY <1>10
  <2>2. activity' = [activity EXCEPT ![r] = t]
    BY <1>4
  <2> HIDE DEF t
  <2>3. activity' \in [Repos -> [Pulls -> Nat]] /\ activity'[r] = t
        /\ \A q \in Repos : q # r => activity'[q] = activity[q]
    BY <1>1, <1>2, <2>1, <2>2
  <2>4. QED
    BY <2>1, <2>3
\* What was stored stays so, but for what this walk has an old version of.
<1>12. ASSUME NEW p \in Pulls, p \notin w.fresh,
              Has(w.data, p) \/ activity[r][p] = version[r][p]
       PROVE  activity'[r][p] = version[r][p]
  BY <1>10, <1>11, <1>12
<1>13. PICK t \in RepoRecords :
          /\ repo' = [repo EXCEPT ![r] = t] /\ t.old = old /\ t.mode # "none"
          /\ t.seen = "private" => r \in confirmed
  <2>1. repo[r] \in RepoRecords /\ (repo[r].seen = "private" => r \in confirmed)
    BY <1>1, RepoTypes
  <2>2. CASE Tracked(r)
    <3> DEFINE t == [repo[r] EXCEPT !.status = "ok", !.old = old]
    <3>1. t \in RepoRecords /\ t.old = old /\ t.mode = repo[r].mode /\ t.seen = repo[r].seen
      BY <1>8, <2>1 DEF RepoRecords
    <3>2. repo' = [repo EXCEPT ![r] = t]
      BY <1>5, <2>2
    <3> HIDE DEF t
    <3>3. QED
      BY <2>1, <2>2, <3>1, <3>2 DEF Tracked
  <2>3. CASE ~Tracked(r)
    <3> DEFINE t == [Untracked EXCEPT !.mode = "auto", !.status = "ok", !.old = old]
    <3>1. t \in RepoRecords /\ t.old = old /\ t.mode = "auto" /\ t.seen = "unprobed"
      BY <1>8 DEF RepoRecords, Untracked, Modes, Visibility
    <3>2. repo' = [repo EXCEPT ![r] = t]
      BY <1>5, <2>3
    <3> HIDE DEF t
    <3>3. QED
      BY <3>1, <3>2
  <2>4. QED
    BY <2>2, <2>3
<1>14. /\ repo' \in [Repos -> RepoRecords]
       /\ \A q \in Repos : repo'[q] = IF q = r THEN t ELSE repo[q]
  BY <1>2, <1>13
<1>15. /\ sync' \in [Syncs -> Walks]
       /\ \A q \in Syncs : sync'[q] = IF q = s THEN Next1(s) ELSE sync[q]
  BY <1>1, <1>2, <1>3
<1>16. HubTypes'
  BY <1>3, <1>11, <1>14, <1>15 DEF HubInv, HubTypes, hub
<1>17. feed' = feed /\ version' = version /\ cut' = cut /\ confirmed' = confirmed /\ slid' = slid
  BY <1>3 DEF hub
<1>18. ASSUME NEW q \in Repos PROVE RepoHolds(q)'
  <2>1. CASE q # r
    <3>1. RepoHolds(q) /\ activity'[q] = activity[q] /\ repo'[q] = repo[q]
      BY <1>11, <1>14, <2>1 DEF HubInv
    <3>2. QED
      BY <1>17, <3>1 DEF RepoHolds, Tracked, Stored
  <2>2. CASE q = r
    <3>1. ASSUME r \notin cut, NEW p \in old, p \notin slid[r]
          PROVE  activity'[r][p] = version[r][p]
      <4>1. PICK i \in DOMAIN feed[r] : feed[r][i] = p
        BY <1>8
      <4>2. p \in w.fresh \/ Has(w.data, p) \/ p \in w.horizon
        BY <1>1, <3>1, <4>1 DEF WalkHolds, WasSeen
      <4>3. p \notin w.fresh
        BY <1>7 DEF w
      <4>4. p \in w.horizon => activity[r][p] = version[r][p]
        BY <1>1, <3>1 DEF WalkHolds, Stored
      <4>5. QED
        BY <1>8, <1>12, <4>2, <4>3, <4>4
    <3>2. \A p \in Pulls : activity'[r][p] <= version[r][p]
      BY <1>10, <1>11
    <3>3. QED
      BY <1>1, <1>8, <1>13, <1>14, <1>17, <2>2, <3>1, <3>2 DEF RepoHolds, Tracked, Stored
  <2>3. QED
    BY <2>1, <2>2
<1>19. ASSUME NEW q \in Syncs PROVE WalkHolds(sync[q])'
  <2>1. CASE q = s
    <3>1. Clear(sync'[q])
      BY <1>1, <1>15, <2>1
    <3>2. QED
      BY <3>1, ClearHolds
  <2>2. CASE q # s
    <3> DEFINE v == sync[q]
    <3>1. sync'[q] = v /\ WalkHolds(v) /\ v \in Walks /\ v.repo \in Repos
      BY <1>2, <1>15, <2>2 DEF HubInv, Walks
    <3>2. v.repo \in cut \/ \A p \in v.horizon \ slid[v.repo] : activity'[v.repo][p] = version[v.repo][p]
      <4>1. CASE v.repo # r
        BY <1>11, <3>1, <4>1 DEF WalkHolds, Stored
      <4>2. CASE v.repo = r
        <5>1. \A p \in v.horizon : p \notin w.fresh /\ p \in Pulls
          BY <3>1, <4>2 DEF HubInv, Apart, Walks, w
        <5>2. r \in cut \/ \A p \in v.horizon \ slid[r] : activity[r][p] = version[r][p]
          BY <3>1, <4>2 DEF WalkHolds, Stored
        <5>3. QED
          BY <1>12, <4>2, <5>1, <5>2
      <4>3. QED
        BY <4>1, <4>2
    <3> HIDE DEF v
    <3>3. QED
      BY <1>17, <3>1, <3>2 DEF WalkHolds, Stored
  <2>3. QED
    BY <2>1, <2>2
<1>20. Apart'
  <2> SUFFICES ASSUME NEW z \in Syncs
               PROVE  /\ repo'[sync'[z].repo].old \cap sync'[z].fresh = {}
                      /\ \A q \in Syncs : sync'[q].repo = sync'[z].repo =>
                            sync'[q].horizon \cap sync'[z].fresh = {}
    BY DEF Apart
  <2>1. Next1(s).horizon = {} /\ Next1(s).fresh = {}
    BY <1>1 DEF Clear
  <2>2. CASE z = s
    BY <1>15, <2>1, <2>2
  <2>3. CASE z # s
    <3>1. sync'[z] = sync[z] /\ sync[z].repo \in Repos
      BY <1>2, <1>15, <2>3 DEF Walks
    <3>2. repo'[sync[z].repo].old \cap sync[z].fresh = {}
      BY <1>7, <1>13, <1>14, <3>1 DEF HubInv, Apart
    <3>3. ASSUME NEW q \in Syncs, sync'[q].repo = sync[z].repo
          PROVE  sync'[q].horizon \cap sync[z].fresh = {}
      BY <1>15, <2>1, <3>3 DEF HubInv, Apart
    <3>4. QED
      BY <3>1, <3>2, <3>3
  <2>4. QED
    BY <2>2, <2>3
<1>21. QED
  BY <1>16, <1>18, <1>19, <1>20 DEF HubInv

LEMMA HubInitHolds == ASSUME HubAssumption, HubInit PROVE HubInv
<1>1. NoSync \in Walks /\ Clear(NoSync)
  BY NoSyncType
<1>2. /\ Untracked \in RepoRecords
      /\ [Untracked EXCEPT !.mode = "auto", !.status = "ok"] \in RepoRecords
      /\ [Untracked EXCEPT !.mode = "auto", !.status = "ok"].mode = "auto"
      /\ [Untracked EXCEPT !.mode = "auto", !.status = "ok"].old = {}
      /\ [Untracked EXCEPT !.mode = "auto", !.status = "ok"].seen = "unprobed"
  BY DEF Untracked, RepoRecords, Modes, Visibility
<1>3. <<>> \in Seq(Pulls) /\ DOMAIN <<>> = {} /\ 0 \in 0..MaxHub
  BY DEF HubAssumption
<1>4. HubTypes
  BY <1>1, <1>2, <1>3 DEF HubInit, HubTypes
<1>5. ASSUME NEW r \in Repos PROVE RepoHolds(r)
  <2>1. feed[r] = <<>> /\ repo[r].mode = "auto" /\ repo[r].old = {} /\ repo[r].seen = "unprobed"
    BY <1>2 DEF HubInit
  <2>2. \A p \in Pulls : activity[r][p] <= version[r][p]
    BY DEF HubInit
  <2>3. QED
    BY <1>3, <2>1, <2>2 DEF RepoHolds, Distinct, Closed, Tracked, Stored
<1>6. ASSUME NEW s \in Syncs PROVE WalkHolds(sync[s])
  <2>1. Clear(sync[s])
    BY <1>1 DEF HubInit
  <2>2. Len(<<>>) = 0
    OBVIOUS
  <2>3. \A k \in 1..Len(sync[s].data) : FALSE
    BY <2>1, <2>2 DEF Clear
  <2>4. QED
    BY <2>1, <2>3 DEF Clear, WalkHolds, Closed, Stored
<1>7. Apart
  BY <1>1 DEF HubInit, Apart, Clear
<1>8. QED
  BY <1>4, <1>5, <1>6, <1>7 DEF HubInv

LEMMA HubNextHolds == ASSUME HubAssumption, HubInv, [HubNext]_hubVars PROVE HubInv'
<1>1. CASE UNCHANGED hubVars
  BY <1>1 DEF hubVars, HubInv, HubTypes, RepoHolds, WalkHolds, Apart, Tracked, Stored
<1>2. CASE HubNext
  BY <1>2, UpdateHolds, CloseUnmergedHolds, ReopenHolds, SwitchHolds, CreateHolds, PatchHolds, DeleteRepoHolds, BeginSyncHolds,
     ResolveHolds, FetchPageHolds, RefusedHolds, StoreHolds, ExceptHolds, EndSyncHolds
     DEF HubNext, SyncGoesOn
<1>3. QED
  BY <1>1, <1>2

LEMMA HubInvariant == ASSUME HubAssumption PROVE HubSpec => []HubInv
<1>1. HubInit => HubInv
  BY HubInitHolds
<1>2. HubInv /\ [HubNext]_hubVars => HubInv'
  BY HubNextHolds
<1>3. QED
  BY <1>1, <1>2, PTL DEF HubSpec

\* Type correctness: feeds, tables and walks, a page number within the cap.
THEOREM HubTypeCorrect == ASSUME HubAssumption PROVE HubSpec => []HubTypeOK
<1>1. HubInv => HubTypeOK
  <2> SUFFICES ASSUME HubInv PROVE HubTypeOK
    OBVIOUS
  <2>1. HubTypes
    BY DEF HubInv
  <2>2. \A s \in Syncs : sync[s] \in Walks
    BY <2>1 DEF HubTypes
  <2>3. QED
    BY <2>1, <2>2 DEF HubTypes, HubTypeOK, RepoRecords, Walks
<1>2. QED
  BY <1>1, HubInvariant, PTL

\* github_sync.py:236-299: nothing below a repository's horizon is missing from
\* the table or older there than in GitHub, whatever was updated, closed or
\* reopened between two pages and however many runs overlapped, for any size of
\* the pages, but for what a reopened one has made slide to a page already read.
THEOREM NothingIsSkipped == ASSUME HubAssumption PROVE HubSpec => []NothingSkipped
<1>1. HubInv => NothingSkipped
  BY DEF HubInv, RepoHolds, Stored, NothingSkipped
<1>2. QED
  BY <1>1, HubInvariant, PTL

\* github_sync.py:19-22: the org token goes with a repository only when a probe
\* has found it private, whatever the admin has changed meanwhile.
THEOREM OrgTokensAreKept == ASSUME HubAssumption PROVE HubSpec => []OrgTokenIsKept
<1>1. HubInv => OrgTokenIsKept
  BY DEF HubInv, WalkHolds, OrgTokenIsKept
<1>2. QED
  BY <1>1, HubInvariant, PTL

-----------------------------------------------------------------------------
(* JiraSync: a tick under way always has a site left, and acts on it.       *)

Ticks == [step : {"idle", "site", "fetching"}, todo : SUBSET Sites, at : Sites,
          tokens : SUBSET Sites, probed : SUBSET Sites, keys : SUBSET Keys]

JiraInv == JiraTypeOK /\ job \in Ticks /\ (job.step # "idle" => job.todo # {})

LEMMA NoJobType == ASSUME JiraAssumption PROVE NoJob \in Ticks /\ NoJob.step = "idle"
<1>1. (CHOOSE s \in Sites : TRUE) \in Sites
  BY DEF JiraAssumption
<1>2. QED
  BY <1>1 DEF NoJob, Ticks

\* The turn of a site is over.
LEMMA PassedType ==
    ASSUME JiraAssumption, JiraInv, NEW s \in Sites, Passed(s)
    PROVE  job' \in Ticks /\ (job'.step # "idle" => job'.todo # {})
<1>1. job \in Ticks /\ Rest(s) \in SUBSET Sites
  BY DEF JiraInv, Rest, Ticks
<1>2. CASE Rest(s) = {}
  BY <1>2, NoJobType DEF Passed
<1>3. CASE Rest(s) # {}
  <2> DEFINE w == [NoJob EXCEPT !.step = "site", !.todo = Rest(s),
                                !.tokens = job.tokens, !.probed = job.probed]
  <2>1. job' = w
    BY <1>3 DEF Passed
  <2>2. w \in Ticks /\ w.todo = Rest(s)
    BY <1>1, NoJobType DEF Ticks
  <2>3. QED
    BY <1>3, <2>1, <2>2
<1>4. QED
  BY <1>2, <1>3

LEMMA DoneType ==
    ASSUME JiraAssumption, JiraInv, NEW s \in Sites,
           NEW status \in {"ok", "paused", "auth_failed"}, Done(s, status)
    PROVE  /\ job' \in Ticks /\ (job'.step # "idle" => job'.todo # {})
           /\ site' \in [Sites -> [there : BOOLEAN, token : BOOLEAN, probed : BOOLEAN,
                                   status : {"ok", "paused", "auth_failed"}]]
<1>1. job' \in Ticks /\ (job'.step # "idle" => job'.todo # {})
  BY PassedType DEF Done
<1>2. QED
  BY ZenonT(30), <1>1 DEF Done, JiraInv, JiraTypeOK

LEMMA JiraMoveType ==
    ASSUME JiraAssumption, JiraTypeOK, JiraMove PROVE jiraMoves' \in 0..MaxJira
BY DEF JiraAssumption, JiraTypeOK, JiraMove

\* The endpoints and the world leave a tick alone.
LEMMA JiraEditsHold ==
    ASSUME JiraAssumption, JiraInv,
           SetFlag \/ Refer \/ CreateSite \/ UpdateSite \/ DeleteSite \/ Revoke \/ Age \/ HoldOver
    PROVE  JiraInv'
<1>1. job' = job
  BY DEF SetFlag, Refer, CreateSite, UpdateSite, DeleteSite, Revoke, Age, HoldOver
<1>2. jiraMoves' \in 0..MaxJira
  BY JiraMoveType DEF JiraInv, JiraTypeOK, SetFlag, Refer, CreateSite, UpdateSite, DeleteSite,
     Revoke, Age, HoldOver
<1>3. jiraOn' \in BOOLEAN
  BY Zenon DEF JiraInv, JiraTypeOK, SetFlag, Refer, CreateSite, UpdateSite, DeleteSite, Revoke, Age, HoldOver
<1>4. refs' \subseteq Keys /\ valid' \subseteq Sites /\ hold' \subseteq Sites
  BY DEF jira, JiraInv, JiraTypeOK, SetFlag, Refer, CreateSite, UpdateSite, DeleteSite, Revoke, Age, HoldOver
<1>5. issue' \in [Keys -> {"none", "stale", "fresh"}]
  BY DEF JiraInv, JiraTypeOK, SetFlag, Refer, CreateSite, UpdateSite, DeleteSite, Revoke, Age, HoldOver
<1>6. site' \in [Sites -> [there : BOOLEAN, token : BOOLEAN, probed : BOOLEAN,
                             status : {"ok", "paused", "auth_failed"}]]
  <2> DEFINE Site == [there : BOOLEAN, token : BOOLEAN, probed : BOOLEAN,
                      status : {"ok", "paused", "auth_failed"}]
  <2>0. site \in [Sites -> Site] /\ NoSite \in Site
        /\ [NoSite EXCEPT !.there = TRUE, !.token = TRUE] \in Site
    BY DEF JiraInv, JiraTypeOK, NoSite
  <2>1. CASE SetFlag \/ Refer \/ HoldOver
    BY <2>0, <2>1 DEF SetFlag, Refer, HoldOver
  <2>2. CASE CreateSite
    BY <2>0, <2>2 DEF CreateSite
  <2>3. CASE UpdateSite
    <3>1. PICK s \in Sites : site' = [site EXCEPT ![s] = [site[s] EXCEPT !.token = TRUE]]
      BY <2>3 DEF UpdateSite
    <3>2. [site[s] EXCEPT !.token = TRUE] \in Site
      BY <2>0
    <3>3. QED
      BY <2>0, <3>1, <3>2
  <2>4. CASE DeleteSite
    BY <2>0, <2>4 DEF DeleteSite
  <2>5. CASE Revoke
    BY ZenonT(30), <2>0, <2>5 DEF Revoke
  <2>6. CASE Age
    <3>1. CASE UNCHANGED site
      BY <2>0, <3>1
    <3>2. CASE \E s \in Sites : site' = [site EXCEPT ![s].probed = FALSE]
      <4>1. PICK s \in Sites : site' = [site EXCEPT ![s] = [site[s] EXCEPT !.probed = FALSE]]
        BY <3>2
      <4>2. [site[s] EXCEPT !.probed = FALSE] \in Site
        BY <2>0
      <4>3. QED
        BY <2>0, <4>1, <4>2
    <3>3. QED
      BY <2>6, <3>1, <3>2 DEF Age
  <2>7. QED
    BY <2>1, <2>2, <2>3, <2>4, <2>5, <2>6
<1>7. QED
  BY <1>1, <1>2, <1>3, <1>4, <1>5, <1>6 DEF JiraInv, JiraTypeOK

LEMMA BeginTickHolds == ASSUME JiraAssumption, JiraInv, BeginTick PROVE JiraInv'
<1> DEFINE todo == {s \in Sites : site[s].there}
           tokens == {s \in Sites : site[s].token}
           probed == {s \in Sites : site[s].probed}
<1>1. todo # {} /\ todo \subseteq Sites /\ tokens \subseteq Sites /\ probed \subseteq Sites
  BY DEF BeginTick
<1>2. job' = [NoJob EXCEPT !.step = "site", !.todo = todo, !.tokens = tokens, !.probed = probed]
  BY DEF BeginTick
<1> HIDE DEF todo, tokens, probed
<1>3. job' \in Ticks /\ job'.todo # {}
  BY <1>1, <1>2, NoJobType DEF Ticks
<1>4. UNCHANGED <<jiraOn, site, jira, refs, issue, jiraMoves>>
  BY DEF BeginTick
<1>5. QED
  BY <1>3, <1>4 DEF jira, JiraInv, JiraTypeOK, Ticks

LEMMA TickHolds ==
    ASSUME JiraAssumption, JiraInv, TickGoesOn \/ RateLimited \/ Abort
    PROVE  JiraInv'
<1> DEFINE Site == [there : BOOLEAN, token : BOOLEAN, probed : BOOLEAN,
                    status : {"ok", "paused", "auth_failed"}]
<1>1. /\ job \in Ticks /\ site \in [Sites -> Site]
      /\ issue \in [Keys -> {"none", "stale", "fresh"}] /\ hold \subseteq Sites
  BY DEF JiraInv, JiraTypeOK
<1>2. jiraMoves' \in 0..MaxJira /\ UNCHANGED <<jiraOn, valid, refs>>
  BY JiraMoveType DEF JiraInv, JiraTypeOK, jira, TickGoesOn, SkipSynth, Turn, Search,
     SearchRefused, RateLimited, Abort
<1>3. /\ job' \in Ticks /\ (job'.step # "idle" => job'.todo # {})
      /\ site' \in [Sites -> Site]
      /\ issue' \in [Keys -> {"none", "stale", "fresh"}]
      /\ hold' \subseteq Sites
  <2>1. CASE SkipSynth
    <3>1. PICK s \in Sites : Passed(s)
      BY <1>1, <2>1 DEF SkipSynth, Ticks
    <3>2. UNCHANGED <<site, issue, hold>>
      BY <2>1 DEF SkipSynth, jira
    <3>3. QED
      BY <1>1, <3>1, <3>2, PassedType
  <2>2. CASE Turn
    <3>1. PICK s \in job.todo \ Synth :
             \/ Done(s, "auth_failed") \/ Done(s, "ok")
             \/ /\ job' = [job EXCEPT !.step = "fetching", !.at = s, !.keys = KeysToFetch]
                /\ UNCHANGED site
      BY <2>2, Zenon DEF Turn
    <3>2. KeysToFetch \in SUBSET Keys
      BY DEF KeysToFetch, FirstOf, Wanted, JiraInv, JiraTypeOK
    <3>3. UNCHANGED <<hold, issue>> /\ s \in Sites
      BY <1>1, <2>2 DEF Turn, jira, Ticks
    <3>4. CASE Done(s, "auth_failed") \/ Done(s, "ok")
      BY <1>1, <3>3, <3>4, DoneType
    <3>5. CASE /\ job' = [job EXCEPT !.step = "fetching", !.at = s, !.keys = KeysToFetch]
               /\ UNCHANGED site
      <4> HIDE DEF KeysToFetch
      <4>1. job' \in Ticks /\ job'.todo # {}
        BY <1>1, <3>1, <3>2, <3>3, <3>5 DEF Ticks
      <4>2. QED
        BY <1>1, <3>3, <3>5, <4>1
    <3>6. QED
      BY <3>1, <3>4, <3>5
  <2>3. CASE Search
    <3> DEFINE remaining == job.keys \ FirstOf(PageSize, job.keys)
    <3>1. job.step = "fetching" /\ job.at \in Sites
      BY <1>1, <2>3 DEF Search, Ticks
    <3>2. issue' \in [Keys -> {"none", "stale", "fresh"}] /\ hold' = hold
      BY <2>3, <1>1 DEF Search, jira
    <3>3. CASE Done(job.at, "ok")
      BY <1>1, <3>1, <3>2, <3>3, DoneType
    <3>4. CASE job' = [job EXCEPT !.keys = remaining] /\ UNCHANGED site
      <4>1. remaining \in SUBSET Keys
        BY <1>1 DEF Ticks
      <4> HIDE DEF remaining
      <4>2. job' \in Ticks /\ job'.todo # {}
        BY <1>1, <3>1, <3>4, <4>1 DEF Ticks, JiraInv
      <4>3. QED
        BY <1>1, <3>2, <3>4, <4>2
    <3>5. QED
      BY <2>3, <3>3, <3>4 DEF Search
  <2>4. CASE SearchRefused
    <3>1. job.at \in Sites /\ Done(job.at, "auth_failed") /\ UNCHANGED <<hold, issue>>
      BY <1>1, <2>4 DEF SearchRefused, jira, Ticks
    <3>2. QED
      BY <1>1, <3>1, DoneType
  <2>5. CASE RateLimited
    <3>1. job.at \in Sites /\ Done(job.at, "paused") /\ hold' = hold \cup {job.at} /\ issue' = issue
      BY <1>1, <2>5 DEF RateLimited, Ticks
    <3>2. QED
      BY <1>1, <3>1, DoneType
  <2>6. CASE Abort
    BY <1>1, <2>6, NoJobType DEF Abort, jira
  <2>7. QED
    BY <2>1, <2>2, <2>3, <2>4, <2>5, <2>6 DEF TickGoesOn
<1>4. QED
  BY <1>2, <1>3 DEF JiraInv, JiraTypeOK, Ticks

\* Type correctness: a tick knows sites and keys of the table.
THEOREM JiraTypeCorrect == ASSUME JiraAssumption PROVE JiraSpec => []JiraTypeOK
<1>1. JiraInit => JiraInv
  <2> SUFFICES ASSUME JiraInit PROVE JiraInv
    OBVIOUS
  <2>1. job \in Ticks /\ job.step = "idle"
    BY NoJobType DEF JiraInit
  <2>0. jiraMoves \in 0..MaxJira
    <3>1. jiraMoves = 0
      BY Zenon DEF JiraInit
    <3>2. QED
      BY <3>1 DEF JiraAssumption
  <2>2. site \in [Sites -> [there : BOOLEAN, token : BOOLEAN, probed : BOOLEAN,
                              status : {"ok", "paused", "auth_failed"}]]
    BY DEF JiraInit, NoSite
  <2>3. QED
    BY <2>0, <2>1, <2>2 DEF JiraInit, JiraInv, JiraTypeOK, Ticks
<1>2. JiraInv /\ [JiraNext]_jiraVars => JiraInv'
  <2> SUFFICES ASSUME JiraInv, [JiraNext]_jiraVars PROVE JiraInv'
    OBVIOUS
  <2>1. CASE UNCHANGED jiraVars
    BY <2>1 DEF jiraVars, JiraInv, JiraTypeOK
  <2>2. CASE JiraNext
    BY <2>2, JiraEditsHold, BeginTickHolds, TickHolds DEF JiraNext
  <2>3. QED
    BY <2>1, <2>2
<1>3. JiraInv => JiraTypeOK
  BY DEF JiraInv
<1>4. QED
  BY <1>1, <1>2, <1>3, PTL DEF JiraSpec

-----------------------------------------------------------------------------
(* PrMetrics: what a run has read has its types, and so have the rows that  *)
(* it computes from it, those it leaves and those it writes.                *)

RollRows == [team : Teams, at : Int, cls : Classes \cup {"all"}, n : Nat, spend : Nat]
SliceRows == [team : Teams, at : Int, cls : Classes \cup {"all"}, slice : AllSlices,
              n : Nat \ {0}, points : Nat]

Issues == Contents \cup {NoIssue}
Spends == [People -> [AllDays -> Bills \cup {0}]]
InTeams == [People -> Teams \cup {NoTeam}]
InClasses == [Prs -> Classes \cup {"none"}]

\* What a run may have seen, what it remembers of it, and what it leaves.
Snapshots ==
    [today : Days, linked : SUBSET People, team : InTeams, class : InClasses,
     prs : SUBSET Prs, spend : Spends, issue : [JiraIssues -> Issues]]

Rolls ==
    [today : Days, prs : SUBSET Prs, class : InClasses, linked : SUBSET People, team : InTeams,
     daily : SUBSET RollRows, weekly : SUBSET RollRows, slices : SUBSET SliceRows]

Lefts == [daily : SUBSET RollRows, weekly : SUBSET RollRows, jira : SUBSET SliceRows]

MetricsTypes ==
    /\ today \in Days /\ merged \subseteq Prs /\ link \subseteq People
    /\ labels \in [Prs -> SUBSET Labels] /\ team \in InTeams
    /\ daySpend \in Spends /\ jiraIssue \in [JiraIssues -> Issues]
    /\ lmap \in Range(LabelMaps) /\ put \in [step : {"idle", "flushed"}, map : Range(LabelMaps)]
    /\ class \in InClasses
    /\ daily \subseteq RollRows /\ weekly \subseteq RollRows /\ jiraWeekly \subseteq SliceRows
    /\ crun \in [Runs -> [step : {"idle", "read"}, map : Range(LabelMaps), full : BOOLEAN]]
    /\ rrun \in [Runs -> Rolls] /\ rstep \in [Runs -> Steps] /\ left \in [Runs -> Lefts]
    /\ facts \in 0..MaxFacts

LEMMA DaysAreFinite == ASSUME PrAssumption PROVE IsFiniteSet(AllDays) /\ AllDays \subseteq Nat
<1> DEFINE D == {MergedOn[p] : p \in Prs}
           f == [p \in Prs |-> MergedOn[p]]
<1>1. f \in Surjection(Prs, D)
  BY DEF Surjection
<1>2. IsFiniteSet(D)
  <2> HIDE DEF f, D
  <2>1. QED
    BY <1>1, FS_Surjection DEF PrAssumption
<1>3. D \subseteq Nat
  BY DEF PrAssumption
<1> HIDE DEF D
<1>4. AllDays = Days \cup D
  BY DEF AllDays, D
<1>5. QED
  BY <1>2, <1>3, <1>4, FS_Union DEF PrAssumption

\* Days and weeks are numbers.
LEMMA MondayType == ASSUME PrAssumption, NEW d \in Nat PROVE Monday(d) \in Int
BY DEF PrAssumption, Monday

LEMMA FloorTypes ==
    ASSUME PrAssumption, NEW d \in Days PROVE DailyFloor(d) \in Int /\ WeeklyFloor(d) \in Int
<1>1. d \in Nat /\ DailyBack \in Nat /\ WeeksBack \in Nat /\ WeekLen \in Nat
  BY DEF PrAssumption
<1>2. Monday(d) \in Int
  BY <1>1, MondayType
<1>3. WeeksBack * WeekLen \in Int
  BY <1>1
<1>4. QED
  BY <1>1, <1>2, <1>3 DEF DailyFloor, WeeklyFloor

-----------------------------------------------------------------------------
(* Classes *)

\* The first verdict of a list is one of the list, or none.
LEMMA FirstHitType ==
    ASSUME NEW n \in Nat, NEW seq, DOMAIN seq = 1..n, NEW S,
           \A i \in 1..n : seq[i] \in S \cup {"none"}
    PROVE  FirstHit(seq) \in S \cup {"none"}
<1> DEFINE hits == {i \in DOMAIN seq : seq[i] # "none"}
<1>1. CASE hits = {}
  BY <1>1 DEF FirstHit
<1>2. CASE hits # {}
  <2>1. hits \in SUBSET Nat
    OBVIOUS
  <2>2. Min(hits) \in hits
    <3> HIDE DEF hits
    <3>1. QED
      BY <1>2, <2>1, MinIsLeast
  <2>3. FirstHit(seq) = seq[Min(hits)]
    BY <1>2 DEF FirstHit
  <2>4. QED
    BY <2>2, <2>3
<1>3. QED
  BY <1>1, <1>2

LEMMA VerdictType ==
    ASSUME PrAssumption, NEW p \in Prs, NEW m
    PROVE  Verdict(p, m) \in Classes \cup {"none"}
<1> DEFINE keys == [i \in DOMAIN JiraKeys[p] |-> JiraClass(JiraKeys[p][i])]
           refd == [i \in DOMAIN IssueRefs[p] |-> IssueClass(IssueRefs[p][i], m)]
           all == <<FirstHit(keys), FirstHit(refd), MatchClass(labels[p], m), "task">>
           Some == Classes \cup {"none"}
<1>1. \A ls : MatchClass(ls, m) \in Some
  BY DEF MatchClass, Classes
<1>2. (\A k : JiraClass(k) \in Some) /\ (\A i : IssueClass(i, m) \in Some)
  BY <1>1 DEF JiraClass, IssueClass
<1>3. JiraKeys[p] \in Seq(JiraIssues) /\ IssueRefs[p] \in Seq(Prs)
  BY DEF PrAssumption
<1>4. FirstHit(keys) \in Some
  <2>1. Len(JiraKeys[p]) \in Nat /\ DOMAIN keys = 1..Len(JiraKeys[p])
    BY <1>3, LenProperties
  <2>2. \A i \in 1..Len(JiraKeys[p]) : keys[i] \in Classes \cup {"none"}
    BY <1>2, <2>1
  <2> HIDE DEF keys
  <2>3. QED
    BY <2>1, <2>2, FirstHitType
<1>5. FirstHit(refd) \in Some
  <2>1. Len(IssueRefs[p]) \in Nat /\ DOMAIN refd = 1..Len(IssueRefs[p])
    BY <1>3, LenProperties
  <2>2. \A i \in 1..Len(IssueRefs[p]) : refd[i] \in Classes \cup {"none"}
    BY <1>2, <2>1
  <2> HIDE DEF refd
  <2>3. QED
    BY <2>1, <2>2, FirstHitType
<1>6. MatchClass(labels[p], m) \in Some /\ "task" \in Some
  BY <1>1 DEF Classes
<1> HIDE DEF keys, refd
<1>7. DOMAIN all = 1..4 /\ \A i \in 1..4 : all[i] \in Classes \cup {"none"}
  BY <1>4, <1>5, <1>6
<1>8. FirstHit(all) \in Classes \cup {"none"}
  <2> HIDE DEF all
  <2>1. QED
    BY <1>7, FirstHitType
<1>9. QED
  BY <1>8 DEF Verdict, keys, refd

-----------------------------------------------------------------------------
(* Rows *)

LEMMA SpendType ==
    ASSUME PrAssumption, SharesAreWhole, NEW x \in Snapshots, NEW t, NEW d \in AllDays
    PROVE  SpendOn(x, t, d) \in Nat
<1> DEFINE U == OfTeam(x, t)
           w == [u \in U |-> x.spend[u][d]]
<1>1. U \subseteq People /\ IsFiniteSet(U)
  BY FS_Subset DEF PrAssumption, OfTeam
<1>2. \A u \in U : w[u] \in Nat
  <2>1. x.spend \in [People -> [AllDays -> Bills \cup {0}]] /\ Bills \subseteq Nat
    BY DEF Snapshots, Spends, SharesAreWhole
  <2>2. \A u \in People : x.spend[u] \in [AllDays -> Bills \cup {0}]
    BY <2>1
  <2>3. \A u \in People : x.spend[u][d] \in Nat
    <3> TAKE u \in People
    <3> DEFINE f == x.spend[u]
    <3>1. f \in [AllDays -> Bills \cup {0}]
      BY <2>2
    <3> HIDE DEF f
    <3>2. f[d] \in Bills \cup {0}
      BY <3>1
    <3>3. Bills \cup {0} \subseteq Nat
      BY <2>1
    <3>4. f[d] \in Nat
      BY <3>2, <3>3, Zenon
    <3>5. QED
      BY <3>4 DEF f
  <2>4. QED
    BY <1>1, <2>3
<1>3. Sum(w, U) \in Nat
  <2> HIDE DEF w, U
  <2>1. QED
    BY <1>1, <1>2, SumIsNat
<1>4. QED
  BY <1>3 DEF SpendOn, SumFunction, Sum

\* How many of the pull requests of a class there are.
LEMMA ShippedType ==
    ASSUME PrAssumption, NEW x \in Snapshots, NEW t, NEW cls, NEW S \in SUBSET Shipped(x, t, cls)
    PROVE  S \in SUBSET Prs /\ IsFiniteSet(S) /\ Cardinality(S) \in Nat
<1>1. S \in SUBSET Prs
  BY DEF Shipped, Snapshots
<1>2. QED
  BY <1>1, FS_Subset, FS_CardinalityType DEF PrAssumption

LEMMA ShareType ==
    ASSUME PrAssumption, SharesAreWhole, NEW x \in Snapshots, NEW t, NEW d \in AllDays, NEW cls
    PROVE  Share(x, t, d, cls) \in Nat
<1> DEFINE S == SpendOn(x, t, d)
           n(c) == Cardinality({p \in Shipped(x, t, c) : MergedOn[p] = d})
<1>1. S \in Nat /\ n("all") \in Nat /\ n(cls) \in Nat
  BY SpendType, ShippedType
<1>2. Share(x, t, d, cls) = IF cls = "all" THEN S
                            ELSE IF n("all") = 0 THEN 0 ELSE (S * n(cls)) \div n("all")
  BY DEF Share
<1>3. \A s, a, b \in Nat : b # 0 => (s * a) \div b \in Nat
  OBVIOUS
<1> HIDE DEF S, n
<1>4. QED
  BY <1>1, <1>2, <1>3

LEMMA RowType ==
    ASSUME PrAssumption, SharesAreWhole, NEW x \in Snapshots, NEW t \in Teams, NEW at \in Int,
           NEW span \in SUBSET AllDays, NEW cls \in Classes \cup {"all"}
    PROVE  RollupRow(x, t, at, span, cls) \in RollRows
<1> DEFINE w == [d \in span |-> Share(x, t, d, cls)]
           P == {p \in Shipped(x, t, cls) : MergedOn[p] \in span}
<1>1. IsFiniteSet(span) /\ \A d \in span : w[d] \in Nat
  BY DaysAreFinite, FS_Subset, ShareType
<1>2. Sum(w, span) \in Nat
  <2> HIDE DEF w
  <2>1. QED
    BY <1>1, SumIsNat
<1>3. Cardinality(P) \in Nat
  BY ShippedType
<1>4. RollupRow(x, t, at, span, cls)
         = [team |-> t, at |-> at, cls |-> cls, n |-> Cardinality(P), spend |-> Sum(w, span)]
  BY DEF RollupRow, SumFunction, Sum
<1> HIDE DEF P, w
<1>5. QED
  BY <1>2, <1>3, <1>4 DEF RollRows

LEMMA WindowType ==
    ASSUME PrAssumption, NEW x \in Snapshots
    PROVE  /\ Window(x) \subseteq AllDays /\ \A d \in Window(x) : d \in Int /\ d >= DailyFloor(x.today)
           /\ Weeks(x) \subseteq Int /\ \A w \in Weeks(x) : w >= WeeklyFloor(x.today)
<1>1. Window(x) \subseteq AllDays
  BY DEF Window
<1>2. \A d \in Window(x) : d \in Nat /\ Monday(d) \in Int
  BY <1>1, DaysAreFinite, MondayType
<1>3. x.today \in Days
  BY DEF Snapshots
<1>4. DailyFloor(x.today) \in Int
  BY <1>3, FloorTypes
<1>5. QED
  BY <1>1, <1>2, <1>4 DEF Window, Weeks

\* The row of a day.
DayRow(x, t, d, c) == RollupRow(x, t, d, {d}, c)

LEMMA DayRows ==
    ASSUME NEW x
    PROVE  /\ \A q \in DailyRows(x) : \E t \in Teams, d \in Window(x), c \in Classes \cup {"all"} :
                 q = DayRow(x, t, d, c) /\ (q.n > 0 \/ q.cls = "all")
           /\ \A t \in Teams, d \in Window(x), c \in Classes \cup {"all"} :
                 DayRow(x, t, d, c).n > 0 => DayRow(x, t, d, c) \in DailyRows(x)
<1>1. DailyRows(x)
        = Kept({DayRow(x, t, d, c) : t \in Teams, d \in Window(x), c \in Classes \cup {"all"}})
  BY SMT DEF DailyRows, DayRow
<1>2. QED
  BY <1>1 DEF Kept

LEMMA RowsType ==
    ASSUME PrAssumption, SharesAreWhole, NEW x \in Snapshots
    PROVE  /\ DailyRows(x) \subseteq RollRows /\ \A r \in DailyRows(x) : r.at >= DailyFloor(x.today)
           /\ WeeklyRows(x) \subseteq RollRows /\ \A r \in WeeklyRows(x) : r.at >= WeeklyFloor(x.today)
<1>1. ASSUME NEW r \in DailyRows(x) PROVE r \in RollRows /\ r.at >= DailyFloor(x.today)
  <2>1. PICK t \in Teams, d \in Window(x), c \in Classes \cup {"all"} : r = DayRow(x, t, d, c)
    BY DayRows
  <2>2. d \in Int /\ {d} \in SUBSET AllDays /\ d >= DailyFloor(x.today)
    BY WindowType
  <2>3. r.at = d
    BY <2>1 DEF DayRow, RollupRow
  <2>4. QED
    BY <2>1, <2>2, <2>3, RowType DEF DayRow
<1>2. ASSUME NEW r \in WeeklyRows(x) PROVE r \in RollRows /\ r.at >= WeeklyFloor(x.today)
  <2>1. PICK t \in Teams, w \in Weeks(x), c \in Classes \cup {"all"} :
              r = RollupRow(x, t, w, WeekDays(x, w), c)
    BY DEF WeeklyRows, Kept
  <2>2. w \in Int /\ WeekDays(x, w) \in SUBSET AllDays /\ w >= WeeklyFloor(x.today)
    BY WindowType DEF WeekDays
  <2>3. r.at = w
    BY <2>1 DEF RollupRow
  <2>4. QED
    BY <2>1, <2>2, <2>3, RowType
<1>3. QED
  BY <1>1, <1>2

\* The most points that any issue may have.
LEMMA MostType ==
    ASSUME PrAssumption, NEW p \in Prs
    PROVE  /\ MostPoints(p) \in Nat
           /\ JiraKeys[p] # <<>> => \A c \in Contents : c.points <= MostPoints(p)
<1> DEFINE V == {c.points : c \in Contents}
           f == [c \in Contents |-> c.points]
<1>1. V \subseteq Nat /\ IsFiniteSet(V)
  <2>1. f \in Surjection(Contents, V)
    BY DEF Surjection
  <2>2. V \subseteq Nat /\ IsFiniteSet(Contents)
    BY DEF PrAssumption
  <2> HIDE DEF f, V
  <2>3. QED
    BY <2>1, <2>2, FS_Surjection
<1>2. {0} \cup V \in SUBSET Nat /\ {0} \cup V # {} /\ IsFiniteSet({0} \cup V)
  <2> HIDE DEF V
  <2>1. IsFiniteSet({0} \cup V)
    BY <1>1, FS_Singleton, FS_Union
  <2>2. QED
    BY <1>1, <2>1
<1>3. Max({0} \cup V) \in Nat /\ \A v \in {0} \cup V : v <= Max({0} \cup V)
  <2> HIDE DEF V
  <2>1. QED
    BY <1>2, MaxIsGreatest
<1>4. CASE JiraKeys[p] = <<>>
  BY <1>4 DEF MostPoints
<1>5. CASE JiraKeys[p] # <<>>
  <2>1. MostPoints(p) = Max({0} \cup V)
    BY <1>5 DEF MostPoints
  <2>2. \A c \in Contents : c.points \in {0} \cup V
    OBVIOUS
  <2> HIDE DEF V
  <2>3. QED
    BY <1>3, <2>1, <2>2
<1>6. QED
  BY <1>4, <1>5

\* The points of a pull request are those of one of its issues, and so no
\* more than the most that any may have.
LEMMA PointsType ==
    ASSUME PrAssumption, NEW x \in Snapshots, NEW p \in Prs
    PROVE  /\ PointsOf(x, p) \in Nat /\ MostPoints(p) \in Nat /\ PointsOf(x, p) <= MostPoints(p)
           /\ \A s : Times(x, p, s) \in Nat
<1> DEFINE keys == JiraKeys[p]
<1>1. keys \in Seq(JiraIssues) /\ Len(keys) \in Nat /\ DOMAIN keys = 1..Len(keys)
  BY LenProperties DEF PrAssumption
<1>2. \A i \in DOMAIN keys : x.issue[keys[i]] \in Issues
  <2>1. \A i \in DOMAIN keys : keys[i] \in JiraIssues
    BY <1>1
  <2>2. x.issue \in [JiraIssues -> Issues]
    BY DEF Snapshots
  <2> HIDE DEF keys
  <2>3. QED
    BY <2>1, <2>2
<1>3. IsFiniteSet(DOMAIN keys) /\ DOMAIN keys \subseteq Nat
  <2> DEFINE n == Len(keys)
  <2>1. n \in Nat /\ DOMAIN keys = 1..n
    BY <1>1
  <2> HIDE DEF n, keys
  <2>2. IsFiniteSet(1..n)
    BY <2>1, FS_Interval
  <2>3. QED
    BY <2>1, <2>2
<1>4. MostPoints(p) \in Nat /\ (keys # <<>> => \A c \in Contents : c.points <= MostPoints(p))
  BY MostType
<1>5. PointsOf(x, p) = 0 \/ (keys # <<>> /\ \E c \in Contents : PointsOf(x, p) = c.points)
  <2>1. CASE Pointed(x, p) = {}
    BY <2>1 DEF PointsOf
  <2>2. CASE Pointed(x, p) # {}
    <3> DEFINE i == Min(Pointed(x, p))
    <3>1. Pointed(x, p) \in SUBSET (DOMAIN keys)
      BY DEF Pointed, Refs
    <3>2. i \in Pointed(x, p)
      BY <1>3, <2>2, <3>1, MinIsLeast
    <3>3. PointsOf(x, p) = x.issue[keys[i]].points /\ x.issue[keys[i]].points > 0
      BY <2>2, <3>1, <3>2 DEF PointsOf, Pointed, Refs, Said
    <3>4. x.issue[keys[i]] \in Issues /\ i \in DOMAIN keys
      BY <1>2, <3>1, <3>2
    <3> HIDE DEF i
    <3>5. x.issue[keys[i]] \in Contents
      BY <3>3, <3>4 DEF Issues, NoIssue
    <3>6. keys # <<>>
      BY <1>1, <3>4
    <3>7. QED
      BY <3>3, <3>5, <3>6
  <2>3. QED
    BY <2>1, <2>2
<1>6. PointsOf(x, p) \in Nat /\ PointsOf(x, p) <= MostPoints(p)
  <2>1. \A c \in Contents : c.points \in Nat
    BY DEF PrAssumption
  <2> HIDE DEF keys
  <2>2. CASE PointsOf(x, p) = 0
    BY <1>4, <2>2
  <2>3. CASE keys # <<>> /\ \E c \in Contents : PointsOf(x, p) = c.points
    BY <1>4, <2>1, <2>3
  <2>4. QED
    BY <1>5, <2>2, <2>3
<1>7. ASSUME NEW s PROVE Times(x, p, s) \in Nat
  <2>1. {i \in Refs(x, p) : Said(x, p)[i].slice = s} \in SUBSET (DOMAIN keys)
    BY DEF Refs
  <2>2. Cardinality({i \in Refs(x, p) : Said(x, p)[i].slice = s}) \in Nat
    BY <1>3, <2>1, FS_Subset, FS_CardinalityType
  <2>3. QED
    BY <2>2 DEF Times
<1>8. QED
  BY <1>4, <1>6, <1>7

LEMMA SliceRowType ==
    ASSUME PrAssumption, NEW x \in Snapshots, NEW t, NEW w, NEW c, NEW s
    PROVE  JiraRow(x, t, w, c, s).n \in Nat /\ JiraRow(x, t, w, c, s).points \in Nat
<1> DEFINE ps == {p \in Shipped(x, t, c) : Monday(MergedOn[p]) = w}
           n == [p \in ps |-> Times(x, p, s)]
           k == [p \in ps |-> IF PointSlice(x, p) = s THEN PointsOf(x, p) ELSE 0]
<1>1. ps \in SUBSET Prs /\ IsFiniteSet(ps)
  BY ShippedType
<1>2. \A p \in ps : n[p] \in Nat /\ k[p] \in Nat
  BY <1>1, PointsType
<1>3. JiraRow(x, t, w, c, s).n = Sum(n, ps) /\ JiraRow(x, t, w, c, s).points = Sum(k, ps)
  BY DEF JiraRow, SumFunction, Sum
<1> HIDE DEF ps, n, k
<1>4. QED
  BY <1>1, <1>2, <1>3, SumIsNat

LEMMA SliceRowsType ==
    ASSUME PrAssumption, NEW x \in Snapshots
    PROVE  JiraRows(x) \subseteq SliceRows /\ \A r \in JiraRows(x) : r.at >= WeeklyFloor(x.today)
<1> SUFFICES ASSUME NEW r \in JiraRows(x) PROVE r \in SliceRows /\ r.at >= WeeklyFloor(x.today)
  OBVIOUS
<1>1. PICK t \in Teams, w \in Weeks(x), c \in Classes \cup {"all"}, s \in AllSlices :
            r = JiraRow(x, t, w, c, s) /\ r.n > 0
  BY DEF JiraRows
<1>2. r.n \in Nat /\ r.points \in Nat
  BY <1>1, SliceRowType
<1>3. r = [team |-> t, at |-> w, cls |-> c, slice |-> s, n |-> r.n, points |-> r.points]
  BY <1>1 DEF JiraRow
<1>4. w \in Int /\ w >= WeeklyFloor(x.today)
  BY WindowType
<1>5. QED
  BY <1>1, <1>2, <1>3, <1>4 DEF SliceRows

-----------------------------------------------------------------------------
(* The steps *)

LEMMA FactType == ASSUME PrAssumption, MetricsTypes, Fact PROVE facts' \in 0..MaxFacts
BY DEF PrAssumption, MetricsTypes, Fact

LEMMA NoRunType ==
    ASSUME PrAssumption
    PROVE  /\ LabelMaps[1] \in Range(LabelMaps)
           /\ NoRun \in [step : {"idle", "read"}, map : Range(LabelMaps), full : BOOLEAN]
           /\ NoPut \in [step : {"idle", "flushed"}, map : Range(LabelMaps)]
BY DEF PrAssumption, Range, NoRun, NoPut

LEMMA NoRollType ==
    ASSUME PrAssumption
    PROVE  Min(Days) \in Days /\ NoRoll \in Rolls /\ NoneLeft \in Lefts
<1>1. Min(Days) \in Days
  <2>1. Days \in SUBSET Nat /\ Days # {}
    BY DEF PrAssumption
  <2>2. QED
    BY <2>1, MinIsLeast
<1>2. Nothing \in InClasses /\ [u \in People |-> NoTeam] \in InTeams
  BY DEF Nothing, InClasses, InTeams
<1>3. NoneLeft \in Lefts
  BY DEF NoneLeft, Lefts
<1>4. QED
  BY <1>1, <1>2, <1>3 DEF NoRoll, Rolls

\* The world changes none of the jobs' tables.
LEMMA WorldTypes ==
    ASSUME PrAssumption, MetricsTypes, Merge \/ IssueArrives \/ MovePerson \/ BillDay \/ NextDay
    PROVE  MetricsTypes' /\ merged \subseteq merged' /\ UNCHANGED <<tables, rrun, rstep>>
<1>1. UNCHANGED <<link, lmap, put, class, tables, crun, rrun, rstep>>
  BY DEF Jobs, Merge, IssueArrives, MovePerson, BillDay, NextDay
<1>2. facts' \in 0..MaxFacts
  BY FactType DEF Merge, IssueArrives, MovePerson, BillDay, NextDay
<1>3. /\ today' \in Days /\ merged' \subseteq Prs /\ merged \subseteq merged'
      /\ labels' \in [Prs -> SUBSET Labels] /\ team' \in InTeams
      /\ daySpend' \in Spends /\ jiraIssue' \in [JiraIssues -> Issues]
  <2>1. CASE Merge
    <3>1. PICK page \in SUBSET {p \in Prs : MergedOn[p] <= today} :
              /\ merged' = merged \cup page
              /\ \E ls \in [page -> SUBSET Labels] :
                    labels' = [p \in Prs |-> IF p \in page THEN ls[p] ELSE labels[p]]
      BY <2>1 DEF Merge
    <3>2. QED
      BY <2>1, <3>1 DEF Merge, MetricsTypes
  <2>2. CASE IssueArrives
    <3>1. PICK page \in SUBSET JiraIssues :
              \E cs \in [page -> Contents] :
                  /\ \A k \in page : cs[k] \in Says[k]
                  /\ jiraIssue' = [k \in JiraIssues |-> IF k \in page THEN cs[k] ELSE jiraIssue[k]]
      BY <2>2 DEF IssueArrives
    <3>2. jiraIssue' \in [JiraIssues -> Issues]
      BY <3>1 DEF MetricsTypes, Issues
    <3>3. QED
      BY <2>2, <3>2 DEF IssueArrives, MetricsTypes
  <2>3. CASE MovePerson
    BY <2>3 DEF MovePerson, MetricsTypes, InTeams
  <2>4. CASE BillDay
    <3>1. PICK u \in People, d \in AllDays, b \in Bills : daySpend' = [daySpend EXCEPT ![u][d] = b]
      BY <2>4 DEF BillDay
    <3> DEFINE mine == [daySpend[u] EXCEPT ![d] = b]
    <3>2. mine \in [AllDays -> Bills \cup {0}]
      BY DEF MetricsTypes, Spends
    <3>3. daySpend' = [daySpend EXCEPT ![u] = mine]
      BY <3>1
    <3> HIDE DEF mine
    <3>4. daySpend' \in Spends
      BY <3>2, <3>3 DEF MetricsTypes, Spends
    <3>5. QED
      BY <2>4, <3>4 DEF BillDay, MetricsTypes
  <2>5. CASE NextDay
    BY <2>5 DEF NextDay, MetricsTypes
  <2>6. QED
    BY <2>1, <2>2, <2>3, <2>4, <2>5
<1>4. QED
  BY <1>1, <1>2, <1>3 DEF MetricsTypes, tables

\* Classifying and the label map leave the rolled-up tables alone.
LEMMA ClassifyTypes ==
    ASSUME PrAssumption, MetricsTypes,
           PutMap \/ CommitMap \/ \E r \in Runs : BeginClassify(r) \/ EndClassify(r) \/ FailClassify(r)
    PROVE  MetricsTypes' /\ merged' = merged /\ UNCHANGED <<tables, rrun, rstep>>
<1> DEFINE Maps == Range(LabelMaps)
           Run == [step : {"idle", "read"}, map : Maps, full : BOOLEAN]
           Put == [step : {"idle", "flushed"}, map : Maps]
<1>1. crun \in [Runs -> Run] /\ put \in Put /\ lmap \in Maps
      /\ class \in InClasses /\ facts \in 0..MaxFacts
      /\ link \subseteq People
  BY DEF MetricsTypes
<1>2. NoRun \in Run /\ NoPut \in Put
  BY NoRunType
<1>3. ASSUME NEW r \in Runs, NEW full \in BOOLEAN, ReadMap(r, full) PROVE crun' \in [Runs -> Run]
  <2>1. [step |-> "read", map |-> lmap, full |-> full] \in Run
    BY <1>1
  <2>2. QED
    BY <1>1, <1>3, <2>1 DEF ReadMap
<1> HIDE DEF Run, Put, Maps
<1> DEFINE Typed == /\ crun' \in [Runs -> Run] /\ put' \in Put /\ lmap' \in Maps
                    /\ class' \in InClasses /\ facts' \in 0..MaxFacts
                    /\ link' \subseteq People
<1>4. UNCHANGED <<today, merged, labels, jiraIssue, team, daySpend, tables, rrun, rstep>>
  BY DEF outside, PutMap, CommitMap, BeginClassify, EndClassify, FailClassify
<1>5. Typed
  <2>1. CASE PutMap
    <3>1. PICK i \in DOMAIN LabelMaps, again \in BOOLEAN :
              /\ put' = [step |-> "flushed", map |-> LabelMaps[i]]
              /\ IF again /\ (HasPat \/ merged # {}) THEN \E r \in Runs \ {Timer} : ReadMap(r, TRUE)
                 ELSE UNCHANGED crun
      BY <2>1 DEF PutMap
    <3>2. put' \in Put
      BY <3>1 DEF Put, Maps, Range
    <3>3. crun' \in [Runs -> Run]
      BY <1>1, <1>3, <3>1
    <3>4. QED
      BY <1>1, <2>1, <3>2, <3>3, FactType DEF PutMap
  <2>2. CASE CommitMap
    <3>1. put.map \in Maps
      BY <1>1 DEF Put
    <3>2. QED
      BY <1>1, <1>2, <2>2, <3>1 DEF CommitMap
  <2>3. ASSUME NEW r \in Runs, BeginClassify(r) PROVE Typed
    BY <1>1, <1>3, <2>3, FactType DEF BeginClassify, ByHand
  <2>4. ASSUME NEW r \in Runs, EndClassify(r) PROVE Typed
    <3>1. \A p \in Prs : Verdict(p, crun[r].map) \in Classes \cup {"none"}
      BY VerdictType
    <3>2. class' \in InClasses
      BY <1>1, <2>4, <3>1 DEF EndClassify, InClasses
    <3>3. link' \subseteq People
      BY <1>1, <2>4 DEF EndClassify
    <3>4. QED
      BY <1>1, <1>2, <2>4, <3>2, <3>3 DEF EndClassify
  <2>5. ASSUME NEW r \in Runs, FailClassify(r) PROVE Typed
    BY <1>1, <1>2, <2>5, FactType DEF FailClassify
  <2>6. QED
    BY <2>1, <2>2, <2>3, <2>4, <2>5
<1>6. QED
  BY <1>4, <1>5 DEF MetricsTypes, tables, Run, Put, Maps

\* What a run sees is a snapshot.
LEMMA SeenType == ASSUME MetricsTypes, NEW r \in Runs PROVE Seen(r) \in Snapshots /\ Seen(r).prs = rrun[r].prs
<1>1. rrun[r] \in Rolls
  BY DEF MetricsTypes
<1>2. QED
  BY <1>1 DEF MetricsTypes, Seen, Snapshots, Rolls

\* The steps of a roll-up.
RollStep(r) ==
    \/ RollBegin(r) \/ RollRead(r) \/ DeleteDaily(r) \/ DeleteWeekly(r) \/ RollWrite(r)
    \/ ReadIssues(r) \/ DeleteSlices(r) \/ WriteSlices(r) \/ RollCollides(r) \/ RollFail(r)

LEMMA GoesTo ==
    ASSUME MetricsTypes, NEW r \in Runs, NEW step \in Steps, GoTo(r, step)
    PROVE  rstep' \in [Runs -> Steps] /\ rstep'[r] = step /\ \A q \in Runs \ {r} : rstep'[q] = rstep[q]
BY DEF MetricsTypes, GoTo

\* The steps of a roll-up that write no table.
WritesNoTable(r) ==
    \/ RollBegin(r) \/ RollRead(r) \/ DeleteDaily(r) \/ DeleteWeekly(r)
    \/ ReadIssues(r) \/ DeleteSlices(r) \/ RollCollides(r) \/ RollFail(r)

\* They change nothing of the other runs.
LEMMA QuietChanges ==
    ASSUME MetricsTypes, NEW r \in Runs, WritesNoTable(r)
    PROVE  /\ UNCHANGED <<daily, weekly, jiraWeekly, mixed>>
           /\ \A q \in Runs \ {r} : rrun'[q] = rrun[q] /\ rstep'[q] = rstep[q] /\ left'[q] = left[q]
<1>1. rrun \in [Runs -> Rolls] /\ left \in [Runs -> Lefts] /\ rstep \in [Runs -> Steps]
  BY DEF MetricsTypes
<1> USE DEF tables, GoTo
<1>2. CASE RollBegin(r)
  BY <1>1, <1>2 DEF RollBegin
<1>3. CASE RollRead(r)
  BY <1>1, <1>3 DEF RollRead
<1>4. CASE DeleteDaily(r) \/ DeleteWeekly(r) \/ DeleteSlices(r)
  BY <1>1, <1>4 DEF DeleteDaily, DeleteWeekly, DeleteSlices
<1>5. CASE ReadIssues(r)
  BY <1>1, <1>5 DEF ReadIssues
<1>6. CASE RollCollides(r) \/ RollFail(r)
  BY <1>1, <1>6 DEF RollCollides, RollFail, TakeBack
<1>7. QED
  BY <1>2, <1>3, <1>4, <1>5, <1>6 DEF WritesNoTable

\* The rows a run makes have the types of their tables.
LEMMA RollTypes ==
    ASSUME PrAssumption, SharesAreWhole, MetricsTypes, NEW r \in Runs, RollStep(r)
    PROVE  MetricsTypes' /\ merged' = merged
<1> DEFINE run == rrun[r]
<1>1. UNCHANGED <<today, merged, labels, jiraIssue, team, daySpend, link, lmap, put, class, crun>>
  BY DEF RollStep, outside, RollBegin, RollRead, DeleteDaily, DeleteWeekly, RollWrite, ReadIssues,
         DeleteSlices, WriteSlices, RollCollides, RollFail
<1>2. facts' \in 0..MaxFacts
  <2>1. facts' = facts \/ Fact
    BY DEF RollStep, RollBegin, RollRead, DeleteDaily, DeleteWeekly, RollWrite, ReadIssues,
           DeleteSlices, WriteSlices, RollCollides, RollFail, ByHand
  <2>2. QED
    BY <2>1, FactType DEF MetricsTypes
<1>3. rstep' \in [Runs -> Steps]
  <2>1. \E step \in Steps : GoTo(r, step)
    BY DEF RollStep, RollBegin, RollRead, DeleteDaily, DeleteWeekly, RollWrite, ReadIssues,
           DeleteSlices, WriteSlices, RollCollides, RollFail, TakeBack, Steps
  <2>2. QED
    BY <2>1, GoesTo
<1>4. /\ run \in Rolls /\ run.today \in Days /\ run.prs \in SUBSET Prs /\ run.class \in InClasses
      /\ run.linked \in SUBSET People /\ run.team \in InTeams
      /\ run.daily \in SUBSET RollRows /\ run.weekly \in SUBSET RollRows /\ run.slices \in SUBSET SliceRows
  <2>1. run \in Rolls
    BY DEF MetricsTypes
  <2> HIDE DEF run
  <2>2. QED
    BY <2>1 DEF Rolls
<1>5. rrun \in [Runs -> Rolls] /\ left \in [Runs -> Lefts]
  BY DEF MetricsTypes
<1>6. NoRoll \in Rolls /\ NoneLeft \in Lefts
  BY NoRollType
<1>7. rrun' \in [Runs -> Rolls]
  <2>1. CASE RollBegin(r)
    <3>1. [NoRoll EXCEPT !.today = today, !.linked = link] \in Rolls
      BY <1>6 DEF MetricsTypes, Rolls
    <3>2. QED
      BY <1>5, <2>1, <3>1 DEF RollBegin
  <2>2. CASE RollRead(r)
    <3>1. CASE rstep[r] = "links"
      <4>1. rrun' = [rrun EXCEPT ![r].team = team] /\ team \in InTeams
        BY <2>2, <3>1 DEF RollRead, MetricsTypes
      <4>2. [run EXCEPT !.team = team] \in Rolls
        BY <1>4, <4>1 DEF Rolls
      <4>3. QED
        BY <1>5, <4>1, <4>2
    <3>2. CASE rstep[r] = "users"
      <4>1. rrun' = [rrun EXCEPT ![r].class = class] /\ class \in InClasses
        BY <2>2, <3>2 DEF RollRead, MetricsTypes
      <4>2. [run EXCEPT !.class = class] \in Rolls
        BY <1>4, <4>1 DEF Rolls
      <4>3. QED
        BY <1>5, <4>1, <4>2
    <3>3. CASE rstep[r] = "classes"
      <4> DEFINE ps == {p \in merged : MergedOn[p] >= DailyFloor(rrun[r].today)}
      <4>1. rrun' = [rrun EXCEPT ![r].prs = ps] /\ ps \in SUBSET Prs
        BY <2>2, <3>3 DEF RollRead, MetricsTypes
      <4> HIDE DEF ps
      <4>2. [run EXCEPT !.prs = ps] \in Rolls
        BY <1>4, <4>1 DEF Rolls
      <4>3. QED
        BY <1>5, <4>1, <4>2
    <3>4. CASE rstep[r] = "prs"
      <4> DEFINE d == DailyRows(Seen(r))
                 w == WeeklyRows(Seen(r))
      <4>1. rrun' = [rrun EXCEPT ![r].daily = d, ![r].weekly = w]
        BY <2>2, <3>4 DEF RollRead
      <4>2. d \in SUBSET RollRows /\ w \in SUBSET RollRows
        BY SeenType, RowsType
      <4> HIDE DEF d, w
      <4>3. [run EXCEPT !.daily = d, !.weekly = w] \in Rolls
        BY <1>4, <4>2 DEF Rolls
      <4>4. QED
        BY <1>5, <4>1, <4>3
    <3>5. QED
      BY <2>2, <3>1, <3>2, <3>3, <3>4 DEF RollRead
  <2>3. CASE DeleteDaily(r) \/ DeleteWeekly(r) \/ DeleteSlices(r)
    BY <1>5, <2>3 DEF DeleteDaily, DeleteWeekly, DeleteSlices
  <2>4. CASE RollWrite(r)
    <3>1. [run EXCEPT !.daily = {}, !.weekly = {}] \in Rolls
      BY <1>4 DEF Rolls
    <3>2. QED
      BY <1>5, <2>4, <3>1 DEF RollWrite
  <2>5. CASE ReadIssues(r)
    <3> DEFINE new == JiraRows(Seen(r))
    <3>1. rrun' = [rrun EXCEPT ![r] = [NoRoll EXCEPT !.today = run.today, !.slices = new]]
      BY <2>5 DEF ReadIssues
    <3>2. new \in SUBSET SliceRows
      BY SeenType, SliceRowsType
    <3> HIDE DEF new
    <3>3. [NoRoll EXCEPT !.today = run.today, !.slices = new] \in Rolls
      BY <1>4, <1>6, <3>2 DEF Rolls
    <3>4. QED
      BY <1>5, <3>1, <3>3
  <2>6. CASE WriteSlices(r) \/ RollCollides(r) \/ RollFail(r)
    BY <1>5, <1>6, <2>6 DEF WriteSlices, RollCollides, RollFail, TakeBack
  <2>7. QED
    BY <2>1, <2>2, <2>3, <2>4, <2>5, <2>6 DEF RollStep
<1>8. /\ daily \in SUBSET RollRows /\ weekly \in SUBSET RollRows /\ jiraWeekly \in SUBSET SliceRows
      /\ \A q \in Runs : /\ left[q].daily \in SUBSET RollRows /\ left[q].weekly \in SUBSET RollRows
                        /\ left[q].jira \in SUBSET SliceRows
  BY <1>5 DEF MetricsTypes, Lefts
<1>9. left' \in [Runs -> Lefts] /\ daily' \in SUBSET RollRows /\ weekly' \in SUBSET RollRows
      /\ jiraWeekly' \in SUBSET SliceRows
  <2>1. CASE RollBegin(r) \/ RollRead(r) \/ ReadIssues(r)
    BY <1>5, <1>8, <2>1 DEF RollBegin, RollRead, ReadIssues, tables
  <2>2. CASE DeleteDaily(r) \/ DeleteWeekly(r) \/ DeleteSlices(r)
    <3>1. UNCHANGED <<daily, weekly, jiraWeekly>>
      BY <2>2 DEF DeleteDaily, DeleteWeekly, DeleteSlices
    <3>2. \A f : /\ OlderRows(daily, f) \in SUBSET RollRows /\ OlderRows(weekly, f) \in SUBSET RollRows
                /\ OlderRows(jiraWeekly, f) \in SUBSET SliceRows
      BY <1>8 DEF OlderRows
    <3>3. \A T \in SUBSET RollRows : /\ [left[r] EXCEPT !.daily = T] \in Lefts
                                    /\ [left[r] EXCEPT !.weekly = T] \in Lefts
      BY <1>5 DEF Lefts
    <3>4. \A T \in SUBSET SliceRows : [left[r] EXCEPT !.jira = T] \in Lefts
      BY <1>5 DEF Lefts
    <3>5. CASE DeleteDaily(r)
      BY <1>5, <1>8, <3>1, <3>2, <3>3, <3>5 DEF DeleteDaily
    <3>6. CASE DeleteWeekly(r)
      BY <1>5, <1>8, <3>1, <3>2, <3>3, <3>6 DEF DeleteWeekly
    <3>7. CASE DeleteSlices(r)
      BY <1>5, <1>8, <3>1, <3>2, <3>4, <3>7 DEF DeleteSlices
    <3>8. QED
      BY <2>2, <3>5, <3>6, <3>7
  <2>3. CASE RollWrite(r)
    <3>1. \A q \in Runs : left'[q] \in Lefts
      <4> TAKE q \in Runs
      <4>1. CASE q = r
        BY <1>5, <1>6, <2>3, <4>1 DEF RollWrite
      <4>2. CASE q # r
        <5> DEFINE d == IF rstep[q] \in {"daily", "weekly"}
                        THEN LeftBy(left[q].daily, left[r].daily, run.daily) ELSE {}
                   w == IF rstep[q] = "weekly"
                        THEN LeftBy(left[q].weekly, left[r].weekly, run.weekly) ELSE {}
        <5>1. left'[q] = [daily |-> d, weekly |-> w, jira |-> left[q].jira]
          BY <2>3, <4>2 DEF RollWrite
        <5>2. d \in SUBSET RollRows /\ w \in SUBSET RollRows
          BY <1>4, <1>8 DEF LeftBy
        <5> HIDE DEF d, w
        <5>3. QED
          BY <1>8, <5>1, <5>2 DEF Lefts
      <4>3. QED
        BY <4>1, <4>2
    <3>2. DOMAIN left' = Runs /\ left' = [q \in Runs |-> left'[q]]
      BY <2>3 DEF RollWrite
    <3>3. daily' = left[r].daily \cup run.daily /\ weekly' = left[r].weekly \cup run.weekly
          /\ jiraWeekly' = jiraWeekly
      BY <2>3 DEF RollWrite
    <3> HIDE DEF run
    <3>4. left' \in [Runs -> Lefts]
      BY <3>1, <3>2
    <3>5. QED
      BY <1>4, <1>8, <3>3, <3>4
  <2>4. CASE WriteSlices(r)
    <3>1. \A q \in Runs : left'[q] \in Lefts
      <4> TAKE q \in Runs
      <4>1. CASE q = r \/ rstep[q] # "slices"
        BY <1>5, <1>6, <2>4, <4>1 DEF WriteSlices
      <4>2. CASE q # r /\ rstep[q] = "slices"
        <5> DEFINE j == LeftBy(left[q].jira, left[r].jira, run.slices)
        <5>1. left'[q] = [left[q] EXCEPT !.jira = j]
          BY <2>4, <4>2 DEF WriteSlices
        <5>2. j \in SUBSET SliceRows
          BY <1>4, <1>8 DEF LeftBy
        <5> HIDE DEF j
        <5>3. QED
          BY <1>5, <5>1, <5>2 DEF Lefts
      <4>3. QED
        BY <4>1, <4>2
    <3>2. DOMAIN left' = Runs /\ left' = [q \in Runs |-> left'[q]]
      BY <2>4 DEF WriteSlices
    <3>3. jiraWeekly' = left[r].jira \cup run.slices /\ daily' = daily /\ weekly' = weekly
      BY <2>4 DEF WriteSlices
    <3> HIDE DEF run
    <3>4. left' \in [Runs -> Lefts]
      BY <3>1, <3>2
    <3>5. QED
      BY <1>4, <1>8, <3>3, <3>4
  <2>5. CASE RollCollides(r) \/ RollFail(r)
    BY <1>5, <1>6, <1>8, <2>5 DEF RollCollides, RollFail, TakeBack
  <2>6. QED
    BY <2>1, <2>2, <2>3, <2>4, <2>5 DEF RollStep
<1>10. QED
  BY <1>1, <1>2, <1>3, <1>7, <1>9 DEF MetricsTypes


LEMMA MetricsTypesInit == ASSUME PrAssumption, MetricsInit PROVE MetricsTypes
<1>1. today \in Days
  BY NoRollType DEF MetricsInit
<1>2. team \in InTeams
  <2>1. (CHOOSE t \in Teams : TRUE) \in Teams
    BY DEF PrAssumption
  <2>2. team = [u \in People |-> CHOOSE t \in Teams : TRUE]
    BY Zenon DEF MetricsInit
  <2>3. QED
    BY <2>1, <2>2 DEF InTeams
<1>3. daySpend \in Spends /\ jiraIssue \in [JiraIssues -> Issues]
  <2>1. daySpend = NoSpend /\ jiraIssue = [k \in JiraIssues |-> NoIssue]
    BY Zenon DEF MetricsInit
  <2>2. QED
    BY <2>1 DEF NoSpend, Spends, Issues
<1>4. /\ lmap \in Range(LabelMaps) /\ put \in [step : {"idle", "flushed"}, map : Range(LabelMaps)]
      /\ crun \in [Runs -> [step : {"idle", "read"}, map : Range(LabelMaps), full : BOOLEAN]]
  <2>1. lmap = LabelMaps[1] /\ put = NoPut /\ crun = [r \in Runs |-> NoRun]
    BY Zenon DEF MetricsInit
  <2>2. QED
    BY <2>1, NoRunType
<1>5. rrun \in [Runs -> Rolls] /\ rstep \in [Runs -> Steps] /\ left \in [Runs -> Lefts]
  <2>1. /\ rrun = [r \in Runs |-> NoRoll] /\ left = [r \in Runs |-> NoneLeft]
        /\ rstep = [r \in Runs |-> "idle"]
    BY Zenon DEF MetricsInit
  <2>2. NoRoll \in Rolls /\ NoneLeft \in Lefts /\ "idle" \in Steps
    BY NoRollType DEF Steps
  <2>3. QED
    BY <2>1, <2>2
<1>6. facts \in 0..MaxFacts
  <2>1. facts = 0 /\ MaxFacts \in Nat
    BY Zenon DEF MetricsInit, PrAssumption
  <2>2. QED
    BY <2>1
<1>7. /\ labels \in [Prs -> SUBSET Labels] /\ class \in InClasses
  <2>1. labels = [p \in Prs |-> {}] /\ class = Nothing
    BY Zenon DEF MetricsInit
  <2>2. QED
    BY <2>1 DEF Nothing, InClasses
<1>8. merged = {} /\ link = {} /\ daily = {} /\ weekly = {} /\ jiraWeekly = {}
  BY Zenon DEF MetricsInit
<1>9. QED
  BY <1>1, <1>2, <1>3, <1>4, <1>5, <1>6, <1>7, <1>8 DEF MetricsTypes

LEMMA MetricsNextTypes ==
    ASSUME PrAssumption, SharesAreWhole, MetricsTypes, [MetricsNext]_metricsVars
    PROVE  MetricsTypes'
<1>1. CASE UNCHANGED metricsVars
  BY <1>1 DEF metricsVars, MetricsTypes
<1>2. CASE MetricsNext
  BY <1>2, WorldTypes, ClassifyTypes, RollTypes DEF MetricsNext, RollStep
<1>3. QED
  BY <1>1, <1>2

LEMMA MetricsTyped == ASSUME PrAssumption, SharesAreWhole PROVE MetricsSpec => []MetricsTypes
<1>1. MetricsInit => MetricsTypes
  BY MetricsTypesInit
<1>2. MetricsTypes /\ [MetricsNext]_metricsVars => MetricsTypes'
  BY MetricsNextTypes
<1>3. QED
  BY <1>1, <1>2, PTL DEF MetricsSpec

\* Type correctness: rows of teams and classes, with numbers in them.
THEOREM MetricsTypeCorrect ==
    ASSUME PrAssumption, SharesAreWhole PROVE MetricsSpec => []MetricsTypeOK
<1>1. MetricsTypes => MetricsTypeOK
  <2> SUFFICES ASSUME MetricsTypes PROVE MetricsTypeOK
    OBVIOUS
  <2>1. \A r \in Runs : crun[r].step \in {"idle", "read"}
    BY DEF MetricsTypes
  <2>2. \A r \in Runs : rstep[r] \in Steps
    BY DEF MetricsTypes
  <2>3. \A r \in daily \cup weekly : r.team \in Teams /\ r.cls \in Classes \cup {"all"}
    BY DEF MetricsTypes, RollRows
  <2>4. \A r \in jiraWeekly : r.n \in Nat \ {0} /\ r.points \in Nat
    BY DEF MetricsTypes, SliceRows
  <2>5. QED
    BY <2>1, <2>2, <2>3, <2>4 DEF MetricsTypes, MetricsTypeOK, InTeams, InClasses
<1>2. QED
  BY <1>1, MetricsTyped, PTL

-----------------------------------------------------------------------------
(* What a run books of a day or week: every pull request of a team is in    *)
(* one class, and the shares of a day divide its bill exactly.              *)

\* The pull requests a row counts.
Counted(x, t, c, span) == {p \in Shipped(x, t, c) : MergedOn[p] \in span}

LEMMA ClassesPartition ==
    ASSUME PrAssumption, NEW x \in Snapshots, NEW t, NEW span
    PROVE  /\ \A c : /\ Cardinality(Counted(x, t, c, span)) \in Nat
                     /\ Cardinality(Counted(x, t, c, span)) = 0 => Counted(x, t, c, span) = {}
           /\ Cardinality(Counted(x, t, "all", span)) \in 0..Cardinality(Prs)
           /\ Cardinality(Counted(x, t, "all", span))
                = Cardinality(Counted(x, t, "bug", span)) + Cardinality(Counted(x, t, "story", span))
                    + Cardinality(Counted(x, t, "task", span))
<1> DEFINE C(c) == Counted(x, t, c, span)
<1>1. \A c : C(c) \in SUBSET Prs /\ IsFiniteSet(C(c)) /\ Cardinality(C(c)) \in Nat
  <2> TAKE c
  <2>1. C(c) \in SUBSET Shipped(x, t, c)
    BY DEF Counted
  <2>2. QED
    BY <2>1, ShippedType
<1>2. \A p \in Prs : ClassOf(x, p) \in Classes
  BY DEF Snapshots, InClasses, ClassOf, Classes
<1>3. /\ C("all") = (C("bug") \cup C("story")) \cup C("task")
      /\ C("bug") \cap C("story") = {}
      /\ (C("bug") \cup C("story")) \cap C("task") = {}
  <2>1. x.prs \in SUBSET Prs
    BY DEF Snapshots
  <2>2. \A p \in Prs : ClassOf(x, p) # "all"
    BY <1>2 DEF Classes
  <2>3. QED
    BY <1>2, <2>1, <2>2 DEF Counted, Shipped, Classes
<1>4. \A c : Cardinality(C(c)) = 0 => C(c) = {}
  BY <1>1, FS_EmptySet
<1>5. Cardinality({}) = 0
  BY FS_EmptySet
<1>6. Cardinality(C("all")) <= Cardinality(Prs) /\ Cardinality(Prs) \in Nat
  BY <1>1, FS_Subset, FS_CardinalityType DEF PrAssumption
<1> DEFINE BS == C("bug") \cup C("story")
<1> HIDE DEF C
<1>7. IsFiniteSet(BS) /\ Cardinality(BS) = Cardinality(C("bug")) + Cardinality(C("story"))
  <2>1. Cardinality(BS) = Cardinality(C("bug")) + Cardinality(C("story")) - Cardinality(C("bug") \cap C("story"))
    BY <1>1, FS_Union
  <2>2. IsFiniteSet(BS)
    BY <1>1, FS_Union
  <2>3. Cardinality(C("bug") \cap C("story")) = 0
    BY <1>3, <1>5
  <2>4. Cardinality(C("bug")) \in Nat /\ Cardinality(C("story")) \in Nat
    BY <1>1
  <2> HIDE DEF BS
  <2>5. QED
    BY ONLY <2>1, <2>2, <2>3, <2>4
<1>8. Cardinality(C("all")) = Cardinality(BS) + Cardinality(C("task"))
  <2>1. C("all") = BS \cup C("task") /\ BS \cap C("task") = {}
    BY <1>3
  <2> HIDE DEF BS
  <2>2. Cardinality(BS \cup C("task"))
          = Cardinality(BS) + Cardinality(C("task")) - Cardinality(BS \cap C("task"))
    BY <1>1, <1>7, FS_Union
  <2>3. Cardinality(BS) \in Nat
    BY <1>7, FS_CardinalityType
  <2>4. Cardinality(BS \cap C("task")) = 0 /\ Cardinality(C("task")) \in Nat
    BY <1>1, <1>5, <2>1
  <2>5. Cardinality(BS \cup C("task")) = Cardinality(BS) + Cardinality(C("task"))
    BY ONLY <2>2, <2>3, <2>4
  <2>6. QED
    BY <2>1, <2>5, Zenon
<1> HIDE DEF BS
<1>9. Cardinality(C("all"))
        = Cardinality(C("bug")) + Cardinality(C("story")) + Cardinality(C("task"))
  BY <1>7, <1>8
<1>10. Cardinality(C("all")) \in 0..Cardinality(Prs)
  BY <1>1, <1>6
<1>11. QED
  BY <1>1, <1>4, <1>9, <1>10 DEF C

\* What a team is billed for a day divides by any number of pull requests.
LEMMA SpendDivides ==
    ASSUME PrAssumption, SharesAreWhole, NEW x \in Snapshots, NEW t, NEW d \in AllDays,
           NEW n \in 1..Cardinality(Prs)
    PROVE  \E k \in Nat : SpendOn(x, t, d) = n * k
<1> DEFINE U == OfTeam(x, t)
           w == [u \in U |-> x.spend[u][d]]
           v == [u \in U |-> CHOOSE k \in Nat : w[u] = n * k]
<1>1. U \subseteq People /\ IsFiniteSet(U)
  BY FS_Subset DEF PrAssumption, OfTeam
<1>2. n \in Nat
  BY FS_CardinalityType DEF PrAssumption
<1>3. \A u \in U : \E k \in Nat : w[u] = n * k
  <2> TAKE u \in U
  <2> DEFINE f == x.spend[u]
  <2>1. f \in [AllDays -> Bills \cup {0}]
    BY <1>1 DEF Snapshots, Spends
  <2> HIDE DEF f
  <2>2. f[d] \in Bills \cup {0}
    BY <2>1
  <2>3. CASE f[d] = 0
    <3>1. 0 \in Nat /\ f[d] = n * 0
      BY <1>2, <2>3
    <3>2. QED
      BY <3>1 DEF f
  <2>4. CASE f[d] \in Bills
    <3>1. PICK k \in 0..f[d] : f[d] = n * k
      BY <2>4 DEF SharesAreWhole
    <3>2. f[d] \in Nat
      BY <2>4 DEF SharesAreWhole
    <3>3. k \in Nat /\ w[u] = n * k
      BY <3>1, <3>2 DEF f
    <3>4. QED
      BY <3>3
  <2>5. QED
    BY <2>2, <2>3, <2>4
<1>4. \A u \in U : v[u] \in Nat /\ w[u] = n * v[u]
  <2> HIDE DEF w
  <2>1. QED
    BY <1>3
<1>5. Sum(w, U) = n * Sum(v, U) /\ Sum(v, U) \in Nat
  <2> HIDE DEF w, v, U
  <2>1. QED
    BY <1>1, <1>2, <1>4, SumTimes, SumIsNat
<1>6. SpendOn(x, t, d) = Sum(w, U)
  BY DEF SpendOn, SumFunction, Sum
<1> HIDE DEF w, v, U
<1>7. QED
  BY <1>5, <1>6

\* The shares of a day: nothing without a pull request, and all of it with one.
LEMMA SharesOfDay ==
    ASSUME PrAssumption, SharesAreWhole, NEW x \in Snapshots, NEW t, NEW d \in AllDays
    PROVE  LET n(c) == Cardinality(Counted(x, t, c, {d}))
               s(c) == Share(x, t, d, c) IN
           /\ s("bug") \in Nat /\ s("story") \in Nat /\ s("task") \in Nat /\ s("all") \in Nat
           /\ \A c \in Classes : n(c) = 0 => s(c) = 0
           /\ s("bug") + s("story") + s("task") <= s("all")
           /\ n("all") > 0 => s("bug") + s("story") + s("task") = s("all")
<1> DEFINE n(c) == Cardinality(Counted(x, t, c, {d}))
           s(c) == Share(x, t, d, c)
           S == SpendOn(x, t, d)
<1>1. /\ \A c : n(c) \in Nat
      /\ n("all") = n("bug") + n("story") + n("task") /\ n("all") \in 0..Cardinality(Prs)
  BY ClassesPartition
<1>2. \A c : s(c) = IF c = "all" THEN S ELSE IF n("all") = 0 THEN 0 ELSE (S * n(c)) \div n("all")
  <2>1. \A c : {p \in Shipped(x, t, c) : MergedOn[p] = d} = Counted(x, t, c, {d})
    BY DEF Counted
  <2>2. QED
    BY <2>1 DEF Share
<1>3. S \in Nat /\ \A c : s(c) \in Nat
  BY SpendType, ShareType
<1>4. Cardinality(Prs) \in Nat
  BY FS_CardinalityType DEF PrAssumption
<1>5. CASE n("all") = 0
  <2> HIDE DEF n, s, S
  <2>1. \A c \in Classes : s(c) = 0
    BY <1>2, <1>5 DEF Classes
  <2>2. s("bug") = 0 /\ s("story") = 0 /\ s("task") = 0
    BY <2>1 DEF Classes
  <2>3. s("bug") + s("story") + s("task") <= s("all")
    BY <1>3, <2>2
  <2>4. QED
    BY <1>3, <1>5, <2>1, <2>3 DEF n, s
<1>6. CASE n("all") # 0
  <2>1. n("all") \in 1..Cardinality(Prs)
    <3> HIDE DEF n
    <3>1. QED
      BY <1>1, <1>4, <1>6
  <2>2. PICK k \in Nat : S = n("all") * k
    BY <2>1, SpendDivides
  <2> HIDE DEF n, s, S
  <2>3. \A a, b, c \in Nat : a # 0 => (a * b * c) \div a = b * c
    OBVIOUS
  <2>4. \A c \in Classes : s(c) = k * n(c)
    <3> TAKE c \in Classes
    <3>1. s(c) = (S * n(c)) \div n("all")
      BY <1>2, <1>6 DEF Classes
    <3>2. QED
      BY <1>1, <1>6, <2>2, <2>3, <3>1
  <2>5. s("bug") = k * n("bug") /\ s("story") = k * n("story") /\ s("task") = k * n("task")
    BY <2>4 DEF Classes
  <2>6. \A a, b, c \in Nat : k * a + k * b + k * c = (a + b + c) * k
    OBVIOUS
  <2>7. s("bug") + s("story") + s("task") = n("all") * k
    BY <1>1, <2>5, <2>6
  <2>8. s("all") = S
    BY <1>2
  <2>9. \A c \in Classes : n(c) = 0 => s(c) = 0
    BY <2>4
  <2>10. s("bug") + s("story") + s("task") <= s("all")
    BY <1>3, <2>2, <2>7, <2>8
  <2>11. QED
    BY <1>3, <2>2, <2>7, <2>8, <2>9, <2>10 DEF n, s
<1>7. QED
  BY <1>5, <1>6


\* The rows of the classes have the numbers of the row of all.
LEMMA RowsBalance ==
    ASSUME PrAssumption, SharesAreWhole, NEW x \in Snapshots, NEW t, NEW at,
           NEW span \in SUBSET AllDays
    PROVE  LET rowOf(c) == RollupRow(x, t, at, span, c) IN
           /\ rowOf("all").n = rowOf("bug").n + rowOf("story").n + rowOf("task").n
           /\ rowOf("bug").spend + rowOf("story").spend + rowOf("task").spend <= rowOf("all").spend
           /\ \A c \in Classes : rowOf(c).n = 0 => rowOf(c).spend = 0
           /\ (rowOf("all").n > 0 /\ \E d \in AllDays : span = {d})
                 => rowOf("bug").spend + rowOf("story").spend + rowOf("task").spend = rowOf("all").spend
<1> DEFINE rowOf(c) == RollupRow(x, t, at, span, c)
           s(c) == [d \in span |-> Share(x, t, d, c)]
           two == [d \in span |-> Share(x, t, d, "bug") + Share(x, t, d, "story")]
           three == [d \in span |-> Share(x, t, d, "bug") + Share(x, t, d, "story") + Share(x, t, d, "task")]
<1>1. \A c : rowOf(c).n = Cardinality(Counted(x, t, c, span)) /\ rowOf(c).spend = Sum(s(c), span)
  BY DEF RollupRow, Counted, SumFunction, Sum
<1>2. IsFiniteSet(span)
  BY DaysAreFinite, FS_Subset
<1>3. \A d \in span : /\ \A c : Share(x, t, d, c) \in Nat
                      /\ three[d] <= Share(x, t, d, "all")
  BY ShareType, SharesOfDay
<1>4. rowOf("bug").spend + rowOf("story").spend + rowOf("task").spend <= rowOf("all").spend
  <2>1. \A d \in span : /\ s("bug")[d] \in Nat /\ s("story")[d] \in Nat /\ s("task")[d] \in Nat
                        /\ two[d] = s("bug")[d] + s("story")[d]
                        /\ three[d] = two[d] + s("task")[d]
                        /\ s("all")[d] \in Nat /\ three[d] <= s("all")[d]
    BY <1>3
  <2>2. \A d \in span : two[d] \in Nat /\ three[d] \in Nat
    BY <1>3
  <2> HIDE DEF s, two, three
  <2>3. Sum(two, span) = Sum(s("bug"), span) + Sum(s("story"), span)
    BY <1>2, <2>1, SumPlus
  <2>4. Sum(three, span) = Sum(two, span) + Sum(s("task"), span)
    BY <1>2, <2>1, <2>2, SumPlus
  <2>5. Sum(three, span) <= Sum(s("all"), span)
    BY <1>2, <2>1, <2>2, SumLeq
  <2>6. QED
    BY <1>1, <2>3, <2>4, <2>5
<1>5. ASSUME NEW c \in Classes, rowOf(c).n = 0 PROVE rowOf(c).spend = 0
  <2>1. Counted(x, t, c, span) = {}
    BY <1>1, <1>5, ClassesPartition
  <2>2. ASSUME NEW d \in span PROVE Share(x, t, d, c) = 0
    <3>1. Counted(x, t, c, {d}) = {}
      BY <2>1 DEF Counted
    <3>2. Cardinality(Counted(x, t, c, {d})) = 0
      BY <3>1, FS_EmptySet
    <3>3. d \in AllDays
      OBVIOUS
    <3>4. QED
      BY <3>2, <3>3, SharesOfDay
  <2>3. \A d \in span : s(c)[d] = 0
    BY <2>2
  <2>4. Sum(s(c), span) = 0
    <3> HIDE DEF s
    <3>1. QED
      BY <1>2, <2>3, SumOfZeros
  <2>5. QED
    BY <1>1, <2>4
<1>6. ASSUME rowOf("all").n > 0, NEW d \in AllDays, span = {d}
      PROVE  rowOf("bug").spend + rowOf("story").spend + rowOf("task").spend = rowOf("all").spend
  <2>1. \A c : Sum(s(c), span) = Share(x, t, d, c)
    <3> TAKE c
    <3>1. s(c)[d] = Share(x, t, d, c) /\ s(c)[d] \in Nat
      BY <1>3, <1>6
    <3> HIDE DEF s
    <3>2. QED
      BY <1>6, <3>1, SumOfSingle
  <2>2. Cardinality(Counted(x, t, "all", {d})) > 0
    BY <1>1, <1>6
  <2>3. Share(x, t, d, "bug") + Share(x, t, d, "story") + Share(x, t, d, "task") = Share(x, t, d, "all")
    BY <2>2, SharesOfDay
  <2>4. QED
    BY <1>1, <2>1, <2>3
<1>7. rowOf("all").n = rowOf("bug").n + rowOf("story").n + rowOf("task").n
  BY <1>1, ClassesPartition
<1>8. QED
  BY <1>4, <1>5, <1>6, <1>7

-----------------------------------------------------------------------------
(* Tables whose classes add up *)

\* The row of all and the rows of the classes say the same.
Balanced(r, parts, exact) ==
    LET money == SumFunction([q \in parts |-> q.spend]) IN
    /\ SumFunction([q \in parts |-> q.n]) = r.n
    /\ money <= r.spend
    /\ exact /\ r.n > 0 => money = r.spend

AddsUp(table, exact) ==
    \A r \in table : r.cls = "all" => Balanced(r, Parts(table, r), exact)

LEMMA PartsBalance ==
    ASSUME NEW r \in RollRows, NEW b \in RollRows, NEW s \in RollRows, NEW k \in RollRows,
           b # s, s # k, b # k, NEW exact \in BOOLEAN,
           r.n = b.n + s.n + k.n, b.spend + s.spend + k.spend <= r.spend,
           \A q \in {b, s, k} : q.n = 0 => q.spend = 0,
           exact /\ r.n > 0 => b.spend + s.spend + k.spend = r.spend
    PROVE  Balanced(r, {q \in {b, s, k} : q.n > 0}, exact)
<1> DEFINE T == {b, s, k}
           parts == {q \in T : q.n > 0}
           n == [q \in T |-> q.n]
           m == [q \in T |-> q.spend]
           np == [q \in parts |-> q.n]
           mp == [q \in parts |-> q.spend]
<1>1. \A q \in RollRows : q.n \in Nat /\ q.spend \in Nat
  BY DEF RollRows
<1>2. \A q \in T : n[q] \in Nat /\ m[q] \in Nat
  BY <1>1
<1>3. parts \in SUBSET T /\ \A q \in T \ parts : n[q] = 0 /\ m[q] = 0
  BY <1>1
<1>4. \A q \in parts : np[q] = n[q] /\ mp[q] = m[q] /\ n[q] \in Nat /\ m[q] \in Nat
  BY <1>2
<1>5. n[b] = b.n /\ n[s] = s.n /\ n[k] = k.n /\ m[b] = b.spend /\ m[s] = s.spend /\ m[k] = k.spend
  OBVIOUS
<1>6. IsFiniteSet(T) /\ Sum(n, T) = b.n + s.n + k.n /\ Sum(m, T) = b.spend + s.spend + k.spend
  <2>1. AreThree(b, s, k, T) /\ (\A q \in T : n[q] \in Nat) /\ (\A q \in T : m[q] \in Nat)
    BY <1>2 DEF AreThree
  <2> HIDE DEF n, m, T
  <2>2. IsFiniteSet(T) /\ Sum(n, T) = n[b] + n[s] + n[k]
    BY <2>1, SumOfThree
  <2>3. Sum(m, T) = m[b] + m[s] + m[k]
    BY <2>1, SumOfThree
  <2>4. QED
    BY <1>5, <2>2, <2>3
<1>7. Sum(np, parts) = Sum(n, T) /\ Sum(mp, parts) = Sum(m, T)
  <2> HIDE DEF n, m, np, mp, parts, T
  <2>1. IsFiniteSet(parts)
    BY <1>3, <1>6, FS_Subset
  <2>2. Sum(np, parts) = Sum(n, parts) /\ Sum(mp, parts) = Sum(m, parts)
    BY <1>4, <2>1, SameSum
  <2>3. Sum(n, parts) = Sum(n, T) /\ Sum(m, parts) = Sum(m, T)
    BY <1>2, <1>3, <1>6, SumOfPart
  <2>4. QED
    BY <2>2, <2>3
<1>8. SumFunction(np) = r.n /\ SumFunction(mp) = b.spend + s.spend + k.spend
  BY <1>6, <1>7 DEF SumFunction, Sum
<1>9. QED
  BY <1>8 DEF Balanced

\* A table written for one snapshot, from the days each date stands for.
WrittenFrom(table, x, A, span, exact) ==
    /\ A \subseteq Int /\ span \in [A -> SUBSET AllDays]
    /\ exact => \A a \in A : \E d \in AllDays : span[a] = {d}
    /\ \A q \in table : \E t \in Teams, a \in A, c \in Classes \cup {"all"} :
          q = RollupRow(x, t, a, span[a], c) /\ (q.n > 0 \/ q.cls = "all")
    /\ \A t \in Teams, a \in A, c \in Classes \cup {"all"} :
          RollupRow(x, t, a, span[a], c).n > 0 => RollupRow(x, t, a, span[a], c) \in table

LEMMA NewRowsAddUp ==
    ASSUME PrAssumption, SharesAreWhole, NEW x \in Snapshots, NEW A, NEW span,
           NEW exact \in BOOLEAN, NEW table, WrittenFrom(table, x, A, span, exact)
    PROVE  AddsUp(table, exact)
<1>0. /\ A \subseteq Int /\ span \in [A -> SUBSET AllDays]
      /\ exact => \A a \in A : \E d \in AllDays : span[a] = {d}
  BY DEF WrittenFrom
<1> SUFFICES ASSUME NEW r \in table, r.cls = "all" PROVE Balanced(r, Parts(table, r), exact)
  BY DEF AddsUp
<1>1. \A q \in table : \E t \in Teams, a \in A, c \in Classes \cup {"all"} :
          /\ q = RollupRow(x, t, a, span[a], c) /\ q.team = t /\ q.at = a /\ q.cls = c
          /\ q.n > 0 \/ c = "all"
  <2> TAKE q \in table
  <2>1. PICK t \in Teams, a \in A, c \in Classes \cup {"all"} :
              q = RollupRow(x, t, a, span[a], c) /\ (q.n > 0 \/ q.cls = "all")
    BY DEF WrittenFrom
  <2>2. q.team = t /\ q.at = a /\ q.cls = c
    BY <2>1 DEF RollupRow
  <2>3. QED
    BY <2>1, <2>2
<1>2. PICK t \in Teams, a \in A : r = RollupRow(x, t, a, span[a], "all") /\ r.team = t /\ r.at = a
  BY <1>1
<1> DEFINE rowOf(c) == RollupRow(x, t, a, span[a], c)
           b == rowOf("bug")
           s == rowOf("story")
           k == rowOf("task")
<1>3. \A c \in Classes \cup {"all"} : rowOf(c) \in RollRows /\ rowOf(c).cls = c /\ rowOf(c).team = t /\ rowOf(c).at = a
  <2>1. a \in Int /\ span[a] \in SUBSET AllDays
    BY <1>0
  <2>2. QED
    BY <2>1, RowType DEF RollupRow
<1>4. Parts(table, r) = {q \in {b, s, k} : q.n > 0}
  <2>1. ASSUME NEW q \in Parts(table, r) PROVE q \in {b, s, k} /\ q.n > 0
    <3>1. q \in table /\ q.team = t /\ q.at = a /\ q.cls # "all"
      BY <1>2 DEF Parts
    <3>2. q = rowOf(q.cls) /\ q.cls \in Classes /\ q.n > 0
      BY <1>1, <3>1
    <3>3. QED
      BY <3>2 DEF Classes
  <2>2. ASSUME NEW q \in {b, s, k}, q.n > 0 PROVE q \in Parts(table, r)
    <3>1. PICK c \in Classes : q = rowOf(c)
      BY DEF Classes
    <3>2. q \in table
      BY <2>2, <3>1 DEF WrittenFrom
    <3>3. q.team = t /\ q.at = a /\ q.cls # "all"
      BY <1>3, <3>1 DEF Classes
    <3> HIDE DEF rowOf
    <3>4. QED
      BY <1>2, <3>2, <3>3 DEF Parts
  <2> HIDE DEF b, s, k
  <2>3. QED
    BY <2>1, <2>2
<1>5. /\ rowOf("all").n = b.n + s.n + k.n
      /\ b.spend + s.spend + k.spend <= rowOf("all").spend
      /\ \A c \in Classes : rowOf(c).n = 0 => rowOf(c).spend = 0
      /\ exact /\ rowOf("all").n > 0 => b.spend + s.spend + k.spend = rowOf("all").spend
  <2>1. span[a] \in SUBSET AllDays
    BY <1>0
  <2>2. exact => \E d \in AllDays : span[a] = {d}
    BY <1>0
  <2>3. QED
    BY ZenonT(30), <2>1, <2>2, RowsBalance
<1>6. b \in RollRows /\ s \in RollRows /\ k \in RollRows /\ r \in RollRows /\ b # s /\ s # k /\ b # k
  <2>1. b.cls = "bug" /\ s.cls = "story" /\ k.cls = "task"
    BY <1>3 DEF Classes
  <2>2. b \in RollRows /\ s \in RollRows /\ k \in RollRows /\ r \in RollRows
    BY <1>2, <1>3 DEF Classes
  <2> HIDE DEF b, s, k
  <2>3. QED
    BY <2>1, <2>2
<1>7. \A q \in {b, s, k} : q.n = 0 => q.spend = 0
  BY <1>5 DEF Classes
<1>8. r = rowOf("all")
  BY <1>2
<1> HIDE DEF b, s, k, rowOf
<1>9. QED
  BY <1>4, <1>5, <1>6, <1>7, <1>8, PartsBalance


\* Every row has beside it the row of all.
HasAll(table) ==
    \A q \in table : \E r \in table : r.team = q.team /\ r.at = q.at /\ r.cls = "all"

Good(table, exact) == AddsUp(table, exact) /\ HasAll(table)

LEMMA NewRowsHaveAll ==
    ASSUME PrAssumption, SharesAreWhole, NEW x \in Snapshots, NEW A, NEW span,
           NEW exact \in BOOLEAN, NEW table, WrittenFrom(table, x, A, span, exact)
    PROVE  HasAll(table)
<1> SUFFICES ASSUME NEW q \in table
             PROVE  \E r \in table : r.team = q.team /\ r.at = q.at /\ r.cls = "all"
  BY DEF HasAll
<1>1. PICK t \in Teams, a \in A, c \in Classes \cup {"all"} :
            q = RollupRow(x, t, a, span[a], c) /\ (q.n > 0 \/ q.cls = "all")
  BY DEF WrittenFrom
<1> DEFINE rowOf(cls) == RollupRow(x, t, a, span[a], cls)
<1>2. \A cls : rowOf(cls).team = t /\ rowOf(cls).at = a /\ rowOf(cls).cls = cls
  BY DEF RollupRow
<1>3. CASE c = "all"
  BY <1>1, <1>2, <1>3
<1>4. CASE c # "all"
  <2>1. span[a] \in SUBSET AllDays /\ a \in Int /\ c \in Classes /\ rowOf(c).n > 0
    BY <1>1, <1>2, <1>4 DEF WrittenFrom
  <2>2. rowOf("all").n = rowOf("bug").n + rowOf("story").n + rowOf("task").n
    <3>1. exact => \E d \in AllDays : span[a] = {d}
      BY DEF WrittenFrom
    <3>2. QED
      BY ZenonT(30), <2>1, <3>1, RowsBalance
  <2>3. rowOf("bug").n \in Nat /\ rowOf("story").n \in Nat /\ rowOf("task").n \in Nat
    <3>1. \A cls \in {"bug", "story", "task"} : rowOf(cls) \in RollRows
      BY <2>1, RowType DEF Classes
    <3> HIDE DEF rowOf
    <3>2. QED
      BY <3>1 DEF RollRows
  <2>4. c = "bug" \/ c = "story" \/ c = "task"
    BY <2>1 DEF Classes
  <2> HIDE DEF rowOf
  <2>5. rowOf("all").n > 0
    BY <2>1, <2>2, <2>3, <2>4
  <2> USE DEF rowOf
  <2>6. rowOf("all") \in table
    BY <2>5 DEF WrittenFrom
  <2>7. q = rowOf(c)
    BY <1>1
  <2> HIDE DEF rowOf
  <2>8. QED
    BY <1>2, <2>6, <2>7
<1>5. QED
  BY <1>3, <1>4

LEMMA DailyAddUp ==
    ASSUME PrAssumption, SharesAreWhole, NEW x \in Snapshots PROVE Good(DailyRows(x), TRUE)
<1> DEFINE A == Window(x)
           span == [d \in A |-> {d}]
           table == DailyRows(x)
<1>1. A \subseteq Int /\ A \subseteq AllDays
  BY WindowType
<1>2. span \in [A -> SUBSET AllDays] /\ \A d \in A : \E e \in AllDays : span[d] = {e}
  BY <1>1
<1>3. ASSUME NEW q \in table
      PROVE  \E t \in Teams, a \in A, c \in Classes \cup {"all"} :
                 q = RollupRow(x, t, a, span[a], c) /\ (q.n > 0 \/ q.cls = "all")
  <2>1. PICK t \in Teams, d \in A, c \in Classes \cup {"all"} :
              q = DayRow(x, t, d, c) /\ (q.n > 0 \/ q.cls = "all")
    BY DayRows
  <2>2. span[d] = {d}
    OBVIOUS
  <2> HIDE DEF span, A, table
  <2>3. QED
    BY <2>1, <2>2 DEF DayRow
<1>4. ASSUME NEW t \in Teams, NEW a \in A, NEW c \in Classes \cup {"all"}, RollupRow(x, t, a, span[a], c).n > 0
      PROVE  RollupRow(x, t, a, span[a], c) \in table
  <2>1. RollupRow(x, t, a, span[a], c) = DayRow(x, t, a, c)
    BY DEF DayRow
  <2> HIDE DEF span
  <2>2. DayRow(x, t, a, c).n > 0
    BY <1>4, <2>1
  <2>3. DayRow(x, t, a, c) \in table
    BY <2>2, DayRows
  <2>4. QED
    BY <2>1, <2>3
<1> HIDE DEF A, span, table
<1>5. WrittenFrom(table, x, A, span, TRUE)
  BY <1>1, <1>2, <1>3, <1>4 DEF WrittenFrom
<1>6. Good(table, TRUE)
  BY <1>5, NewRowsAddUp, NewRowsHaveAll DEF Good
<1>7. QED
  BY <1>6 DEF table

LEMMA WeeklyAddUp ==
    ASSUME PrAssumption, SharesAreWhole, NEW x \in Snapshots PROVE Good(WeeklyRows(x), FALSE)
<1> DEFINE A == Weeks(x)
           span == [w \in A |-> WeekDays(x, w)]
           table == WeeklyRows(x)
<1>1. A \subseteq Int
  BY WindowType
<1>2. span \in [A -> SUBSET AllDays]
  <2>1. \A w \in A : WeekDays(x, w) \in SUBSET AllDays
    BY WindowType DEF WeekDays
  <2> HIDE DEF A
  <2>2. QED
    BY <2>1
<1>3. ASSUME NEW q \in table
      PROVE  \E t \in Teams, a \in A, c \in Classes \cup {"all"} :
                 q = RollupRow(x, t, a, span[a], c) /\ (q.n > 0 \/ q.cls = "all")
  <2>1. PICK t \in Teams, a \in A, c \in Classes \cup {"all"} :
              q = RollupRow(x, t, a, WeekDays(x, a), c) /\ (q.n > 0 \/ q.cls = "all")
    BY DEF WeeklyRows, Kept
  <2>2. span[a] = WeekDays(x, a)
    OBVIOUS
  <2>3. QED
    BY <2>1, <2>2
<1>4. ASSUME NEW t \in Teams, NEW a \in A, NEW c \in Classes \cup {"all"}, RollupRow(x, t, a, span[a], c).n > 0
      PROVE  RollupRow(x, t, a, span[a], c) \in table
  <2>1. span[a] = WeekDays(x, a)
    OBVIOUS
  <2>2. QED
    BY <1>4, <2>1 DEF WeeklyRows, Kept
<1> HIDE DEF A, span, table
<1>5. WrittenFrom(table, x, A, span, FALSE)
  BY <1>1, <1>2, <1>3, <1>4 DEF WrittenFrom
<1>6. Good(table, FALSE)
  BY <1>5, NewRowsAddUp, NewRowsHaveAll DEF Good
<1>7. QED
  BY <1>6 DEF table

\* Of every day or week of a table, all rows or none.
Part(mine, table) ==
    /\ mine \subseteq table
    /\ \A a \in mine, b \in table : a.team = b.team /\ a.at = b.at => b \in mine

LEMMA OlderIsPart == ASSUME NEW table, NEW floor PROVE Part(OlderRows(table, floor), table)
BY DEF OlderRows, Part

LEMMA PartIsGood ==
    ASSUME NEW table, NEW mine, NEW exact, Good(table, exact), Part(mine, table)
    PROVE  Good(mine, exact)
<1>1. AddsUp(mine, exact)
  <2> SUFFICES ASSUME NEW r \in mine, r.cls = "all" PROVE Balanced(r, Parts(mine, r), exact)
    BY DEF AddsUp
  <2>1. r \in table /\ Parts(mine, r) = Parts(table, r)
    BY DEF Part, Parts
  <2>2. QED
    BY <2>1 DEF Good, AddsUp
<1>2. HasAll(mine)
  BY DEF Good, HasAll, Part
<1>3. QED
  BY <1>1, <1>2 DEF Good

\* Rows that do not collide are of different days: both have a row of all.
LEMMA NothingShared ==
    ASSUME NEW old, NEW new, HasAll(old), HasAll(new), ~Clash(old, new),
           NEW a \in old, NEW b \in new
    PROVE  ~(a.team = b.team /\ a.at = b.at)
<1> SUFFICES ASSUME a.team = b.team, a.at = b.at PROVE FALSE
  OBVIOUS
<1>1. PICK r \in old : r.team = a.team /\ r.at = a.at /\ r.cls = "all"
  BY DEF HasAll
<1>2. PICK q \in new : q.team = b.team /\ q.at = b.at /\ q.cls = "all"
  BY DEF HasAll
<1>3. SameKey(r, q)
  BY <1>1, <1>2 DEF SameKey
<1>4. QED
  BY <1>3 DEF Clash

\* What a run leaves of a table and what it inserts, if it can, add up.
LEMMA MergeIsGood ==
    ASSUME NEW old, NEW new, NEW exact, Good(old, exact), Good(new, exact), ~Clash(old, new)
    PROVE  Good(old \cup new, exact)
<1> DEFINE T == old \cup new
<1>1. \A a \in old, b \in new : ~(a.team = b.team /\ a.at = b.at)
  BY NothingShared DEF Good
<1>2. AddsUp(T, exact)
  <2> SUFFICES ASSUME NEW r \in T, r.cls = "all" PROVE Balanced(r, Parts(T, r), exact)
    BY DEF AddsUp
  <2>1. CASE r \in old
    <3>1. Parts(T, r) = Parts(old, r)
      BY <1>1, <2>1 DEF Parts
    <3>2. QED
      BY <2>1, <3>1 DEF Good, AddsUp
  <2>2. CASE r \in new
    <3>1. Parts(T, r) = Parts(new, r)
      BY <1>1, <2>2 DEF Parts
    <3>2. QED
      BY <2>2, <3>1 DEF Good, AddsUp
  <2>3. QED
    BY <2>1, <2>2
<1>3. HasAll(T)
  BY DEF Good, HasAll
<1>4. QED
  BY <1>2, <1>3 DEF Good

\* Another run still keeps whole days.
LEMMA MergeIsPart ==
    ASSUME NEW table, NEW old, NEW new, NEW mine, HasAll(old), HasAll(new), ~Clash(old, new),
           Part(old, table), Part(mine, table)
    PROVE  Part(LeftBy(mine, old, new), old \cup new)
<1> DEFINE M == LeftBy(mine, old, new)
<1>1. \A a \in old, b \in new : ~(a.team = b.team /\ a.at = b.at)
  BY NothingShared
<1>2. M \subseteq old \cup new
  BY DEF LeftBy
<1>3. ASSUME NEW a \in M, NEW b \in old \cup new, a.team = b.team, a.at = b.at PROVE b \in M
  <2>1. CASE b \in new
    BY <2>1 DEF LeftBy
  <2>2. CASE b \in old
    <3>1. a \in mine \cap old
      BY <1>1, <1>3, <2>2 DEF LeftBy
    <3>2. b \in table /\ b \in mine
      BY <1>3, <2>2, <3>1 DEF Part
    <3>3. QED
      BY <2>2, <3>2 DEF LeftBy
  <2>3. QED
    BY <2>1, <2>2
<1>4. QED
  BY <1>2, <1>3 DEF Part

-----------------------------------------------------------------------------
(* Points: each pull request books its points under one slice *)

\* The points the pull requests of a week have at most.
Most(prs, w) ==
    LET ps == {p \in prs : Monday(MergedOn[p]) = w} IN SumFunction([p \in ps |-> MostPoints(p)])

Booked(table, t, w) == SumFunction([r \in AllRow(table, t, w) |-> r.points])

LEMMA MoreHaveMore ==
    ASSUME PrAssumption, NEW P \in SUBSET Prs, NEW Q \in SUBSET P, NEW w
    PROVE  Most(P, w) \in Nat /\ Most(Q, w) \in Nat /\ Most(Q, w) <= Most(P, w)
<1> DEFINE W(S) == {p \in S : Monday(MergedOn[p]) = w}
           f(S) == [p \in W(S) |-> MostPoints(p)]
<1>1. W(P) \in SUBSET Prs /\ W(Q) \in SUBSET W(P)
  OBVIOUS
<1>2. IsFiniteSet(W(P)) /\ IsFiniteSet(W(Q))
  BY <1>1, FS_Subset DEF PrAssumption
<1>3. /\ \A p \in W(P) : f(P)[p] \in Nat
      /\ \A p \in W(Q) : f(P)[p] \in Nat /\ f(Q)[p] = f(P)[p] /\ f(Q)[p] \in Nat
  BY <1>1, MostType
<1>4. Most(P, w) = Sum(f(P), W(P)) /\ Most(Q, w) = Sum(f(Q), W(Q))
  BY DEF Most, SumFunction, Sum
<1> HIDE DEF W, f
<1>5. Sum(f(Q), W(Q)) = Sum(f(P), W(Q))
  BY <1>2, <1>3, SameSum
<1>6. Sum(f(P), W(Q)) <= Sum(f(P), W(P))
  BY <1>1, <1>2, <1>3, SumOfPart
<1>7. Sum(f(P), W(P)) \in Nat /\ Sum(f(Q), W(Q)) \in Nat
  BY <1>2, <1>3, SumIsNat
<1>8. QED
  BY <1>4, <1>5, <1>6, <1>7

LEMMA SlicesAreFinite == ASSUME PrAssumption PROVE IsFiniteSet(AllSlices)
<1> DEFINE D == {c.slice : c \in Contents}
           f == [c \in Contents |-> c.slice]
<1>1. f \in Surjection(Contents, D)
  BY DEF Surjection
<1>2. IsFiniteSet(D)
  <2> HIDE DEF f, D
  <2>1. QED
    BY <1>1, FS_Surjection DEF PrAssumption
<1>3. AllSlices = D \cup {"none"}
  BY DEF AllSlices
<1> HIDE DEF D
<1>4. QED
  BY <1>2, <1>3, FS_AddElement

\* Summed over its slices, a week has no more points than its pull requests.
LEMMA NewPoints ==
    ASSUME PrAssumption, NEW x \in Snapshots, NEW t \in Teams, NEW w \in Int
    PROVE  /\ Booked(JiraRows(x), t, w) \in Nat
           /\ Booked(JiraRows(x), t, w) <= Most(x.prs, w)
<1> DEFINE R == AllRow(JiraRows(x), t, w)
           P == {p \in Shipped(x, t, "all") : Monday(MergedOn[p]) = w}
           a == [r \in R |-> [p \in P |-> IF PointSlice(x, p) = r.slice THEN PointsOf(x, p) ELSE 0]]
           pts == [r \in R |-> r.points]
           byRow == [r \in R |-> Sum(a[r], P)]
           col(p) == [r \in R |-> a[r][p]]
           byPr == [p \in P |-> Sum(col(p), R)]
           most == [p \in P |-> MostPoints(p)]
<1>1. \A r \in R : r.slice \in AllSlices /\ r = JiraRow(x, t, w, "all", r.slice)
  <2> TAKE r \in R
  <2>1. PICK t1 \in Teams, w1 \in Weeks(x), c \in Classes \cup {"all"}, s \in AllSlices :
              r = JiraRow(x, t1, w1, c, s)
    BY DEF AllRow, JiraRows
  <2>2. r.team = t1 /\ r.at = w1 /\ r.cls = c /\ r.slice = s
    BY <2>1 DEF JiraRow
  <2>3. r.team = t /\ r.at = w /\ r.cls = "all"
    BY DEF AllRow
  <2>4. QED
    BY <2>1, <2>2, <2>3
<1>2. IsFiniteSet(R)
  <2> DEFINE S == {s \in AllSlices : \E r \in R : r.slice = s}
             f == [s \in S |-> JiraRow(x, t, w, "all", s)]
  <2>1. IsFiniteSet(S)
    BY SlicesAreFinite, FS_Subset
  <2>2. f \in Surjection(S, R)
    <3>1. \A s \in S : f[s] \in R
      BY <1>1
    <3>2. \A r \in R : r.slice \in S /\ f[r.slice] = r
      BY <1>1
    <3>3. f \in [S -> R]
      BY <3>1
    <3> HIDE DEF f, R, S
    <3>4. QED
      BY <3>2, <3>3 DEF Surjection
  <2> HIDE DEF f, R, S
  <2>3. QED
    BY <2>1, <2>2, FS_Surjection
<1>3. P \in SUBSET Prs /\ IsFiniteSet(P) /\ P \in SUBSET {p \in x.prs : Monday(MergedOn[p]) = w}
  <2>1. P \in SUBSET {p \in x.prs : Monday(MergedOn[p]) = w}
    BY DEF Shipped
  <2>2. P \in SUBSET Prs
    BY <2>1 DEF Snapshots
  <2> HIDE DEF P
  <2>3. IsFiniteSet(P)
    BY <2>2, FS_Subset DEF PrAssumption
  <2>4. QED
    BY <2>1, <2>2, <2>3
<1>4. \A r \in R, p \in P : a[r][p] = (IF PointSlice(x, p) = r.slice THEN PointsOf(x, p) ELSE 0)
  OBVIOUS
<1>5. \A p \in P : PointsOf(x, p) \in Nat /\ most[p] \in Nat /\ PointsOf(x, p) <= most[p]
  BY <1>3, PointsType
<1>6. \A r \in R, p \in P : a[r][p] \in Nat /\ a[r][p] <= PointsOf(x, p)
  BY <1>4, <1>5
<1>7. \A r \in R : pts[r] = byRow[r] /\ byRow[r] \in Nat
  <2> TAKE r \in R
  <2> DEFINE k == [p \in P |-> IF PointSlice(x, p) = r.slice THEN PointsOf(x, p) ELSE 0]
  <2>1. r.points = Sum(k, P)
    <3>1. JiraRow(x, t, w, "all", r.slice).points = Sum(k, P)
      BY DEF JiraRow, SumFunction, Sum
    <3>2. QED
      BY <1>1, <3>1
  <2>2. a[r] = k
    OBVIOUS
  <2>3. \A p \in P : a[r][p] \in Nat
    BY <1>6
  <2>4. Sum(a[r], P) \in Nat
    <3> HIDE DEF a, P
    <3>1. QED
      BY <1>3, <2>3, SumIsNat
  <2>5. QED
    BY <2>1, <2>2, <2>4
<1>8. Sum(pts, R) = Sum(byRow, R) /\ Sum(pts, R) \in Nat
  <2> HIDE DEF pts, byRow, R
  <2>1. QED
    BY <1>2, <1>7, SameSum, SumIsNat
<1>9. Sum(byRow, R) = Sum(byPr, P)
  <2> HIDE DEF a, P, R
  <2>1. QED
    BY <1>2, <1>3, <1>6, SumExchange
<1>10. \A p \in P : byPr[p] \in Nat /\ byPr[p] <= most[p]
  <2> TAKE p \in P
  <2>1. \A r \in R : col(p)[r] \in Nat /\ col(p)[r] <= PointsOf(x, p)
    BY <1>6
  <2>2. \A r, q \in R : col(p)[r] # 0 /\ col(p)[q] # 0 => r = q
    <3> SUFFICES ASSUME NEW r \in R, NEW q \in R, col(p)[r] # 0, col(p)[q] # 0 PROVE r = q
      OBVIOUS
    <3>1. r.slice = PointSlice(x, p) /\ q.slice = PointSlice(x, p)
      BY <1>4
    <3>2. QED
      BY <1>1, <3>1
  <2>3. Sum(col(p), R) \in Nat /\ Sum(col(p), R) <= PointsOf(x, p)
    <3>1. PointsOf(x, p) \in Nat
      BY <1>5
    <3> HIDE DEF col, R
    <3>2. QED
      BY <1>2, <2>1, <2>2, <3>1, SumIsNat, SumOfOne
  <2>4. PointsOf(x, p) \in Nat /\ most[p] \in Nat /\ PointsOf(x, p) <= most[p] /\ byPr[p] = Sum(col(p), R)
    BY <1>5
  <2> HIDE DEF col, R, most, byPr
  <2>5. QED
    BY <2>3, <2>4
<1>11. Sum(byPr, P) <= Sum(most, P) /\ Sum(byPr, P) \in Nat /\ Sum(most, P) \in Nat
  <2>1. \A p \in P : byPr[p] \in Nat /\ most[p] \in Nat /\ byPr[p] <= most[p]
    BY <1>5, <1>10
  <2> HIDE DEF byPr, most, P
  <2>2. QED
    BY <1>3, <2>1, SumLeq, SumIsNat
<1>12. Sum(most, P) <= Most(x.prs, w) /\ Most(x.prs, w) \in Nat
  <2> DEFINE W == {p \in x.prs : Monday(MergedOn[p]) = w}
  <2>1. x.prs \in SUBSET Prs
    BY DEF Snapshots
  <2>2. P \in SUBSET W /\ P \in SUBSET Prs
    BY <1>3
  <2>3. Sum(most, P) = Most(P, w)
    <3>1. P = {p \in P : Monday(MergedOn[p]) = w}
      OBVIOUS
    <3> HIDE DEF P
    <3>2. QED
      BY <3>1 DEF Most, SumFunction, Sum
  <2>4. P \in SUBSET x.prs
    BY <2>2
  <2> HIDE DEF P, most
  <2>5. QED
    BY <2>1, <2>3, <2>4, MoreHaveMore
<1>13. Booked(JiraRows(x), t, w) = Sum(pts, R)
  BY DEF Booked, SumFunction, Sum
<1> HIDE DEF pts, R, byPr, most, P
<1>14. QED
  BY <1>8, <1>9, <1>11, <1>12, <1>13


-----------------------------------------------------------------------------
(* The tables add up.  Whole days are rows of one run, and what it has read *)
(* has no pull request that is not in github_activity.  A week's slices may *)
(* be rows of two: those weeks are in `mixed'.                              *)

\* No other week has more points booked than its pull requests have.
PointsHold(table, prs, but) ==
    \A t \in Teams, w \in Int \ but : /\ Booked(table, t, w) \in Nat
                                      /\ Booked(table, t, w) <= Most(prs, w)

\* All rows before a week.
KeepsOld(mine, table, floor) == mine \subseteq table /\ \A q \in table : q.at < floor => q \in mine

\* A run, its step and what it leaves of the three tables.
RunGood(run, step, mine, days, weeks, slices, prs) ==
    /\ run.prs \subseteq prs
    /\ Good(run.daily, TRUE) /\ Good(run.weekly, FALSE)
    /\ PointsHold(run.slices, prs, {}) /\ \A q \in run.slices : q.at >= WeeklyFloor(run.today)
    /\ step \in {"daily", "weekly"} => Part(mine.daily, days)
    /\ step = "weekly" => Part(mine.weekly, weeks)
    /\ step = "slices" => KeepsOld(mine.jira, slices, WeeklyFloor(run.today))

RunsGood == \A r \in Runs : RunGood(rrun[r], rstep[r], left[r], daily, weekly, jiraWeekly, merged)

TotalsInv ==
    /\ MetricsTypes
    /\ Good(daily, TRUE) /\ Good(weekly, FALSE)
    /\ PointsHold(jiraWeekly, merged, mixed)
    /\ RunsGood

LEMMA NothingIsBooked == ASSUME NEW t, NEW w PROVE Booked({}, t, w) = 0
<1> DEFINE f == [r \in AllRow({}, t, w) |-> r.points]
<1>1. AllRow({}, t, w) = {}
  BY DEF AllRow
<1>2. Sum(f, {}) = 0
  BY SumOfNothing
<1>3. Booked({}, t, w) = Sum(f, {})
  BY <1>1 DEF Booked, SumFunction, Sum
<1> HIDE DEF f
<1>4. QED
  BY <1>2, <1>3

\* The empty table has everything there is to have.
LEMMA EmptyIsGood ==
    ASSUME PrAssumption, NEW prs \in SUBSET Prs, NEW exact
    PROVE  Good({}, exact) /\ \A but : PointsHold({}, prs, but)
<1>1. Good({}, exact)
  BY DEF Good, AddsUp, HasAll
<1>2. ASSUME NEW but PROVE PointsHold({}, prs, but)
  <2> SUFFICES ASSUME NEW t \in Teams, NEW w \in Int \ but
               PROVE  Booked({}, t, w) = 0 /\ Most(prs, w) \in Nat
    BY DEF PointsHold
  <2>1. QED
    BY NothingIsBooked, MoreHaveMore
<1>3. QED
  BY <1>1, <1>2

\* A run at rest, or that has only begun.
LEMMA NewRunIsGood ==
    ASSUME PrAssumption, NEW run, run.prs = {}, run.daily = {}, run.weekly = {}, run.slices = {},
           NEW step, step \notin {"daily", "weekly", "slices"}, NEW mine,
           NEW days, NEW weeks, NEW slices, NEW prs \in SUBSET Prs
    PROVE  RunGood(run, step, mine, days, weeks, slices, prs)
BY EmptyIsGood DEF RunGood

LEMMA TotalsInit == ASSUME PrAssumption, SharesAreWhole, MetricsInit PROVE TotalsInv
<1>1. MetricsTypes
  BY MetricsTypesInit
<1>2. /\ merged = {} /\ daily = {} /\ weekly = {} /\ jiraWeekly = {}
      /\ rrun = [r \in Runs |-> NoRoll] /\ rstep = [r \in Runs |-> "idle"]
  BY Zenon DEF MetricsInit
<1>3. merged \in SUBSET Prs
  BY <1>2
<1>4. Good(daily, TRUE) /\ Good(weekly, FALSE) /\ PointsHold(jiraWeekly, merged, mixed)
  BY <1>2, <1>3, EmptyIsGood
<1>5. RunsGood
  <2>1. \A r \in Runs : rrun[r] = NoRoll /\ rstep[r] = "idle"
    BY <1>2
  <2>2. NoRoll.prs = {} /\ NoRoll.daily = {} /\ NoRoll.weekly = {} /\ NoRoll.slices = {}
    BY DEF NoRoll
  <2>3. QED
    BY <1>3, <2>1, <2>2, NewRunIsGood DEF RunsGood
<1>6. QED
  BY <1>1, <1>4, <1>5 DEF TotalsInv

\* What a week has only grows with github_activity.
LEMMA PointsStay ==
    ASSUME PrAssumption, NEW table, NEW but, NEW P \in SUBSET Prs, NEW Q \in SUBSET P,
           PointsHold(table, Q, but)
    PROVE  PointsHold(table, P, but)
<1> SUFFICES ASSUME NEW t \in Teams, NEW w \in Int \ but
             PROVE  Booked(table, t, w) \in Nat /\ Booked(table, t, w) <= Most(P, w)
  BY DEF PointsHold
<1>1. Booked(table, t, w) \in Nat /\ Booked(table, t, w) <= Most(Q, w)
  BY DEF PointsHold
<1>2. Most(P, w) \in Nat /\ Most(Q, w) \in Nat /\ Most(Q, w) <= Most(P, w)
  BY MoreHaveMore
<1>3. QED
  BY ONLY <1>1, <1>2

\* The weeks in which a run has left nothing newer are all old or all its own.
LEMMA MergedPoints ==
    ASSUME NEW table \in SUBSET SliceRows, NEW old, NEW new \in SUBSET SliceRows,
           NEW floor \in Int, KeepsOld(old, table, floor), \A q \in new : q.at >= floor,
           NEW prs, NEW but, PointsHold(table, prs, but), PointsHold(new, prs, {})
    PROVE  PointsHold(old \cup new, prs,
                      {w \in but : w < floor} \cup {q.at : q \in {y \in old : y.at >= floor}})
<1> DEFINE T == old \cup new
           mix == {w \in but : w < floor} \cup {q.at : q \in {y \in old : y.at >= floor}}
<1> SUFFICES ASSUME NEW t \in Teams, NEW w \in Int \ mix
             PROVE  Booked(T, t, w) \in Nat /\ Booked(T, t, w) <= Most(prs, w)
  BY DEF PointsHold
<1>1. \A q \in table \cup new : q.at \in Int
  BY DEF SliceRows
<1>2. CASE w < floor
  <2>1. w \notin but
    BY <1>2
  <2>2. AllRow(T, t, w) = AllRow(table, t, w)
    <3>1. \A q \in T : q.at = w => q \in table
      BY <1>1, <1>2 DEF KeepsOld
    <3>2. \A q \in table : q.at = w => q \in T
      BY <1>2 DEF KeepsOld
    <3> HIDE DEF T
    <3>3. QED
      BY <3>1, <3>2 DEF AllRow
  <2>3. Booked(T, t, w) = Booked(table, t, w)
    BY <2>2 DEF Booked
  <2>4. QED
    BY <2>1, <2>3 DEF PointsHold
<1>3. CASE ~(w < floor)
  <2>1. AllRow(T, t, w) = AllRow(new, t, w)
    <3>1. \A q \in T : q.at = w => q \in new
      <4> SUFFICES ASSUME NEW q \in old, q.at = w PROVE FALSE
        OBVIOUS
      <4>1. q.at >= floor
        BY <1>3
      <4>2. QED
        BY <4>1
    <3>2. \A q \in new : q \in T
      OBVIOUS
    <3> HIDE DEF T
    <3>3. QED
      BY <3>1, <3>2 DEF AllRow
  <2>2. Booked(T, t, w) = Booked(new, t, w)
    BY <2>1 DEF Booked
  <2>3. QED
    BY <2>2 DEF PointsHold
<1>4. QED
  BY <1>2, <1>3

\* A step that writes no table and is none of a roll-up.
LEMMA TotalsStay ==
    ASSUME PrAssumption, TotalsInv, MetricsTypes', merged \subseteq merged',
           UNCHANGED <<tables, rrun, rstep>>
    PROVE  TotalsInv'
<1>1. UNCHANGED <<daily, weekly, jiraWeekly, left, mixed, rrun, rstep>>
  BY DEF tables
<1>2. merged' \in SUBSET Prs /\ merged \in SUBSET merged'
  BY DEF MetricsTypes
<1>3. PointsHold(jiraWeekly, merged', mixed)
  BY <1>2, PointsStay DEF TotalsInv
<1>4. ASSUME NEW r \in Runs
      PROVE  RunGood(rrun[r], rstep[r], left[r], daily, weekly, jiraWeekly, merged')
  <2>1. RunGood(rrun[r], rstep[r], left[r], daily, weekly, jiraWeekly, merged)
    BY DEF TotalsInv, RunsGood
  <2>2. PointsHold(rrun[r].slices, merged', {})
    BY <1>2, <2>1, PointsStay DEF RunGood
  <2>3. QED
    BY <1>2, <2>1, <2>2 DEF RunGood
<1>5. RunsGood'
  BY <1>1, <1>4 DEF RunsGood
<1>6. (Good(daily, TRUE) /\ Good(weekly, FALSE) /\ PointsHold(jiraWeekly, merged, mixed))'
  BY <1>1, <1>3 DEF TotalsInv
<1>7. QED
  BY <1>5, <1>6 DEF TotalsInv

\* What a run reads, and what its DELETEs leave, is good.
LEMMA QuietIsGood ==
    ASSUME PrAssumption, SharesAreWhole, TotalsInv, NEW r \in Runs, WritesNoTable(r)
    PROVE  RunGood(rrun'[r], rstep'[r], left'[r], daily, weekly, jiraWeekly, merged)
<1> DEFINE run == rrun[r]
           Now == RunGood(rrun'[r], rstep'[r], left'[r], daily, weekly, jiraWeekly, merged)
<1>1. /\ MetricsTypes /\ merged \in SUBSET Prs /\ rrun \in [Runs -> Rolls]
      /\ left \in [Runs -> Lefts] /\ rstep \in [Runs -> Steps]
  BY DEF TotalsInv, MetricsTypes
<1>2. /\ run.prs \subseteq merged /\ Good(run.daily, TRUE) /\ Good(run.weekly, FALSE)
      /\ PointsHold(run.slices, merged, {}) /\ \A q \in run.slices : q.at >= WeeklyFloor(run.today)
      /\ rstep[r] \in {"daily", "weekly"} => Part(left[r].daily, daily)
      /\ rstep[r] = "weekly" => Part(left[r].weekly, weekly)
  BY DEF TotalsInv, RunsGood, RunGood
<1>3. Seen(r) \in Snapshots /\ Seen(r).prs = run.prs /\ Seen(r).today = run.today
  BY <1>1, SeenType DEF Seen
<1>4. run \in Rolls
  BY <1>1
<1>5. NoRoll.prs = {} /\ NoRoll.daily = {} /\ NoRoll.weekly = {} /\ NoRoll.slices = {}
  BY DEF NoRoll
<1>6. CASE RollBegin(r)
  <2>1. rrun'[r] = [NoRoll EXCEPT !.today = today, !.linked = link] /\ rstep'[r] = "links"
    BY <1>1, <1>6 DEF RollBegin, GoTo
  <2>2. /\ rrun'[r].prs = {} /\ rrun'[r].daily = {} /\ rrun'[r].weekly = {} /\ rrun'[r].slices = {}
    BY <2>1 DEF NoRoll
  <2>3. QED
    BY <1>1, <2>1, <2>2, NewRunIsGood
<1>7. CASE RollRead(r)
  <2>1. /\ run.today = rrun'[r].today /\ run.slices = rrun'[r].slices /\ rrun'[r].prs \subseteq merged
        /\ rstep'[r] \in {"users", "classes", "prs", "read"}
        /\ \/ rrun'[r].daily = run.daily /\ rrun'[r].weekly = run.weekly
           \/ rrun'[r].daily = DailyRows(Seen(r)) /\ rrun'[r].weekly = WeeklyRows(Seen(r))
    <3>1. CASE rstep[r] = "links"
      BY <1>1, <1>2, <1>4, <1>7, <3>1 DEF RollRead, GoTo, Rolls
    <3>2. CASE rstep[r] = "users"
      BY <1>1, <1>2, <1>4, <1>7, <3>2 DEF RollRead, GoTo, Rolls
    <3>3. CASE rstep[r] = "classes"
      BY <1>1, <1>2, <1>4, <1>7, <3>3 DEF RollRead, GoTo, Rolls
    <3>4. CASE rstep[r] = "prs"
      BY <1>1, <1>2, <1>4, <1>7, <3>4 DEF RollRead, GoTo, Rolls
    <3>5. QED
      BY <1>7, <3>1, <3>2, <3>3, <3>4 DEF RollRead
  <2>2. Good(DailyRows(Seen(r)), TRUE) /\ Good(WeeklyRows(Seen(r)), FALSE)
    BY <1>3, DailyAddUp, WeeklyAddUp
  <2>3. QED
    BY <1>2, <2>1, <2>2 DEF RunGood
<1>8. CASE DeleteDaily(r)
  <2>1. /\ rrun'[r] = run /\ rstep'[r] = "daily"
        /\ left'[r].daily = OlderRows(daily, DailyFloor(run.today))
    BY <1>1, <1>8 DEF DeleteDaily, GoTo, Lefts
  <2>2. QED
    BY <1>2, <2>1, OlderIsPart DEF RunGood
<1>9. CASE DeleteWeekly(r)
  <2>1. /\ rrun'[r] = run /\ rstep'[r] = "weekly" /\ rstep[r] = "daily"
        /\ left'[r].weekly = OlderRows(weekly, WeeklyFloor(run.today))
        /\ left'[r].daily = left[r].daily
    BY <1>1, <1>9 DEF DeleteWeekly, GoTo, Lefts
  <2>2. QED
    BY <1>2, <2>1, OlderIsPart DEF RunGood
<1>10. CASE ReadIssues(r)
  <2> DEFINE new == JiraRows(Seen(r))
  <2>1. rrun'[r] = [NoRoll EXCEPT !.today = run.today, !.slices = new] /\ rstep'[r] = "issues"
    BY <1>1, <1>10 DEF ReadIssues, GoTo
  <2>2. /\ rrun'[r].prs = {} /\ rrun'[r].daily = {} /\ rrun'[r].weekly = {}
        /\ rrun'[r].slices = new /\ rrun'[r].today = run.today
    BY <2>1 DEF NoRoll
  <2>3. PointsHold(new, run.prs, {})
    BY <1>3, NewPoints DEF PointsHold
  <2>4. PointsHold(new, merged, {})
    <3> HIDE DEF new
    <3>1. QED
      BY <1>1, <1>2, <2>3, PointsStay
  <2>5. \A q \in new : q.at >= WeeklyFloor(run.today)
    BY <1>3, SliceRowsType
  <2>6. Good({}, TRUE) /\ Good({}, FALSE)
    BY <1>1, EmptyIsGood
  <2> HIDE DEF new
  <2>7. QED
    BY <2>1, <2>2, <2>4, <2>5, <2>6 DEF RunGood
<1>11. CASE DeleteSlices(r)
  <2> DEFINE floor == WeeklyFloor(run.today)
  <2>1. rrun'[r] = run /\ rstep'[r] = "slices" /\ left'[r].jira = OlderRows(jiraWeekly, floor)
    BY <1>1, <1>11 DEF DeleteSlices, GoTo, Lefts
  <2>2. KeepsOld(left'[r].jira, jiraWeekly, floor)
    BY <2>1 DEF KeepsOld, OlderRows
  <2>3. QED
    BY <1>2, <2>1, <2>2 DEF RunGood
<1>12. CASE RollCollides(r) \/ RollFail(r)
  <2>1. rrun'[r] = NoRoll /\ rstep'[r] = "idle"
    BY <1>1, <1>12 DEF RollCollides, RollFail, TakeBack, GoTo
  <2>2. QED
    BY <1>1, <1>5, <2>1, NewRunIsGood
<1>13. QED
  BY <1>6, <1>7, <1>8, <1>9, <1>10, <1>11, <1>12 DEF WritesNoTable

\* A run that commits days and weeks: the tables and the other runs stay good.
LEMMA WriteIsGood ==
    ASSUME PrAssumption, SharesAreWhole, TotalsInv, MetricsTypes', NEW r \in Runs, RollWrite(r)
    PROVE  TotalsInv'
<1> DEFINE run == rrun[r]
<1>1. /\ merged \in SUBSET Prs /\ rrun \in [Runs -> Rolls]
      /\ left \in [Runs -> Lefts] /\ rstep \in [Runs -> Steps]
  BY DEF TotalsInv, MetricsTypes
<1>2. /\ run.prs \subseteq merged /\ Good(run.daily, TRUE) /\ Good(run.weekly, FALSE)
      /\ PointsHold(run.slices, merged, {}) /\ \A q \in run.slices : q.at >= WeeklyFloor(run.today)
      /\ Part(left[r].daily, daily) /\ Part(left[r].weekly, weekly)
  BY DEF RollWrite, TotalsInv, RunsGood, RunGood
<1>3. Good(left[r].daily, TRUE) /\ Good(left[r].weekly, FALSE)
  BY <1>2, PartIsGood DEF TotalsInv
<1>4. ~Clash(left[r].daily, run.daily) /\ ~Clash(left[r].weekly, run.weekly)
  BY DEF RollWrite
<1>5. UNCHANGED <<jiraWeekly, mixed, merged>>
  BY DEF RollWrite, outside
<1>6. daily' = left[r].daily \cup run.daily /\ weekly' = left[r].weekly \cup run.weekly
  BY DEF RollWrite
<1>7. Good(daily', TRUE) /\ Good(weekly', FALSE)
  <2> HIDE DEF run
  <2>1. QED
    BY <1>2, <1>3, <1>4, <1>6, MergeIsGood
<1>8. RunGood(rrun'[r], rstep'[r], left'[r], daily', weekly', jiraWeekly, merged)
  <2>1. rrun'[r] = [run EXCEPT !.daily = {}, !.weekly = {}] /\ rstep'[r] = "jira"
    BY <1>1 DEF RollWrite, GoTo
  <2>2. run \in Rolls
    BY <1>1
  <2>3. /\ rrun'[r].prs = run.prs /\ rrun'[r].daily = {} /\ rrun'[r].weekly = {}
        /\ rrun'[r].slices = run.slices /\ rrun'[r].today = run.today
    BY <2>1, <2>2 DEF Rolls
  <2>4. Good({}, TRUE) /\ Good({}, FALSE)
    BY <1>1, EmptyIsGood
  <2> HIDE DEF run
  <2>5. QED
    BY <1>2, <2>1, <2>3, <2>4 DEF RunGood
<1>9. ASSUME NEW q \in Runs, q # r
      PROVE  RunGood(rrun'[q], rstep'[q], left'[q], daily', weekly', jiraWeekly, merged)
  <2>1. RunGood(rrun[q], rstep[q], left[q], daily, weekly, jiraWeekly, merged)
    BY DEF TotalsInv, RunsGood
  <2>2. rrun'[q] = rrun[q] /\ rstep'[q] = rstep[q]
    BY <1>1, <1>9 DEF RollWrite, GoTo
  <2>3. left'[q] = [daily |-> IF rstep[q] \in {"daily", "weekly"}
                              THEN LeftBy(left[q].daily, left[r].daily, run.daily) ELSE {},
                    weekly |-> IF rstep[q] = "weekly"
                               THEN LeftBy(left[q].weekly, left[r].weekly, run.weekly) ELSE {},
                    jira |-> left[q].jira]
    BY <1>9 DEF RollWrite
  <2>4. ASSUME rstep[q] \in {"daily", "weekly"} PROVE Part(left'[q].daily, daily')
    <3>1. left'[q].daily = LeftBy(left[q].daily, left[r].daily, run.daily)
      BY <2>3, <2>4
    <3>2. Part(left[q].daily, daily)
      BY <2>1, <2>4 DEF RunGood
    <3>3. HasAll(left[r].daily) /\ HasAll(run.daily)
      BY <1>2, <1>3 DEF Good
    <3> HIDE DEF run
    <3>4. QED
      BY <1>2, <1>4, <1>6, <3>1, <3>2, <3>3, MergeIsPart
  <2>5. ASSUME rstep[q] = "weekly" PROVE Part(left'[q].weekly, weekly')
    <3>1. left'[q].weekly = LeftBy(left[q].weekly, left[r].weekly, run.weekly)
      BY <2>3, <2>5
    <3>2. Part(left[q].weekly, weekly)
      BY <2>1, <2>5 DEF RunGood
    <3>3. HasAll(left[r].weekly) /\ HasAll(run.weekly)
      BY <1>2, <1>3 DEF Good
    <3> HIDE DEF run
    <3>4. QED
      BY <1>2, <1>4, <1>6, <3>1, <3>2, <3>3, MergeIsPart
  <2>6. left'[q].jira = left[q].jira
    BY <2>3
  <2> HIDE DEF run
  <2>7. QED
    BY <2>1, <2>2, <2>4, <2>5, <2>6 DEF RunGood
<1>10. RunsGood'
  BY <1>5, <1>8, <1>9 DEF RunsGood
<1>11. (Good(daily, TRUE) /\ Good(weekly, FALSE) /\ PointsHold(jiraWeekly, merged, mixed))'
  BY <1>5, <1>7 DEF TotalsInv
<1>12. QED
  BY <1>10, <1>11 DEF TotalsInv

\* A run that commits slices: the weeks it mixes are in mixed'.
LEMMA SlicesAreGood ==
    ASSUME PrAssumption, SharesAreWhole, TotalsInv, MetricsTypes', NEW r \in Runs, WriteSlices(r)
    PROVE  TotalsInv'
<1> DEFINE run == rrun[r]
           floor == WeeklyFloor(run.today)
           old == left[r].jira
           new == run.slices
<1>1. /\ merged \in SUBSET Prs /\ rrun \in [Runs -> Rolls]
      /\ left \in [Runs -> Lefts] /\ rstep \in [Runs -> Steps] /\ jiraWeekly \in SUBSET SliceRows
  BY DEF TotalsInv, MetricsTypes
<1>2. /\ PointsHold(new, merged, {}) /\ \A q \in new : q.at >= floor
      /\ KeepsOld(old, jiraWeekly, floor)
  BY DEF WriteSlices, TotalsInv, RunsGood, RunGood
<1>3. new \in SUBSET SliceRows /\ floor \in Int
  <2>1. run \in Rolls
    BY <1>1
  <2> HIDE DEF run
  <2>2. QED
    BY <2>1, FloorTypes DEF Rolls
<1>4. UNCHANGED <<daily, weekly, merged>>
  BY DEF WriteSlices, outside
<1>5. /\ jiraWeekly' = old \cup new
      /\ mixed' = {w \in mixed : w < floor} \cup {q.at : q \in {y \in old : y.at >= floor}}
  BY DEF WriteSlices
<1>6. PointsHold(jiraWeekly', merged, mixed')
  <2>1. PointsHold(jiraWeekly, merged, mixed)
    BY DEF TotalsInv
  <2> HIDE DEF old, new, floor
  <2>2. QED
    BY <1>1, <1>2, <1>3, <1>5, <2>1, MergedPoints
<1>7. RunGood(rrun'[r], rstep'[r], left'[r], daily, weekly, jiraWeekly', merged)
  <2>1. rrun'[r] = NoRoll /\ rstep'[r] = "idle"
    BY <1>1 DEF WriteSlices, GoTo
  <2>2. NoRoll.prs = {} /\ NoRoll.daily = {} /\ NoRoll.weekly = {} /\ NoRoll.slices = {}
    BY DEF NoRoll
  <2>3. QED
    BY <1>1, <2>1, <2>2, NewRunIsGood
<1>8. ASSUME NEW q \in Runs, q # r
      PROVE  RunGood(rrun'[q], rstep'[q], left'[q], daily, weekly, jiraWeekly', merged)
  <2>1. RunGood(rrun[q], rstep[q], left[q], daily, weekly, jiraWeekly, merged)
    BY DEF TotalsInv, RunsGood
  <2>2. rrun'[q] = rrun[q] /\ rstep'[q] = rstep[q]
    BY <1>1, <1>8 DEF WriteSlices, GoTo
  <2>3. CASE rstep[q] # "slices"
    <3>1. left'[q] = left[q]
      BY <1>8, <2>3 DEF WriteSlices
    <3>2. QED
      BY <2>1, <2>2, <2>3, <3>1 DEF RunGood
  <2>4. CASE rstep[q] = "slices"
    <3>1. left'[q] = [left[q] EXCEPT !.jira = LeftBy(left[q].jira, old, new)]
      BY <1>8, <2>4 DEF WriteSlices
    <3>2. left[q] \in Lefts
      BY <1>1
    <3> HIDE DEF old, new
    <3>3. left'[q].jira = LeftBy(left[q].jira, old, new)
      BY <3>1, <3>2 DEF Lefts
    <3>4. KeepsOld(left[q].jira, jiraWeekly, WeeklyFloor(rrun[q].today))
      BY <2>1, <2>4 DEF RunGood
    <3>5. KeepsOld(left'[q].jira, jiraWeekly', WeeklyFloor(rrun[q].today))
      BY <1>2, <1>5, <3>3, <3>4 DEF KeepsOld, LeftBy
    <3>6. QED
      BY <2>1, <2>2, <2>4, <3>5 DEF RunGood
  <2>5. QED
    BY <2>3, <2>4
<1>9. RunsGood'
  BY <1>4, <1>7, <1>8 DEF RunsGood
<1>10. (Good(daily, TRUE) /\ Good(weekly, FALSE) /\ PointsHold(jiraWeekly, merged, mixed))'
  BY <1>4, <1>6 DEF TotalsInv
<1>11. QED
  BY <1>9, <1>10 DEF TotalsInv

LEMMA TotalsRoll ==
    ASSUME PrAssumption, SharesAreWhole, TotalsInv, NEW r \in Runs, RollStep(r)
    PROVE  TotalsInv'
<1>1. MetricsTypes /\ MetricsTypes' /\ merged' = merged
  BY RollTypes DEF TotalsInv
<1>2. CASE WritesNoTable(r)
  <2>1. /\ UNCHANGED <<daily, weekly, jiraWeekly, mixed>>
        /\ \A q \in Runs \ {r} : rrun'[q] = rrun[q] /\ rstep'[q] = rstep[q] /\ left'[q] = left[q]
    BY <1>1, <1>2, QuietChanges
  <2>2. ASSUME NEW q \in Runs
        PROVE  RunGood(rrun'[q], rstep'[q], left'[q], daily, weekly, jiraWeekly, merged)
    <3>1. CASE q = r
      BY <1>2, <3>1, QuietIsGood
    <3>2. CASE q # r
      BY <2>1, <3>2 DEF TotalsInv, RunsGood
    <3>3. QED
      BY <3>1, <3>2
  <2>3. RunsGood'
    BY <1>1, <2>1, <2>2 DEF RunsGood
  <2>4. (Good(daily, TRUE) /\ Good(weekly, FALSE) /\ PointsHold(jiraWeekly, merged, mixed))'
    BY <1>1, <2>1 DEF TotalsInv
  <2>5. QED
    BY <1>1, <2>3, <2>4 DEF TotalsInv
<1>3. CASE RollWrite(r)
  BY <1>1, <1>3, WriteIsGood
<1>4. CASE WriteSlices(r)
  BY <1>1, <1>4, SlicesAreGood
<1>5. QED
  BY <1>2, <1>3, <1>4 DEF RollStep, WritesNoTable

LEMMA TotalsHold ==
    ASSUME PrAssumption, SharesAreWhole PROVE MetricsSpec => []TotalsInv
<1>1. MetricsInit => TotalsInv
  BY TotalsInit
<1>2. TotalsInv /\ [MetricsNext]_metricsVars => TotalsInv'
  <2> SUFFICES ASSUME TotalsInv, [MetricsNext]_metricsVars PROVE TotalsInv'
    OBVIOUS
  <2>0. MetricsTypes
    BY DEF TotalsInv
  <2>1. CASE UNCHANGED metricsVars
    <3>1. MetricsTypes'
      BY <2>0, MetricsNextTypes
    <3>2. merged \subseteq merged' /\ UNCHANGED <<tables, rrun, rstep>>
      BY <2>1 DEF metricsVars, tables
    <3>3. QED
      BY <3>1, <3>2, TotalsStay
  <2>2. CASE Merge \/ IssueArrives \/ MovePerson \/ BillDay \/ NextDay
    BY <2>0, <2>2, WorldTypes, TotalsStay
  <2>3. CASE PutMap \/ CommitMap \/ \E r \in Runs : BeginClassify(r) \/ EndClassify(r) \/ FailClassify(r)
    <3>1. MetricsTypes' /\ merged' = merged /\ UNCHANGED <<tables, rrun, rstep>>
      BY <2>0, <2>3, ClassifyTypes
    <3>2. merged \subseteq merged'
      BY <3>1
    <3>3. QED
      BY <3>1, <3>2, TotalsStay
  <2>4. CASE \E r \in Runs : RollStep(r)
    BY <2>4, TotalsRoll
  <2>5. QED
    BY <2>1, <2>2, <2>3, <2>4 DEF MetricsNext, RollStep
<1>3. QED
  BY <1>1, <1>2, PTL DEF MetricsSpec

LEMMA InvAddsUp == ASSUME PrAssumption, TotalsInv PROVE ClassesAddUp
<1>1. ASSUME NEW r \in daily, r.cls = "all" PROVE Balanced(r, Parts(daily, r), TRUE)
  BY <1>1 DEF TotalsInv, Good, AddsUp
<1>2. ASSUME NEW r \in weekly, r.cls = "all" PROVE Balanced(r, Parts(weekly, r), FALSE)
  BY <1>2 DEF TotalsInv, Good, AddsUp
<1> SUFFICES ASSUME NEW r \in daily \cup weekly, r.cls = "all"
             PROVE  LET parts == Parts(IF r \in daily THEN daily ELSE weekly, r)
                        money == SumFunction([q \in parts |-> q.spend]) IN
                    /\ SumFunction([q \in parts |-> q.n]) = r.n
                    /\ money <= r.spend
                    /\ (r \in daily /\ r.n > 0) => money = r.spend
  BY DEF ClassesAddUp
<1>3. CASE r \in daily
  BY <1>1, <1>3 DEF Balanced
<1>4. CASE r \notin daily
  BY <1>2, <1>4 DEF Balanced
<1>5. QED
  BY <1>3, <1>4

LEMMA InvPoints == ASSUME PrAssumption, TotalsInv PROVE PointsOnce
<1> SUFFICES ASSUME NEW t \in Teams, NEW r \in jiraWeekly, r.at \notin mixed
             PROVE  Booked(jiraWeekly, t, r.at) <= Most(merged, r.at)
  BY DEF PointsOnce, BookedOnce, Booked, Most
<1>1. r.at \in Int \ mixed
  BY DEF TotalsInv, MetricsTypes, SliceRows
<1>2. QED
  BY <1>1 DEF TotalsInv, PointsHold


-----------------------------------------------------------------------------
(* The four side by side *)

\* A behaviour of the four is one of each.
LEMMA ReportsParts == ReportsSpec => Spec /\ HubSpec /\ JiraSpec /\ MetricsSpec
<1>1. ReportsInit => Init /\ HubInit /\ JiraInit /\ MetricsInit
  BY DEF ReportsInit
<1>2. [ReportsNext]_reportsVars =>
         [Next]_vars /\ [HubNext]_hubVars /\ [JiraNext]_jiraVars /\ [MetricsNext]_metricsVars
  BY Zenon DEF ReportsNext, reportsVars
<1>3. QED
  BY <1>1, <1>2, PTL DEF ReportsSpec, Spec, HubSpec, JiraSpec, MetricsSpec

\* TypesOK: the four keep their types side by side.
THEOREM ReportsTypeCorrect == ReportsSpec => []TypesOK
<1>1. Spec => []TypeOK
  BY TypeCorrect
<1>2. HubSpec => []HubTypeOK
  BY HubTypeCorrect, ReportsAssumption
<1>3. JiraSpec => []JiraTypeOK
  BY JiraTypeCorrect, ReportsAssumption
<1>4. MetricsSpec => []MetricsTypeOK
  BY MetricsTypeCorrect, ReportsAssumption
<1>5. TypeOK /\ HubTypeOK /\ JiraTypeOK /\ MetricsTypeOK => TypesOK
  BY DEF TypesOK
<1>6. QED
  BY <1>1, <1>2, <1>3, <1>4, <1>5, ReportsParts, PTL

\* TotalsAddUp: every day's and week's classes add up to the row of all, and
\* a week whose rows are of one run has no more points than its pull requests,
\* however the queries, DELETEs, INSERTs and commits of runs interleave.
THEOREM TotalsDoAddUp == ReportsSpec => []TotalsAddUp
<1>1. MetricsSpec => []TotalsInv
  BY TotalsHold, ReportsAssumption
<1>2. TotalsInv => TotalsAddUp
  BY ReportsAssumption, InvAddsUp, InvPoints DEF TotalsAddUp
<1>3. QED
  BY <1>1, <1>2, ReportsParts, PTL
=============================================================================
