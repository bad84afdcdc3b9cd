---------------------------- MODULE LoginsProofs ----------------------------
(***************************************************************************)
(* Who may log in and what they administer, for any people, teams,         *)
(* providers and requests: AdminAccess and SamlLogin each from an          *)
(* invariant that ties what a request has read or done to the tables; what *)
(* the recursive walks of Teams compute, and the invariants of its         *)
(* overlapping transactions; and the scenes of MCLogins from all of these. *)
(***************************************************************************)
EXTENDS MCLogins, Integers, FiniteSetTheorems, WellFoundedInduction, TLAPS

-----------------------------------------------------------------------------
(* Induction over the natural numbers, for sets: the library's induction   *)
(* theorems take an operator, which no prover here can instantiate.        *)

\* Every non-empty set of naturals has a least element, because no finite set
\* of naturals has infinitely many smaller ones inside it.
LEMMA Least ==
  ASSUME NEW T, T \subseteq Nat, T # {}
  PROVE  \E x \in T : \A y \in T : x <= y
<1> DEFINE R == StrictSubsetOrdering(Nat)
           F == FiniteSubsetsOf(Nat)
           U == {1..x : x \in T}
<1>1. U \subseteq F /\ U # {}
  <2>1. \A x \in T : IsFiniteSet(1..x) /\ 1..x \subseteq Nat
    <3> TAKE x \in T
    <3>1. 1 \in Int /\ x \in Int
      OBVIOUS
    <3>2. IsFiniteSet(1..x)
      BY <3>1, FS_Interval
    <3> QED BY <3>1, <3>2
  <2>2. \A x \in T : 1..x \in F
    BY <2>1 DEF FiniteSubsetsOf
  <2> QED BY <2>2
<1>2. IsWellFoundedOn(R, F)
  BY FS_StrictSubsetOrderingWellFounded
<1>3. PICK u \in U : \A w \in U : ~ (<<w, u>> \in R)
  <2> HIDE DEF U, R, F
  <2> QED BY <1>1, <1>2, WFMin
<1>4. PICK x \in T : u = 1..x
  OBVIOUS
<1>5. ASSUME NEW y \in T, y < x PROVE FALSE
  <2>1. <<1..y, 1..x>> \in R
    BY <1>5 DEF StrictSubsetOrdering
  <2> QED BY <2>1, <1>3, <1>4
<1> QED BY <1>5

\* A set that has 0 and the successor of each of its naturals has them all.
LEMMA SetInduction ==
  ASSUME NEW S, 0 \in S, \A n \in Nat : n \in S => n + 1 \in S
  PROVE  Nat \subseteq S
<1> SUFFICES ASSUME ~(Nat \subseteq S) PROVE FALSE
  OBVIOUS
<1> DEFINE T == Nat \ S
<1>1. T \subseteq Nat /\ T # {}
  OBVIOUS
<1>2. PICK x \in T : \A y \in T : x <= y
  <2> HIDE DEF T
  <2> QED BY <1>1, Least
<1>4. x # 0 /\ x - 1 \in Nat
  BY <1>1
<1>5. x - 1 \notin T
  BY <1>1, <1>2, <1>4
<1>6. x - 1 + 1 = x
  BY <1>1
<1> QED BY <1>1, <1>4, <1>5, <1>6

\* What is defined by iterating a function from a start exists.
LEMMA IterationExists ==
  ASSUME NEW D, NEW a \in D, NEW step \in [D -> D]
  PROVE  \E f \in [Nat -> D] : f = [n \in Nat |-> IF n = 0 THEN a ELSE step[f[n - 1]]]
<1> DEFINE Upto(n, g) == g[0] = a /\ \A i \in 1..n : g[i] = step[g[i - 1]]
           S == {n \in Nat : \E g \in [Nat -> D] : Upto(n, g)}
           G(n) == CHOOSE g \in [Nat -> D] : Upto(n, g)
<1>1. 0 \in S
  <2>1. Upto(0, [i \in Nat |-> a])
    OBVIOUS
  <2> QED BY <2>1
<1>2. ASSUME NEW n \in Nat, n \in S PROVE n + 1 \in S
  <2>1. PICK g \in [Nat -> D] : Upto(n, g)
    BY <1>2
  <2> DEFINE h == [i \in Nat |-> IF i = n + 1 THEN step[g[n]] ELSE g[i]]
  <2>2. h \in [Nat -> D]
    OBVIOUS
  <2>3. h[0] = a
    BY <2>1
  <2>4. ASSUME NEW i \in 1..(n + 1) PROVE h[i] = step[h[i - 1]]
    <3>1. CASE i = n + 1
      BY <3>1
    <3>2. CASE i \in 1..n
      BY <3>2, <2>1
    <3> QED BY <3>1, <3>2
  <2> HIDE DEF h
  <2> QED BY <2>2, <2>3, <2>4
<1>3. Nat \subseteq S
  <2> HIDE DEF S
  <2> QED BY <1>1, <1>2, SetInduction
<1>4. \A n \in Nat : G(n) \in [Nat -> D] /\ Upto(n, G(n))
  BY <1>3
<1> HIDE DEF G, S
<1>5. \A n, m \in Nat : m <= n => G(n)[m] = G(m)[m]
  <2> SUFFICES ASSUME NEW n \in Nat PROVE \A m \in Nat : m <= n => G(n)[m] = G(m)[m]
    OBVIOUS
  <2> DEFINE Q == {m \in Nat : \A k \in Nat : m <= k /\ m <= n => G(n)[m] = G(k)[m]}
  <2>1. 0 \in Q
    BY <1>4
  <2>2. ASSUME NEW m \in Nat, m \in Q PROVE m + 1 \in Q
    <3> SUFFICES ASSUME NEW k \in Nat, m + 1 <= k, m + 1 <= n PROVE G(n)[m + 1] = G(k)[m + 1]
      OBVIOUS
    <3>1. G(n)[m] = G(k)[m]
      BY <2>2
    <3>2. G(n)[m + 1] = step[G(n)[m + 1 - 1]] /\ G(k)[m + 1] = step[G(k)[m + 1 - 1]]
      BY <1>4
    <3> QED BY <3>1, <3>2
  <2>3. Nat \subseteq Q
    <3> HIDE DEF Q
    <3> QED BY <2>1, <2>2, SetInduction
  <2> QED BY <2>3
<1> DEFINE f == [n \in Nat |-> G(n)[n]]
<1>6. f \in [Nat -> D]
  BY <1>4
<1>7. f[0] = a
  BY <1>4
<1>8. ASSUME NEW n \in Nat, n # 0 PROVE f[n] = step[f[n - 1]]
  <2>1. n - 1 \in Nat /\ n - 1 <= n /\ n \in 1..n
    BY <1>8
  <2>2. G(n)[n] = step[G(n)[n - 1]]
    BY <1>4, <2>1
  <2>3. G(n)[n - 1] = G(n - 1)[n - 1]
    BY <1>5, <2>1
  <2> QED BY <2>1, <2>2, <2>3
<1>9. f = [n \in Nat |-> IF n = 0 THEN a ELSE step[f[n - 1]]]
  BY <1>7, <1>8
<1> HIDE DEF f
<1> QED BY <1>6, <1>9

-----------------------------------------------------------------------------
(* Reaching: sets grown along the pairs of E until nothing new comes       *)

Closed(S, E, V) == \A x \in S, y \in V : <<x, y>> \in E => y \in S

Grown(S, E, V) == S \cup {y \in V : \E x \in S : <<x, y>> \in E}

GrowsFrom(V, W, A, E, f) ==
  /\ W \subseteq V /\ IsFiniteSet(W)
  /\ A \subseteq V /\ E \subseteq W \X V
  /\ f \in [Nat -> SUBSET V] /\ f[0] = A
  /\ \A n \in Nat : f[n + 1] = Grown(f[n], E, V)

\* As many rounds as E has sources give the least closed set around A: a round
\* that does not finish has brought another source.
LEMMA Closure ==
  ASSUME NEW V, NEW W, NEW A, NEW E, NEW f, GrowsFrom(V, W, A, E, f)
  PROVE  /\ A \subseteq f[Cardinality(W)]
         /\ Closed(f[Cardinality(W)], E, V)
         /\ \A S : A \subseteq S /\ Closed(S, E, V) => f[Cardinality(W)] \subseteq S
<1> DEFINE N == Cardinality(W)
<1> USE DEF GrowsFrom
<1>0. N \in Nat
  BY FS_CardinalityType
<1>1. A \subseteq f[N]
  <2> DEFINE Q == {n \in Nat : A \subseteq f[n]}
  <2>1. 0 \in Q
    OBVIOUS
  <2>2. \A n \in Nat : n \in Q => n + 1 \in Q
    BY DEF Grown
  <2>3. Nat \subseteq Q
    <3> HIDE DEF Q
    <3> QED BY <2>1, <2>2, SetInduction
  <2> QED BY <1>0, <2>3
<1>2. ASSUME NEW S, A \subseteq S, Closed(S, E, V) PROVE f[N] \subseteq S
  <2> DEFINE Q == {n \in Nat : f[n] \subseteq S}
  <2>1. 0 \in Q
    BY <1>2
  <2>2. ASSUME NEW n \in Nat, n \in Q PROVE n + 1 \in Q
    <3>1. f[n] \subseteq S /\ f[n + 1] = Grown(f[n], E, V)
      BY <2>2
    <3>2. Grown(f[n], E, V) \subseteq S
      BY <3>1, <1>2 DEF Grown, Closed
    <3> QED BY <3>1, <3>2
  <2>3. Nat \subseteq Q
    <3> HIDE DEF Q
    <3> QED BY <2>1, <2>2, SetInduction
  <2> QED BY <1>0, <2>3
<1>3. Closed(f[N], E, V)
  <2> DEFINE Q == {n \in Nat : Closed(f[n], E, V) \/ Cardinality(f[n] \cap W) > n}
  <2>1. \A n \in Nat : /\ IsFiniteSet(f[n] \cap W)
                       /\ Cardinality(f[n] \cap W) \in Nat
                       /\ Cardinality(f[n] \cap W) <= N
    <3> TAKE n \in Nat
    <3>1. f[n] \cap W \in SUBSET W
      OBVIOUS
    <3>2. IsFiniteSet(f[n] \cap W) /\ Cardinality(f[n] \cap W) <= N
      BY <3>1, FS_Subset
    <3> QED BY <3>2, FS_CardinalityType
  <2>2. 0 \in Q
    <3>1. ASSUME ~Closed(f[0], E, V) PROVE Cardinality(f[0] \cap W) > 0
      <4>1. f[0] \cap W # {}
        BY <3>1 DEF Closed
      <4>2. IsFiniteSet(f[0] \cap W) /\ Cardinality(f[0] \cap W) \in Nat
        BY <2>1
      <4>3. Cardinality(f[0] \cap W) # 0
        BY <4>1, <4>2, FS_EmptySet
      <4> QED BY <4>2, <4>3
    <3> QED BY <3>1
  <2>3. ASSUME NEW n \in Nat, n \in Q PROVE n + 1 \in Q
    <3> SUFFICES ASSUME ~Closed(f[n + 1], E, V) PROVE Cardinality(f[n + 1] \cap W) > n + 1
      OBVIOUS
    <3>1. PICK x \in f[n + 1], y \in V : <<x, y>> \in E /\ y \notin f[n + 1]
      BY DEF Closed
    <3>2. f[n + 1] = Grown(f[n], E, V)
      OBVIOUS
    <3>3. x \in W /\ x \notin f[n]
      BY <3>1, <3>2 DEF Grown
    <3>4. ~Closed(f[n], E, V)
      BY <3>1, <3>2, <3>3 DEF Grown, Closed
    <3>5. Cardinality(f[n] \cap W) > n
      BY <2>3, <3>4
    <3> DEFINE B == (f[n] \cap W) \cup {x}
    <3>6. Cardinality(B) = Cardinality(f[n] \cap W) + 1
      <4>1. IsFiniteSet(f[n] \cap W) /\ x \notin f[n] \cap W
        BY <2>1, <3>3
      <4> QED BY <4>1, FS_AddElement
    <3>7. B \in SUBSET (f[n + 1] \cap W)
      BY <3>1, <3>2, <3>3 DEF Grown
    <3>8. Cardinality(B) <= Cardinality(f[n + 1] \cap W)
      <4> HIDE DEF B
      <4> QED BY <3>7, <2>1, FS_Subset
    <3>9. /\ Cardinality(f[n] \cap W) \in Nat
          /\ Cardinality(f[n + 1] \cap W) \in Nat
      <4>1. n + 1 \in Nat
        OBVIOUS
      <4> QED BY <4>1, <2>1, Zenon
    <3> HIDE DEF B
    <3> QED BY <3>5, <3>6, <3>8, <3>9
  <2>4. Nat \subseteq Q
    <3> HIDE DEF Q
    <3> QED BY <2>2, <2>3, SetInduction
  <2>5. Closed(f[N], E, V) \/ Cardinality(f[N] \cap W) > N
    <3>1. N \in Q
      <4> HIDE DEF N, Q
      <4> QED BY <1>0, <2>4
    <3> HIDE DEF N
    <3> QED BY <3>1
  <2>6. Cardinality(f[N] \cap W) \in Nat /\ Cardinality(f[N] \cap W) <= N
    BY <1>0, <2>1
  <2> HIDE DEF N
  <2> QED BY <1>0, <2>5, <2>6
<1> QED BY <1>1, <1>2, <1>3

-----------------------------------------------------------------------------
(* The two walks *)

Places == TeamIds \cup {Root, Absent}

\* What WalkUp finds, n rounds up or n rounds on: everything above t, however
\* the parents form chains or cycles, and nothing else.
LEMMA WalkUpReaches ==
  ASSUME parent \in [TeamIds -> Places], NEW t \in Places
  PROVE  /\ t \in WalkUp(t)
         /\ \A x \in WalkUp(t) \cap TeamIds : parent[x] \in WalkUp(t)
         /\ \A S : t \in S /\ (\A x \in S \cap TeamIds : parent[x] \in S) => WalkUp(t) \subseteq S
<1> DEFINE met[n \in Nat] ==
             IF n = 0 THEN {t}
             ELSE met[n - 1] \cup {parent[x] : x \in met[n - 1] \cap TeamIds}
           up == [S \in SUBSET Places |-> S \cup {parent[x] : x \in S \cap TeamIds}]
           E == {<<x, parent[x]>> : x \in TeamIds}
           N == Cardinality(TeamIds)
<1>1. WalkUp(t) = met[N]
  BY DEF WalkUp
<1>2. up \in [SUBSET Places -> SUBSET Places] /\ {t} \in SUBSET Places
  OBVIOUS
<1>3. met = [n \in Nat |-> IF n = 0 THEN {t}
                ELSE met[n - 1] \cup {parent[x] : x \in met[n - 1] \cap TeamIds}]
  <2>1. \E g \in [Nat -> SUBSET Places] : g = [n \in Nat |-> IF n = 0 THEN {t} ELSE up[g[n - 1]]]
    <3> DEFINE D == SUBSET Places
               a == {t}
    <3>1. a \in D /\ up \in [D -> D]
      BY <1>2
    <3>2. \E g \in [Nat -> D] : g = [n \in Nat |-> IF n = 0 THEN a ELSE up[g[n - 1]]]
      <4> HIDE DEF D, a, up
      <4> QED BY <3>1, IterationExists
    <3> QED BY <3>2
  <2>2. PICK g \in [Nat -> SUBSET Places] : g = [n \in Nat |-> IF n = 0 THEN {t} ELSE up[g[n - 1]]]
    BY <2>1
  <2>3. \A n \in Nat : n # 0 => up[g[n - 1]] = g[n - 1] \cup {parent[x] : x \in g[n - 1] \cap TeamIds}
    OBVIOUS
  <2>4. g = [n \in Nat |-> IF n = 0 THEN {t}
                ELSE g[n - 1] \cup {parent[x] : x \in g[n - 1] \cap TeamIds}]
    <3> HIDE DEF up
    <3> QED BY <2>2, <2>3
  <2> QED BY <2>4
<1> HIDE DEF met
<1>4. met[0] = {t}
  BY <1>3
<1>5. \A n \in Nat : met[n + 1] = met[n] \cup {parent[x] : x \in met[n] \cap TeamIds}
  <2> TAKE n \in Nat
  <2>1. n + 1 \in Nat /\ n + 1 # 0 /\ n + 1 - 1 = n
    OBVIOUS
  <2> QED BY <1>3, <2>1
<1>6. met \in [Nat -> SUBSET Places]
  <2> DEFINE Q == {n \in Nat : met[n] \in SUBSET Places}
  <2>1. 0 \in Q
    BY <1>4
  <2>2. \A n \in Nat : n \in Q => n + 1 \in Q
    BY <1>5
  <2>3. Nat \subseteq Q
    <3> HIDE DEF Q
    <3> QED BY <2>1, <2>2, SetInduction
  <2> QED BY <1>3, <2>3
<1>7. \A n \in Nat : met[n + 1] = Grown(met[n], E, Places)
  <2> TAKE n \in Nat
  <2>1. met[n] \in SUBSET Places
    BY <1>6
  <2>2. {parent[x] : x \in met[n] \cap TeamIds} = {y \in Places : \E x \in met[n] : <<x, y>> \in E}
    BY <2>1
  <2> QED BY <1>5, <2>2 DEF Grown
<1>8. TeamIds \in SUBSET Places /\ IsFiniteSet(TeamIds) /\ E \in SUBSET (TeamIds \X Places)
  BY TeamsAssumption DEF Places
<1>9. /\ {t} \subseteq met[N]
      /\ Closed(met[N], E, Places)
      /\ \A S : {t} \subseteq S /\ Closed(S, E, Places) => met[N] \subseteq S
  <2>1. GrowsFrom(Places, TeamIds, {t}, E, met)
    BY <1>2, <1>4, <1>6, <1>7, <1>8 DEF GrowsFrom
  <2> HIDE DEF E, N
  <2> QED BY <2>1, Closure DEF N
<1>10. \A S : (\A x \in S \cap TeamIds : parent[x] \in S) <=> Closed(S, E, Places)
  BY DEF Closed
<1> HIDE DEF E, N
<1> QED BY <1>1, <1>9, <1>10

\* What Subtree finds: the teams below the seeds, and nothing else.
LEMMA SubtreeReaches ==
  ASSUME parent \in [TeamIds -> Places], NEW seeds \in SUBSET TeamIds
  PROVE  /\ seeds \subseteq Subtree(seeds)
         /\ \A t \in Teams : parent[t] \in Subtree(seeds) => t \in Subtree(seeds)
         /\ \A S : seeds \subseteq S /\ (\A t \in Teams : parent[t] \in S => t \in S)
                      => Subtree(seeds) \subseteq S
<1> DEFINE down[n \in Nat] ==
             IF n = 0 THEN seeds
             ELSE down[n - 1] \cup {t \in Teams : parent[t] \in down[n - 1]}
           step == [S \in SUBSET TeamIds |-> S \cup {t \in Teams : parent[t] \in S}]
           E == {<<parent[t], t>> : t \in {u \in Teams : parent[u] \in TeamIds}}
           N == Cardinality(TeamIds)
<1>0. Teams \subseteq TeamIds
  BY DEF Teams
<1>1. Subtree(seeds) = down[N]
  BY DEF Subtree
<1>2. step \in [SUBSET TeamIds -> SUBSET TeamIds]
  BY <1>0
<1>3. down = [n \in Nat |-> IF n = 0 THEN seeds
                ELSE down[n - 1] \cup {t \in Teams : parent[t] \in down[n - 1]}]
  <2>1. \E g \in [Nat -> SUBSET TeamIds] : g = [n \in Nat |-> IF n = 0 THEN seeds ELSE step[g[n - 1]]]
    <3> DEFINE D == SUBSET TeamIds
               a == seeds
    <3>1. a \in D /\ step \in [D -> D]
      BY <1>2
    <3>2. \E g \in [Nat -> D] : g = [n \in Nat |-> IF n = 0 THEN a ELSE step[g[n - 1]]]
      <4> HIDE DEF D, a, step
      <4> QED BY SMTT(30), <3>1, IterationExists
    <3> QED BY <3>2
  <2>2. PICK g \in [Nat -> SUBSET TeamIds] : g = [n \in Nat |-> IF n = 0 THEN seeds ELSE step[g[n - 1]]]
    BY <2>1
  <2>3. \A n \in Nat : n # 0 => step[g[n - 1]] = g[n - 1] \cup {t \in Teams : parent[t] \in g[n - 1]}
    OBVIOUS
  <2>4. g = [n \in Nat |-> IF n = 0 THEN seeds
                ELSE g[n - 1] \cup {t \in Teams : parent[t] \in g[n - 1]}]
    <3> HIDE DEF step
    <3> QED BY <2>2, <2>3
  <2> QED BY <2>4
<1> HIDE DEF down
<1>4. down[0] = seeds
  BY <1>3
<1>5. \A n \in Nat : down[n + 1] = down[n] \cup {t \in Teams : parent[t] \in down[n]}
  <2> TAKE n \in Nat
  <2>1. n + 1 \in Nat /\ n + 1 # 0 /\ n + 1 - 1 = n
    OBVIOUS
  <2> QED BY <1>3, <2>1
<1>6. down \in [Nat -> SUBSET TeamIds]
  <2> DEFINE Q == {n \in Nat : down[n] \in SUBSET TeamIds}
  <2>1. 0 \in Q
    BY <1>4
  <2>2. \A n \in Nat : n \in Q => n + 1 \in Q
    BY <1>0, <1>5
  <2>3. Nat \subseteq Q
    <3> HIDE DEF Q
    <3> QED BY <2>1, <2>2, SetInduction
  <2> QED BY <1>3, <2>3
<1>7. \A n \in Nat : down[n + 1] = Grown(down[n], E, TeamIds)
  <2> TAKE n \in Nat
  <2>1. down[n] \in SUBSET TeamIds
    BY <1>6
  <2>2. {t \in Teams : parent[t] \in down[n]} = {y \in TeamIds : \E x \in down[n] : <<x, y>> \in E}
    BY <2>1, <1>0
  <2> QED BY <1>5, <2>2 DEF Grown
<1>8. IsFiniteSet(TeamIds) /\ E \in SUBSET (TeamIds \X TeamIds) /\ TeamIds \in SUBSET TeamIds
  BY <1>0, TeamsAssumption
<1>9. /\ seeds \subseteq down[N]
      /\ Closed(down[N], E, TeamIds)
      /\ \A S : seeds \subseteq S /\ Closed(S, E, TeamIds) => down[N] \subseteq S
  <2>1. GrowsFrom(TeamIds, TeamIds, seeds, E, down)
    BY <1>4, <1>6, <1>7, <1>8 DEF GrowsFrom
  <2> HIDE DEF E, N
  <2> QED BY <2>1, Closure DEF N
<1>10. down[N] \subseteq TeamIds
  BY <1>6, <1>8, FS_CardinalityType
<1>11. \A S : S \subseteq TeamIds =>
          ((\A t \in Teams : parent[t] \in S => t \in S) <=> Closed(S, E, TeamIds))
  BY <1>0 DEF Closed
<1>12. ASSUME NEW S, seeds \subseteq S, \A t \in Teams : parent[t] \in S => t \in S
       PROVE  down[N] \subseteq S
  <2>1. Closed(S \cap TeamIds, E, TeamIds)
    BY <1>0, <1>12 DEF Closed
  <2> HIDE DEF E, N
  <2> QED BY <1>9, <2>1, <1>12
<1> HIDE DEF E, N
<1> QED BY <1>1, <1>9, <1>10, <1>11, <1>12

-----------------------------------------------------------------------------
(* The inductive invariant *)

\* No teams form a cycle: among any there is one whose parent is not of them.
NoCycle ==
  "reparent" \in raced \/
     \A S \in SUBSET Teams : S # {} => \E t \in S : parent[t] \notin S

AtMostOne ==
  "assign" \in raced \/ \A p \in Emails : \A t, u \in TeamsOf(p) : t = u

\* Nothing is under way, and a membership is where the shadow is.
BeforeBackfill ==
  ~ready => /\ \A r \in TeamRequests : req[r].op = "idle"
            /\ \A p \in users : TeamsOf(p) \subseteq {shadow[p]}

\* t is not among what is above p.
Apart(t, p) == p = Root \/ \E S \in SUBSET Places :
                              /\ p \in S /\ t \notin S
                              /\ \A x \in S \cap TeamIds : parent[x] \in S

\* What a request has read still holds, as long as no other has committed.
Knows(q) ==
  /\ q.op = "reparent" => q.team \in Teams /\ Apart(q.team, q.to)
  /\ q.op = "assign" => /\ TeamsOf(q.who) \subseteq {q.team}
                        /\ q.insert <=> q.team \notin TeamsOf(q.who)
                        /\ q.saw = shadow[q.who]
  /\ q.op = "clear" => /\ q.team = NoTeam => TeamsOf(q.who) = {}
                       /\ q.team # NoTeam => q.team \in TeamsOf(q.who)
                       /\ q.saw = shadow[q.who]
  /\ q.op = "remove" => q.team \in TeamsOf(q.who) /\ q.saw = shadow[q.who]

Knowledge == \A r \in TeamRequests : req[r].stale \/ Knows(req[r])

TeamsInv == /\ TeamsTypeOK /\ NoCycle /\ AtMostOne
       /\ BeforeBackfill /\ Knowledge /\ ShadowAgrees

LEMMA TeamsAreIds ==
  ASSUME TeamsTypeOK
  PROVE  /\ Teams \subseteq TeamIds
         /\ parent \in [TeamIds -> Places]
         /\ Root \notin TeamIds /\ Absent \notin TeamIds /\ NoTeam \notin TeamIds
         /\ Root # Absent /\ NoTeam # Absent
BY TeamsAssumption DEF TeamsTypeOK, Teams, Places

LEMMA IdleIsPlan == Idle \in Plan
<1>1. (CHOOSE p \in Emails : TRUE) \in Emails
  BY TeamsAssumption
<1> QED BY <1>1 DEF Idle, Plan

\* ValidParent's walk is the reason why t is apart from p.
LEMMA ValidIsApart ==
  ASSUME TeamsTypeOK, NEW t \in TeamIds, NEW p \in TeamIds \cup {Root}, ValidParent(t, p)
  PROVE  Apart(t, p)
<1>1. CASE p = Root
  BY <1>1 DEF Apart
<1>2. CASE p # Root
  <2>1. p \in Places /\ parent \in [TeamIds -> Places]
    BY TeamsAreIds DEF Places
  <2>2. /\ p \in WalkUp(p)
        /\ \A x \in WalkUp(p) \cap TeamIds : parent[x] \in WalkUp(p)
        /\ \A S : p \in S /\ (\A x \in S \cap TeamIds : parent[x] \in S) => WalkUp(p) \subseteq S
    BY <2>1, WalkUpReaches
  <2>3. \A x \in Places \cap TeamIds : parent[x] \in Places
    BY <2>1
  <2>4. WalkUp(p) \subseteq Places
    BY <2>1, <2>2, <2>3
  <2>5. t \notin WalkUp(p)
    BY <1>2 DEF ValidParent
  <2> QED BY <2>2, <2>4, <2>5 DEF Apart
<1> QED BY <1>1, <1>2

LEMMA TeamsStart == TeamsInit => TeamsInv
<1> SUFFICES ASSUME TeamsInit PROVE TeamsInv
  OBVIOUS
<1>1. TeamsTypeOK
  <2>1. users \subseteq Emails
    BY DEF TeamsInit
  <2>2. members \subseteq users \X Teams
    BY DEF TeamsInit
  <2>3. req \in [TeamRequests -> Plan]
    BY IdleIsPlan DEF TeamsInit
  <2>4. moves \in 0..MaxMoves
    BY TeamsAssumption DEF TeamsInit
  <2>5. /\ parent \in [TeamIds -> TeamIds \cup {Root, Absent}]
        /\ shadow \in [Emails -> Teams \cup {NoTeam}]
        /\ \A p \in Emails \ users : shadow[p] = NoTeam
        /\ \A t \in Teams : parent[t] \in Teams \cup {Root}
        /\ ready \in BOOLEAN /\ raced \subseteq Operations
    BY DEF TeamsInit
  <2> QED BY <2>1, <2>2, <2>3, <2>4, <2>5 DEF TeamsTypeOK
<1>2. NoCycle
  <2> SUFFICES ASSUME NEW S \in SUBSET Teams, S # {}, \A t \in S : parent[t] \in S
               PROVE  FALSE
    BY DEF NoCycle
  <2>1. PICK t \in S : TRUE
    OBVIOUS
  <2>2. t \in Places /\ parent \in [TeamIds -> Places]
    BY <1>1, <2>1, TeamsAreIds DEF Places
  <2>3. WalkUp(t) \subseteq S
    BY <2>1, <2>2, WalkUpReaches
  <2>4. Root \in WalkUp(t)
    BY DEF TeamsInit
  <2> QED BY <1>1, <2>3, <2>4, TeamsAreIds
<1>3. \A p \in users : TeamsOf(p) \subseteq {shadow[p]}
  BY DEF TeamsInit, TeamsOf
<1>4. AtMostOne
  BY <1>1, <1>3 DEF AtMostOne, TeamsOf, TeamsTypeOK
<1>5. BeforeBackfill /\ Knowledge /\ ShadowAgrees
  BY <1>3 DEF BeforeBackfill, Knowledge, ShadowAgrees, Knows, TeamsInit, Idle
<1> QED BY <1>1, <1>2, <1>4, <1>5 DEF TeamsInv

LEMMA BackfillKeeps == ASSUME TeamsInv, Backfill PROVE TeamsInv'
<1>0. Teams' = Teams
  BY DEF Backfill, Teams
<1>1. /\ members' = members \cup {<<p, shadow[p]>> : p \in
                     {u \in users : shadow[u] # NoTeam /\ TeamsOf(u) = {}}}
      /\ users' = users /\ shadow' = shadow /\ parent' = parent /\ req' = req /\ raced' = raced
      /\ ready' = TRUE
  BY DEF Backfill
<1>2. TeamsTypeOK'
  BY <1>0, <1>1 DEF TeamsInv, TeamsTypeOK, Backfill
<1>3. \A p \in Emails : TeamsOf(p)' =
         IF p \in users /\ TeamsOf(p) = {} THEN {shadow[p]} \ {NoTeam} ELSE TeamsOf(p)
  BY <1>0, <1>1 DEF TeamsInv, TeamsTypeOK, TeamsOf
<1>4. NoCycle'
  BY <1>0, <1>1 DEF TeamsInv, NoCycle
<1>5. AtMostOne'
  BY <1>1, <1>3 DEF TeamsInv, AtMostOne
<1>6. BeforeBackfill' /\ Knowledge'
  BY <1>1 DEF TeamsInv, BeforeBackfill, Knowledge, Knows, Backfill
<1>7. ShadowAgrees'
  <2>1. \A p \in users : TeamsOf(p) \subseteq {shadow[p]} /\ NoTeam \notin TeamsOf(p)
    BY TeamsAreIds DEF TeamsInv, BeforeBackfill, Backfill, TeamsOf
  <2>2. users \subseteq Emails
    BY DEF TeamsInv, TeamsTypeOK
  <2> QED BY <1>1, <1>3, <2>1, <2>2 DEF ShadowAgrees
<1> QED BY <1>2, <1>4, <1>5, <1>6, <1>7 DEF TeamsInv

-----------------------------------------------------------------------------
(* What a handler decides *)

\* Reading changes nothing, so what the others know still holds.
LEMMA DecideKeeps ==
  ASSUME TeamsInv, NEW r \in TeamRequests, NEW plan \in Plan, Knows(plan), Decide(r, plan)
  PROVE  TeamsInv'
<1>1. /\ parent' = parent /\ users' = users /\ members' = members /\ shadow' = shadow
      /\ ready' = ready /\ raced' = raced /\ ready
      /\ moves' = moves + 1 /\ moves < MaxMoves
      /\ req' = [req EXCEPT ![r] = plan]
  BY DEF Decide, teamsData
<1>2. Teams' = Teams
  BY <1>1 DEF Teams
<1>3. \A p : TeamsOf(p)' = TeamsOf(p)
  BY <1>1, <1>2 DEF TeamsOf
<1>4. TeamsTypeOK'
  <2>1. req' \in [TeamRequests -> Plan]
    BY <1>1 DEF TeamsInv, TeamsTypeOK
  <2>2. moves' \in 0..MaxMoves
    BY <1>1, TeamsAssumption DEF TeamsInv, TeamsTypeOK
  <2> QED BY <1>1, <1>2, <2>1, <2>2 DEF TeamsInv, TeamsTypeOK
<1>5. NoCycle' /\ AtMostOne' /\ ShadowAgrees'
  BY <1>1, <1>2, <1>3 DEF TeamsInv, NoCycle, AtMostOne, ShadowAgrees
<1>6. BeforeBackfill'
  BY <1>1 DEF BeforeBackfill
<1>7. \A q : Knows(q)' <=> Knows(q)
  BY <1>1, <1>2, <1>3 DEF Knows, Apart
<1>8. Knowledge'
  <2> SUFFICES ASSUME NEW q \in TeamRequests PROVE (req[q].stale \/ Knows(req[q]))'
    BY DEF Knowledge
  <2>1. CASE q = r
    <3>1. req'[q] = plan
      BY <1>1, <2>1 DEF TeamsInv, TeamsTypeOK
    <3> QED BY <3>1, <1>7
  <2>2. CASE q # r
    <3>1. req'[q] = req[q]
      BY <1>1, <2>2
    <3>2. req[q].stale \/ Knows(req[q])
      BY DEF TeamsInv, Knowledge
    <3> QED BY <3>1, <3>2, <1>7
  <2> QED BY <2>1, <2>2
<1> QED BY <1>4, <1>5, <1>6, <1>8 DEF TeamsInv

\* Each handler decides on what it has just read.
LEMMA HandlersKeep == ASSUME TeamsInv, NEW r \in TeamRequests, HandleTeams(r) PROVE TeamsInv'
<1> USE DEF Plan, Operations
<1>0. Idle \in Plan /\ TeamsTypeOK
  BY IdleIsPlan DEF TeamsInv
<1>1. ASSUME NEW t \in TeamIds, CreateTeam(r, t) PROVE TeamsInv'
  <2>1. PICK p \in TeamIds \cup {Root} :
           Decide(r, [Idle EXCEPT !.op = "create_team", !.team = t, !.to = p])
    BY <1>1 DEF CreateTeam
  <2> DEFINE plan == [Idle EXCEPT !.op = "create_team", !.team = t, !.to = p]
  <2>2. plan \in Plan /\ plan.op = "create_team"
    BY <1>0
  <2>3. Knows(plan)
    BY <2>2 DEF Knows
  <2> HIDE DEF plan
  <2> QED BY <2>1, <2>2, <2>3, DecideKeeps DEF plan
<1>2. ASSUME NEW t \in TeamIds, UpdateTeam(r, t) PROVE TeamsInv'
  <2>1. PICK p \in TeamIds \cup {Root} :
           /\ parent[t] # Absent /\ ValidParent(t, p)
           /\ Decide(r, [Idle EXCEPT !.op = "reparent", !.team = t, !.to = p])
    BY <1>2 DEF UpdateTeam
  <2> DEFINE plan == [Idle EXCEPT !.op = "reparent", !.team = t, !.to = p]
  <2>2. plan \in Plan /\ plan.op = "reparent" /\ plan.team = t /\ plan.to = p
    BY <1>0
  <2>3. Apart(t, p)
    BY <1>0, <2>1, ValidIsApart
  <2>4. Knows(plan)
    BY <2>1, <2>2, <2>3 DEF Knows, Teams
  <2> HIDE DEF plan
  <2> QED BY <2>1, <2>2, <2>4, DecideKeeps DEF plan
<1>3. ASSUME NEW t \in TeamIds, DeleteTeam(r, t) PROVE TeamsInv'
  <2> DEFINE plan == [Idle EXCEPT !.op = "delete_team", !.team = t]
  <2>2. plan \in Plan /\ plan.op = "delete_team"
    BY <1>0
  <2>3. Knows(plan)
    BY <2>2 DEF Knows
  <2>4. Decide(r, plan)
    BY <1>3 DEF DeleteTeam
  <2> HIDE DEF plan
  <2> QED BY <2>2, <2>3, <2>4, DecideKeeps
<1>4. ASSUME NEW p \in Emails, ClearTeam(r, p) PROVE TeamsInv'
  <2>0. Teams \subseteq TeamIds /\ NoTeam \notin TeamIds
    BY <1>0, TeamsAreIds
  <2>1. PICK t \in (IF TeamsOf(p) = {} THEN {NoTeam} ELSE TeamsOf(p)) :
           Decide(r, [Idle EXCEPT !.op = "clear", !.who = p, !.team = t, !.saw = shadow[p]])
    BY <1>4 DEF ClearTeam
  <2>2. t \in TeamIds \cup {NoTeam} /\ shadow[p] \in TeamIds \cup {NoTeam}
    BY <1>0, <2>0 DEF TeamsOf, TeamsTypeOK
  <2> DEFINE plan == [Idle EXCEPT !.op = "clear", !.who = p, !.team = t, !.saw = shadow[p]]
  <2>3. plan \in Plan /\ plan.op = "clear" /\ plan.who = p /\ plan.team = t /\ plan.saw = shadow[p]
    BY <1>0, <2>2
  <2>4. Knows(plan)
    BY <2>0, <2>1, <2>3 DEF Knows, TeamsOf
  <2> HIDE DEF plan
  <2> QED BY <2>1, <2>3, <2>4, DecideKeeps DEF plan
<1>5. ASSUME NEW p \in Emails, CreateUser(r, p) PROVE TeamsInv'
  <2>1. PICK t \in TeamIds \cup {NoTeam} :
           Decide(r, [Idle EXCEPT !.op = "create_user", !.who = p, !.team = t])
    BY <1>5 DEF CreateUser
  <2> DEFINE plan == [Idle EXCEPT !.op = "create_user", !.who = p, !.team = t]
  <2>2. plan \in Plan /\ plan.op = "create_user"
    BY <1>0
  <2>3. Knows(plan)
    BY <2>2 DEF Knows
  <2> HIDE DEF plan
  <2> QED BY <2>1, <2>2, <2>3, DecideKeeps DEF plan
<1>6. ASSUME NEW p \in Emails, DeleteUser(r, p) PROVE TeamsInv'
  <2> DEFINE plan == [Idle EXCEPT !.op = "delete_user", !.who = p]
  <2>2. plan \in Plan /\ plan.op = "delete_user"
    BY <1>0
  <2>3. Knows(plan)
    BY <2>2 DEF Knows
  <2>4. Decide(r, plan)
    BY <1>6 DEF DeleteUser
  <2> HIDE DEF plan
  <2> QED BY <2>2, <2>3, <2>4, DecideKeeps
<1>7. ASSUME NEW p \in Emails, NEW t \in TeamIds, Assign(r, p, t) PROVE TeamsInv'
  <2> DEFINE plan == [Idle EXCEPT !.op = "assign", !.who = p, !.team = t,
                                  !.insert = (t \notin TeamsOf(p)), !.saw = shadow[p]]
  <2>1. shadow[p] \in TeamIds \cup {NoTeam}
    BY <1>0, TeamsAreIds DEF TeamsTypeOK
  <2>2. /\ plan \in Plan /\ plan.op = "assign" /\ plan.who = p /\ plan.team = t
        /\ plan.insert = (t \notin TeamsOf(p)) /\ plan.saw = shadow[p]
    BY <1>0, <2>1
  <2>3. Knows(plan)
    <3>1. TeamsOf(p) \subseteq {t}
      BY <1>7 DEF Assign, MayJoin
    <3> HIDE DEF plan
    <3> QED BY <2>2, <3>1 DEF Knows
  <2>4. Decide(r, plan)
    BY <1>7 DEF Assign
  <2> HIDE DEF plan
  <2> QED BY <2>2, <2>3, <2>4, DecideKeeps
<1>8. ASSUME NEW p \in Emails, NEW t \in TeamIds, RemoveMember(r, p, t) PROVE TeamsInv'
  <2> DEFINE plan == [Idle EXCEPT !.op = "remove", !.who = p, !.team = t, !.saw = shadow[p]]
  <2>1. shadow[p] \in TeamIds \cup {NoTeam}
    BY <1>0, TeamsAreIds DEF TeamsTypeOK
  <2>2. plan \in Plan /\ plan.op = "remove" /\ plan.who = p /\ plan.team = t /\ plan.saw = shadow[p]
    BY <1>0, <2>1
  <2>3. Knows(plan)
    <3>1. t \in TeamsOf(p)
      BY <1>0, <1>8 DEF RemoveMember, TeamsOf, TeamsTypeOK
    <3> HIDE DEF plan
    <3> QED BY <2>2, <3>1 DEF Knows
  <2>4. Decide(r, plan)
    BY <1>8 DEF RemoveMember
  <2> HIDE DEF plan
  <2> QED BY <2>2, <2>3, <2>4, DecideKeeps
<1> QED BY <1>1, <1>2, <1>3, <1>4, <1>5, <1>6, <1>7, <1>8 DEF HandleTeams

-----------------------------------------------------------------------------
(* Commits *)

\* After a commit nobody knows anything any more, and whoever committed on
\* what another had changed is remembered.
LEMMA FinishKeeps ==
  ASSUME TeamsInv, NEW r \in TeamRequests, req[r].op # "idle", Finish(r, TRUE)
  PROVE  /\ req' \in [TeamRequests -> Plan] /\ Knowledge' /\ BeforeBackfill'
         /\ ready /\ ready' = ready /\ moves' = moves
         /\ raced \subseteq raced' /\ raced' \subseteq Operations
         /\ req[r].stale => req[r].op \in raced'
<1>1. req \in [TeamRequests -> Plan] /\ raced \subseteq Operations /\ req[r] \in Plan
  BY DEF TeamsInv, TeamsTypeOK
<1>2. \A q \in TeamRequests : \E b \in BOOLEAN :
         /\ b <=> req[q].stale \/ req[q].op # "idle"
         /\ req'[q] = IF q = r THEN Idle ELSE [req[q] EXCEPT !.stale = b]
  <2> TAKE q \in TeamRequests
  <2> DEFINE b == req[q].stale \/ req[q].op # "idle"
  <2>1. b \in BOOLEAN /\ req'[q] = IF q = r THEN Idle ELSE [req[q] EXCEPT !.stale = b]
    BY DEF Finish
  <2> HIDE DEF b
  <2>2. req'[q] = IF q = r THEN Idle ELSE [req[q] EXCEPT !.stale = b]
    BY <2>1
  <2> QED BY <2>1, <2>2 DEF b
<1>3. req' \in [TeamRequests -> Plan]
  <2>1. ASSUME NEW q \in TeamRequests PROVE req'[q] \in Plan
    <3>1. PICK b \in BOOLEAN : req'[q] = IF q = r THEN Idle ELSE [req[q] EXCEPT !.stale = b]
      BY <1>2
    <3>2. req[q] \in Plan
      BY <1>1
    <3> QED BY <3>1, <3>2, IdleIsPlan DEF Plan
  <2>2. req' = [q \in TeamRequests |-> req'[q]]
    BY DEF Finish
  <2> QED BY <2>1, <2>2
<1>4. Knowledge'
  <2> SUFFICES ASSUME NEW q \in TeamRequests PROVE (req[q].stale \/ Knows(req[q]))'
    BY DEF Knowledge
  <2>1. CASE q = r \/ req[q].op = "idle"
    <3>1. PICK b \in BOOLEAN : req'[q] = IF q = r THEN Idle ELSE [req[q] EXCEPT !.stale = b]
      BY <1>2
    <3>2. req'[q].op = "idle"
      BY <1>1, <2>1, <3>1 DEF Idle, Plan
    <3> QED BY <3>2 DEF Knows
  <2>2. CASE q # r /\ req[q].op # "idle"
    <3>1. PICK b \in BOOLEAN : b /\ req'[q] = [req[q] EXCEPT !.stale = b]
      BY <1>2, <2>2
    <3>2. req'[q].stale
      BY <1>1, <3>1 DEF Plan
    <3> QED BY <3>2
  <2> QED BY <2>1, <2>2
<1>5. ready /\ ready' = ready /\ moves' = moves
  BY DEF TeamsInv, BeforeBackfill, Finish
<1>6. raced \subseteq raced' /\ raced' \subseteq Operations /\ (req[r].stale => req[r].op \in raced')
  BY <1>1 DEF Finish, Plan
<1>7. BeforeBackfill'
  BY <1>5 DEF BeforeBackfill
<1> QED BY <1>3, <1>4, <1>5, <1>6, <1>7

\* A move puts a team under one that is not below it, as far as it knows.
LEMMA WriteTeamKeeps == ASSUME TeamsInv, NEW r \in TeamRequests, WriteTeam(r) PROVE TeamsInv'
<1> DEFINE q == req[r]
           t == q.team
<1>1. /\ q.op \in {"create_team", "reparent"}
      /\ (q.op = "create_team") <=> (parent[t] = Absent)
      /\ q.to \in Teams \cup {Root}
      /\ parent' = [parent EXCEPT ![t] = q.to]
      /\ Finish(r, TRUE)
      /\ users' = users /\ members' = members /\ shadow' = shadow
  BY DEF WriteTeam
<1>2. /\ req' \in [TeamRequests -> Plan] /\ Knowledge' /\ BeforeBackfill'
      /\ ready /\ ready' = ready /\ moves' = moves
      /\ raced \subseteq raced' /\ raced' \subseteq Operations
      /\ q.stale => q.op \in raced'
  BY <1>1, FinishKeeps
<1>3. /\ TeamsTypeOK /\ Teams \subseteq TeamIds
      /\ parent \in [TeamIds -> Places]
      /\ Root \notin TeamIds /\ Absent \notin TeamIds /\ NoTeam \notin TeamIds
      /\ Root # Absent /\ NoTeam # Absent
  BY TeamsAreIds DEF TeamsInv
<1>4. t \in TeamIds \cup {NoTeam} /\ q \in Plan
  BY <1>3 DEF TeamsTypeOK, Plan
<1>5. Teams' = Teams \cup ({t} \cap TeamIds)
  BY <1>1, <1>3, <1>4 DEF Teams, Places
<1>6. \A x \in TeamIds : parent'[x] = IF x = t THEN q.to ELSE parent[x]
  BY <1>1, <1>3
<1>7. TeamsTypeOK'
  <2>1. parent' \in [TeamIds -> TeamIds \cup {Root, Absent}]
    BY <1>1, <1>3 DEF Places
  <2>2. \A x \in Teams' : parent'[x] \in Teams' \cup {Root}
    BY <1>1, <1>3, <1>5, <1>6 DEF TeamsTypeOK, Teams
  <2>3. members' \subseteq users' \X Teams' /\ shadow' \in [Emails -> Teams' \cup {NoTeam}]
    BY <1>1, <1>3, <1>5 DEF TeamsTypeOK
  <2> QED BY <1>1, <1>2, <1>3, <2>1, <2>2, <2>3 DEF TeamsTypeOK
<1>8. \A p : TeamsOf(p)' = TeamsOf(p)
  <2>1. \A p, x : <<p, x>> \in members => x \in Teams
    BY <1>3 DEF TeamsTypeOK
  <2> QED BY <1>1, <1>5, <2>1 DEF TeamsOf
<1>9. AtMostOne' /\ ShadowAgrees'
  BY <1>1, <1>2, <1>8 DEF TeamsInv, AtMostOne, ShadowAgrees
<1>10. NoCycle'
  <2> SUFFICES ASSUME "reparent" \notin raced', NEW S \in SUBSET Teams', S # {},
                      \A x \in S : parent'[x] \in S
               PROVE  FALSE
    BY DEF NoCycle
  <2>0. \A T \in SUBSET Teams : T # {} => \E x \in T : parent[x] \notin T
    BY <1>2 DEF TeamsInv, NoCycle
  <2>1. CASE t \notin S
    <3>1. S \in SUBSET Teams /\ \A x \in S : parent[x] \in S
      BY <1>3, <1>5, <1>6, <2>1
    <3> QED BY <2>0, <3>1
  <2>2. CASE t \in S /\ q.op = "create_team"
    <3>1. t \in TeamIds /\ t \notin Teams
      BY <1>1, <1>3, <1>5, <2>2 DEF Teams
    <3> DEFINE T == S \ {t}
    <3>2. T \in SUBSET Teams
      BY <1>5
    <3>3. q.to \in S /\ q.to # t
      BY <1>1, <1>3, <1>6, <2>2, <3>1
    <3>4. \A x \in T : parent[x] \in T
      <4> TAKE x \in T
      <4>1. parent[x] \in S
        BY <1>3, <1>6, <3>2
      <4>2. parent[x] # t
        BY <1>3, <3>1, <3>2 DEF TeamsTypeOK
      <4> QED BY <4>1, <4>2
    <3> HIDE DEF T
    <3>5. T # {}
      BY <3>3 DEF T
    <3> QED BY <2>0, <3>2, <3>4, <3>5
  <2>3. CASE t \in S /\ q.op = "reparent"
    <3>1. t \in TeamIds
      BY <1>3, <1>5, <2>3
    <3>2. ~q.stale
      BY <1>2, <2>3
    <3>3. t \in Teams /\ Apart(t, q.to)
      BY <2>3, <3>2 DEF TeamsInv, Knowledge, Knows
    <3>4. q.to \in S /\ q.to # Root
      BY <1>3, <1>5, <1>6, <2>3, <3>1, <3>3
    <3>5. PICK A \in SUBSET Places : /\ q.to \in A /\ t \notin A
                                     /\ \A x \in A \cap TeamIds : parent[x] \in A
      BY <3>3, <3>4 DEF Apart
    <3> DEFINE T == S \cap A
    <3>6. T \in SUBSET Teams
      BY <1>5, <3>3
    <3>7. q.to \in T
      BY <3>4, <3>5
    <3>8. \A x \in T : parent[x] \in T
      BY <1>3, <1>6, <3>5, <3>6
    <3> HIDE DEF T
    <3> QED BY <2>0, <3>6, <3>7, <3>8
  <2> QED BY <1>1, <2>1, <2>2, <2>3
<1> QED BY <1>2, <1>7, <1>9, <1>10 DEF TeamsInv

\* Children of a deleted team become roots; nobody belonged to it.
LEMMA DropTeamKeeps == ASSUME TeamsInv, NEW r \in TeamRequests, DropTeam(r) PROVE TeamsInv'
<1> DEFINE t == req[r].team
<1>1. /\ req[r].op = "delete_team"
      /\ \A p \in Emails : <<p, t>> \notin members
      /\ parent' = [x \in TeamIds |-> IF x = t THEN Absent
                                    ELSE IF parent[x] = t THEN Root ELSE parent[x]]
      /\ shadow' = [p \in Emails |-> IF shadow[p] = t THEN NoTeam ELSE shadow[p]]
      /\ Finish(r, TRUE)
      /\ users' = users /\ members' = members
  BY DEF DropTeam
<1>2. /\ req' \in [TeamRequests -> Plan] /\ Knowledge' /\ BeforeBackfill'
      /\ ready /\ ready' = ready /\ moves' = moves
      /\ raced \subseteq raced' /\ raced' \subseteq Operations
  BY <1>1, FinishKeeps
<1>3. /\ TeamsTypeOK /\ Teams \subseteq TeamIds
      /\ parent \in [TeamIds -> Places]
      /\ Root \notin TeamIds /\ Absent \notin TeamIds /\ NoTeam \notin TeamIds
      /\ Root # Absent /\ NoTeam # Absent
  BY TeamsAreIds DEF TeamsInv
<1>4. t \in TeamIds \cup {NoTeam}
  BY <1>3 DEF TeamsTypeOK, Plan
<1>5. \A x \in TeamIds : parent'[x] = IF x = t THEN Absent
                                      ELSE IF parent[x] = t THEN Root ELSE parent[x]
  BY <1>1
<1>6. Teams' = Teams \ {t}
  <2>1. ASSUME NEW x \in TeamIds PROVE parent'[x] # Absent <=> parent[x] # Absent /\ x # t
    <3>1. parent'[x] = IF x = t THEN Absent ELSE IF parent[x] = t THEN Root ELSE parent[x]
      BY <1>5
    <3> QED BY <1>3, <1>4, <3>1
  <2> QED BY <2>1 DEF Teams
<1>7. TeamsTypeOK'
  <2>1. parent' \in [TeamIds -> TeamIds \cup {Root, Absent}]
    BY <1>1, <1>3 DEF Places
  <2>2. \A x \in Teams' : parent'[x] \in Teams' \cup {Root}
    BY <1>3, <1>5, <1>6 DEF TeamsTypeOK
  <2>3. members' \subseteq users' \X Teams'
    BY <1>1, <1>3, <1>6 DEF TeamsTypeOK
  <2>4. shadow' \in [Emails -> Teams' \cup {NoTeam}]
    BY <1>1, <1>3, <1>6 DEF TeamsTypeOK
  <2>5. \A p \in Emails \ users' : shadow'[p] = NoTeam
    BY <1>1, <1>3 DEF TeamsTypeOK
  <2> QED BY <1>1, <1>2, <1>3, <2>1, <2>2, <2>3, <2>4, <2>5 DEF TeamsTypeOK
<1>8. \A p \in Emails : TeamsOf(p)' = TeamsOf(p) /\ t \notin TeamsOf(p)
  BY <1>1, <1>6 DEF TeamsOf
<1>9. AtMostOne'
  BY <1>2, <1>8 DEF TeamsInv, AtMostOne
<1>10. ShadowAgrees'
  <2>1. users \subseteq Emails
    BY <1>3 DEF TeamsTypeOK
  <2>2. \A p \in Emails : shadow'[p] = IF shadow[p] = t THEN NoTeam ELSE shadow[p]
    BY <1>1
  <2> QED BY <1>1, <1>2, <1>3, <1>8, <2>1, <2>2 DEF TeamsInv, ShadowAgrees
<1>11. NoCycle'
  <2> SUFFICES ASSUME "reparent" \notin raced', NEW S \in SUBSET Teams', S # {},
                      \A x \in S : parent'[x] \in S
               PROVE  FALSE
    BY DEF NoCycle
  <2>0. \A T \in SUBSET Teams : T # {} => \E x \in T : parent[x] \notin T
    BY <1>2 DEF TeamsInv, NoCycle
  <2>1. S \in SUBSET Teams /\ \A x \in S : parent[x] \in S
    BY <1>3, <1>5, <1>6
  <2> QED BY <2>0, <2>1
<1> QED BY <1>2, <1>7, <1>9, <1>10, <1>11 DEF TeamsInv

\* Memberships and shadows, person by person.
LEMMA WriteAssignKeeps == ASSUME TeamsInv, NEW r \in TeamRequests, WriteAssign(r) PROVE TeamsInv'
<1> DEFINE q == req[r]
<1>1. /\ q.op = "assign"
      /\ q.insert => q.who \in users /\ q.team \in Teams
      /\ q.saw # q.team => q.who \in users /\ q.team \in Teams
      /\ members' = IF q.insert THEN members \cup {<<q.who, q.team>>} ELSE members
      /\ shadow' = IF q.saw # q.team THEN [shadow EXCEPT ![q.who] = q.team] ELSE shadow
      /\ Finish(r, TRUE)
      /\ parent' = parent /\ users' = users
  BY DEF WriteAssign
<1>2. /\ req' \in [TeamRequests -> Plan] /\ Knowledge' /\ BeforeBackfill'
      /\ ready /\ ready' = ready /\ moves' = moves
      /\ raced \subseteq raced' /\ raced' \subseteq Operations
      /\ q.stale => "assign" \in raced'
  BY <1>1, FinishKeeps
<1>3. TeamsTypeOK /\ q \in Plan /\ q.who \in Emails /\ Teams' = Teams
  BY <1>1 DEF TeamsInv, TeamsTypeOK, Plan, Teams
<1>4. TeamsTypeOK'
  <2>1. members' \subseteq users' \X Teams'
    BY <1>1, <1>3 DEF TeamsTypeOK
  <2>2. shadow' \in [Emails -> Teams' \cup {NoTeam}]
    BY <1>1, <1>3 DEF TeamsTypeOK
  <2>3. \A p \in Emails \ users' : shadow'[p] = NoTeam
    BY <1>1, <1>3 DEF TeamsTypeOK
  <2> QED BY <1>1, <1>2, <1>3, <2>1, <2>2, <2>3 DEF TeamsTypeOK
<1>5. \A p \in Emails : TeamsOf(p)' = IF p = q.who /\ q.insert THEN TeamsOf(p) \cup {q.team}
                                      ELSE TeamsOf(p)
  BY <1>1, <1>3 DEF TeamsOf
<1>6. NoCycle'
  BY <1>1, <1>2, <1>3 DEF TeamsInv, NoCycle
<1>7. CASE q.stale
  BY <1>2, <1>4, <1>6, <1>7 DEF TeamsInv, AtMostOne, ShadowAgrees
<1>8. CASE ~q.stale
  <2>1. /\ TeamsOf(q.who) \subseteq {q.team}
        /\ q.insert <=> q.team \notin TeamsOf(q.who)
        /\ q.saw = shadow[q.who]
    BY <1>1, <1>8 DEF TeamsInv, Knowledge, Knows
  <2>2. \A p \in Emails : p = q.who => TeamsOf(p)' = {q.team}
    BY <1>3, <1>5, <2>1
  <2>3. \A p \in Emails \ {q.who} : TeamsOf(p)' = TeamsOf(p)
    BY <1>5
  <2>4. AtMostOne'
    BY <1>2, <2>2, <2>3 DEF TeamsInv, AtMostOne
  <2>5. q.who \in users => q.team # NoTeam
    <3>1. q.team \in Teams
      BY <1>1, <2>1 DEF TeamsOf
    <3> QED BY <1>3, <3>1, TeamsAreIds
  <2>6. shadow'[q.who] = q.team /\ \A p \in Emails \ {q.who} : shadow'[p] = shadow[p]
    BY <1>1, <1>3, <2>1 DEF TeamsTypeOK
  <2>7. ShadowAgrees'
    <3>1. users \subseteq Emails
      BY <1>3 DEF TeamsTypeOK
    <3> QED BY <1>1, <1>2, <2>2, <2>3, <2>5, <2>6, <3>1 DEF TeamsInv, ShadowAgrees
  <2> QED BY <1>2, <1>4, <1>6, <2>4, <2>7 DEF TeamsInv
<1> QED BY <1>7, <1>8

LEMMA WriteRemoveKeeps == ASSUME TeamsInv, NEW r \in TeamRequests, WriteRemove(r) PROVE TeamsInv'
<1> DEFINE q == req[r]
           clears == IF q.op = "clear" THEN q.saw # NoTeam ELSE q.saw = q.team
<1>1. /\ q.op \in {"clear", "remove"}
      /\ clears => q.who \in users
      /\ members' = members \ {<<q.who, q.team>>}
      /\ shadow' = IF clears THEN [shadow EXCEPT ![q.who] = NoTeam] ELSE shadow
      /\ Finish(r, TRUE)
      /\ parent' = parent /\ users' = users
  BY DEF WriteRemove
<1>2. /\ req' \in [TeamRequests -> Plan] /\ Knowledge' /\ BeforeBackfill'
      /\ ready /\ ready' = ready /\ moves' = moves
      /\ raced \subseteq raced' /\ raced' \subseteq Operations
      /\ q.stale => q.op \in raced'
  BY <1>1, FinishKeeps
<1>3. TeamsTypeOK /\ q \in Plan /\ q.who \in Emails /\ Teams' = Teams
  BY <1>1 DEF TeamsInv, TeamsTypeOK, Plan, Teams
<1>4. TeamsTypeOK'
  <2>1. shadow' \in [Emails -> Teams' \cup {NoTeam}]
    BY <1>1, <1>3 DEF TeamsTypeOK
  <2>2. \A p \in Emails \ users' : shadow'[p] = NoTeam
    BY <1>1, <1>3 DEF TeamsTypeOK
  <2> QED BY <1>1, <1>2, <1>3, <2>1, <2>2 DEF TeamsTypeOK
<1>5. \A p \in Emails : TeamsOf(p)' = IF p = q.who THEN TeamsOf(p) \ {q.team} ELSE TeamsOf(p)
  BY <1>1, <1>3 DEF TeamsOf
<1>6. NoCycle' /\ AtMostOne'
  BY <1>1, <1>2, <1>3, <1>5 DEF TeamsInv, NoCycle, AtMostOne
<1>7. CASE q.stale
  BY <1>1, <1>2, <1>4, <1>6, <1>7 DEF TeamsInv, ShadowAgrees
<1>8. CASE ~q.stale
  <2>1. /\ q.op = "clear" => /\ q.team = NoTeam => TeamsOf(q.who) = {}
                             /\ q.team # NoTeam => q.team \in TeamsOf(q.who)
                             /\ q.saw = shadow[q.who]
        /\ q.op = "remove" => q.team \in TeamsOf(q.who) /\ q.saw = shadow[q.who]
    BY <1>8 DEF TeamsInv, Knowledge, Knows
  <2>2. users \subseteq Emails /\ NoTeam \notin Teams
    BY <1>3, TeamsAreIds DEF TeamsTypeOK
  <2>3. \A p \in Emails : shadow'[p] = IF p = q.who /\ clears THEN NoTeam ELSE shadow[p]
    BY <1>1, <1>3 DEF TeamsTypeOK
  <2>4. ASSUME \A p \in users : TeamsOf(p) = {shadow[p]} \ {NoTeam}, NEW p \in users
        PROVE  TeamsOf(p)' = {shadow'[p]} \ {NoTeam}
    <3>1. CASE p # q.who
      BY <1>5, <2>2, <2>3, <2>4, <3>1
    <3>2. CASE p = q.who
      <4>1. TeamsOf(p) = {shadow[p]} \ {NoTeam} /\ TeamsOf(p)' = TeamsOf(p) \ {q.team}
        BY <1>5, <2>2, <2>4, <3>2
      <4>2. q.team \in TeamsOf(p) => q.team \in Teams
        BY DEF TeamsOf
      <4>3. clears => shadow'[p] = NoTeam
        BY <2>2, <2>3, <3>2
      <4>4. ~clears => shadow'[p] = shadow[p]
        BY <2>2, <2>3
      <4>5. TeamsOf(p)' = {}
        BY <1>1, <2>1, <2>2, <3>2, <4>1, <4>2
      <4>6. ~clears => shadow[p] = NoTeam
        BY <1>1, <2>1, <2>2, <3>2, <4>1, <4>2
      <4> HIDE DEF clears
      <4> QED BY <4>3, <4>4, <4>5, <4>6
    <3> QED BY <3>1, <3>2
  <2>5. ShadowAgrees'
    BY <1>1, <1>2, <2>4 DEF TeamsInv, ShadowAgrees
  <2> QED BY <1>2, <1>4, <1>6, <2>5 DEF TeamsInv
<1> QED BY <1>7, <1>8

LEMMA InsertUserKeeps == ASSUME TeamsInv, NEW r \in TeamRequests, InsertUser(r) PROVE TeamsInv'
<1> DEFINE q == req[r]
<1>1. /\ q.op = "create_user"
      /\ q.who \notin users
      /\ q.team \in Teams \cup {NoTeam}
      /\ users' = users \cup {q.who}
      /\ members' = IF q.team = NoTeam THEN members ELSE members \cup {<<q.who, q.team>>}
      /\ shadow' = [shadow EXCEPT ![q.who] = q.team]
      /\ Finish(r, TRUE)
      /\ parent' = parent
  BY DEF InsertUser
<1>2. /\ req' \in [TeamRequests -> Plan] /\ Knowledge' /\ BeforeBackfill'
      /\ ready /\ ready' = ready /\ moves' = moves
      /\ raced \subseteq raced' /\ raced' \subseteq Operations
  BY <1>1, FinishKeeps
<1>3. /\ TeamsTypeOK /\ q \in Plan /\ q.who \in Emails /\ Teams' = Teams
      /\ NoTeam \notin Teams
  BY <1>1, TeamsAreIds DEF TeamsInv, TeamsTypeOK, Plan, Teams
<1>4. TeamsTypeOK'
  <2>1. shadow' \in [Emails -> Teams' \cup {NoTeam}]
    BY <1>1, <1>3 DEF TeamsTypeOK
  <2>2. \A p \in Emails \ users' : shadow'[p] = NoTeam
    BY <1>1, <1>3 DEF TeamsTypeOK
  <2>3. members' \subseteq users' \X Teams' /\ users' \subseteq Emails
    BY <1>1, <1>3 DEF TeamsTypeOK
  <2> QED BY <1>1, <1>2, <1>3, <2>1, <2>2, <2>3 DEF TeamsTypeOK
<1>5. TeamsOf(q.who) = {}
  BY <1>1, <1>3 DEF TeamsOf, TeamsTypeOK
<1>6. \A p \in Emails : TeamsOf(p)' = IF p = q.who THEN {q.team} \ {NoTeam} ELSE TeamsOf(p)
  BY <1>1, <1>3, <1>5 DEF TeamsOf
<1>7. NoCycle' /\ AtMostOne'
  BY <1>1, <1>2, <1>3, <1>6 DEF TeamsInv, NoCycle, AtMostOne
<1>8. ShadowAgrees'
  <2>1. users \subseteq Emails /\ \A p \in Emails : shadow'[p] = IF p = q.who THEN q.team ELSE shadow[p]
    BY <1>1, <1>3 DEF TeamsTypeOK
  <2> QED BY <1>1, <1>2, <1>3, <1>6, <2>1 DEF TeamsInv, ShadowAgrees
<1> QED BY <1>2, <1>4, <1>7, <1>8 DEF TeamsInv

LEMMA DropUserKeeps == ASSUME TeamsInv, NEW r \in TeamRequests, DropUser(r) PROVE TeamsInv'
<1> DEFINE who == req[r].who
<1>1. /\ req[r].op = "delete_user"
      /\ users' = users \ {who}
      /\ members' = {m \in members : m[1] # who}
      /\ shadow' = [shadow EXCEPT ![who] = NoTeam]
      /\ Finish(r, TRUE)
      /\ parent' = parent
  BY DEF DropUser
<1>2. /\ req' \in [TeamRequests -> Plan] /\ Knowledge' /\ BeforeBackfill'
      /\ ready /\ ready' = ready /\ moves' = moves
      /\ raced \subseteq raced' /\ raced' \subseteq Operations
  BY <1>1, FinishKeeps
<1>3. TeamsTypeOK /\ who \in Emails /\ Teams' = Teams
  BY <1>1 DEF TeamsInv, TeamsTypeOK, Plan, Teams
<1>4. TeamsTypeOK'
  <2>1. shadow' \in [Emails -> Teams' \cup {NoTeam}]
    BY <1>1, <1>3 DEF TeamsTypeOK
  <2>2. \A p \in Emails \ users' : shadow'[p] = NoTeam
    BY <1>1, <1>3 DEF TeamsTypeOK
  <2>3. members' \subseteq users' \X Teams' /\ users' \subseteq Emails
    BY <1>1, <1>3 DEF TeamsTypeOK
  <2> QED BY <1>1, <1>2, <1>3, <2>1, <2>2, <2>3 DEF TeamsTypeOK
<1>5. \A p \in Emails : TeamsOf(p)' = IF p = who THEN {} ELSE TeamsOf(p)
  BY <1>1, <1>3 DEF TeamsOf
<1>6. NoCycle' /\ AtMostOne'
  BY <1>1, <1>2, <1>3, <1>5 DEF TeamsInv, NoCycle, AtMostOne
<1>7. ShadowAgrees'
  <2>1. users \subseteq Emails /\ \A p \in users' : p # who /\ shadow'[p] = shadow[p]
    BY <1>1, <1>3 DEF TeamsTypeOK
  <2> QED BY <1>1, <1>2, <1>5, <2>1 DEF TeamsInv, ShadowAgrees
<1> QED BY <1>2, <1>4, <1>6, <1>7 DEF TeamsInv

\* A roll-back forgets the request and touches nothing.
LEMMA RollBackKeeps == ASSUME TeamsInv, NEW r \in TeamRequests, RollBack(r) PROVE TeamsInv'
<1>1. /\ req[r].op # "idle" /\ Finish(r, FALSE)
      /\ parent' = parent /\ users' = users /\ members' = members /\ shadow' = shadow
      /\ ready' = ready /\ moves' = moves /\ raced' = raced
  BY DEF RollBack, Finish, teamsData
<1>2. req \in [TeamRequests -> Plan]
  BY DEF TeamsInv, TeamsTypeOK
<1>3. \A q \in TeamRequests : req'[q] = Idle \/ req'[q] = req[q]
  <2> TAKE q \in TeamRequests
  <2>1. CASE q = r
    BY <1>1, <2>1 DEF Finish
  <2>2. CASE q # r
    <3> DEFINE b == req[q].stale \/ (FALSE /\ req[q].op # "idle")
    <3>1. b = req[q].stale
      <4>1. req[q].stale \in BOOLEAN
        BY <1>2 DEF Plan
      <4> QED BY <4>1
    <3>2. req'[q] = [req[q] EXCEPT !.stale = b]
      BY <1>1, <2>2 DEF Finish
    <3> HIDE DEF b
    <3>3. req'[q] = [req[q] EXCEPT !.stale = req[q].stale]
      BY <3>1, <3>2
    <3> QED BY <1>2, <3>3 DEF Plan
  <2> QED BY <2>1, <2>2
<1>4. req' \in [TeamRequests -> Plan]
  <2>1. req' = [q \in TeamRequests |-> req'[q]]
    BY <1>1 DEF Finish
  <2> QED BY <1>2, <1>3, <2>1, IdleIsPlan
<1>5. Teams' = Teams
  BY <1>1 DEF Teams
<1>6. \A p : TeamsOf(p)' = TeamsOf(p)
  BY <1>1, <1>5 DEF TeamsOf
<1>7. TeamsTypeOK'
  BY <1>1, <1>4, <1>5 DEF TeamsInv, TeamsTypeOK
<1>8. NoCycle' /\ AtMostOne' /\ ShadowAgrees'
  BY <1>1, <1>5, <1>6 DEF TeamsInv, NoCycle, AtMostOne, ShadowAgrees
<1>9. BeforeBackfill'
  BY <1>1 DEF TeamsInv, BeforeBackfill
<1>10. Knowledge'
  <2> SUFFICES ASSUME NEW q \in TeamRequests PROVE (req[q].stale \/ Knows(req[q]))'
    BY DEF Knowledge
  <2>1. CASE req'[q] = Idle
    BY <2>1 DEF Idle, Knows
  <2>2. CASE req'[q] = req[q]
    <3>1. req[q].stale \/ Knows(req[q])
      BY DEF TeamsInv, Knowledge
    <3> QED BY <1>1, <1>5, <1>6, <2>2, <3>1 DEF Knows, Apart
  <2> QED BY <1>3, <2>1, <2>2
<1> QED BY <1>7, <1>8, <1>9, <1>10 DEF TeamsInv

-----------------------------------------------------------------------------
(* The theorems *)

LEMMA TeamsStutter == ASSUME TeamsInv, UNCHANGED teamsVars PROVE TeamsInv'
BY DEF TeamsInv, teamsVars, TeamsTypeOK, NoCycle, AtMostOne, BeforeBackfill, Knowledge,
       Knows, Apart, ShadowAgrees, TeamsOf, Teams

LEMMA TeamsInvariant == TeamsSpec => []TeamsInv
<1>1. TeamsInv /\ [TeamsNext]_teamsVars => TeamsInv'
  <2> SUFFICES ASSUME TeamsInv, [TeamsNext]_teamsVars PROVE TeamsInv'
    OBVIOUS
  <2>1. CASE Backfill
    BY <2>1, BackfillKeeps
  <2>2. ASSUME NEW r \in TeamRequests, HandleTeams(r) \/ CommitTeams(r) \/ RollBack(r)
        PROVE  TeamsInv'
    BY <2>2, HandlersKeep, WriteTeamKeeps, DropTeamKeeps, WriteAssignKeeps, WriteRemoveKeeps,
       InsertUserKeeps, DropUserKeeps, RollBackKeeps DEF CommitTeams
  <2>3. CASE UNCHANGED teamsVars
    BY <2>3, TeamsStutter
  <2> QED BY <2>1, <2>2, <2>3 DEF TeamsNext
<1> QED BY <1>1, TeamsStart, PTL DEF TeamsSpec

\* Whatever requests overlap, parents exist, members and their teams exist and
\* only people with a row have a shadow.
THEOREM TeamsTypeCorrect == TeamsSpec => []TeamsTypeOK
<1>1. TeamsInv => TeamsTypeOK
  BY DEF TeamsInv
<1> QED BY <1>1, TeamsInvariant, PTL

\* teams_membership.py:11-13: a person has one team at most, and both tables
\* say which, unless assignments or removals overlapped.
THEOREM MembershipsHold == TeamsSpec => []Memberships
<1>1. TeamsInv => Memberships
  <2> SUFFICES ASSUME TeamsInv, "assign" \notin raced, NEW p \in Emails
               PROVE  Cardinality(TeamsOf(p)) <= 1
    BY DEF TeamsInv, Memberships, OneTeamEach
  <2>1. CASE TeamsOf(p) = {}
    BY <2>1, FS_EmptySet
  <2>2. CASE TeamsOf(p) # {}
    <3>1. PICK t \in TeamsOf(p) : TRUE
      BY <2>2
    <3>2. TeamsOf(p) = {t}
      BY <3>1 DEF TeamsInv, AtMostOne
    <3>3. Cardinality(TeamsOf(p)) = 1
      BY <3>2, FS_Singleton
    <3> QED BY <3>3
  <2> QED BY <2>1, <2>2
<1> QED BY <1>1, TeamsInvariant, PTL

\* The two walks are each other's converse, in any hierarchy.
LEMMA WalksAgree == ASSUME TeamsTypeOK PROVE ScopeIsDescent
<1> SUFFICES ASSUME NEW s \in Teams PROVE Subtree({s}) = {t \in Teams : s \in WalkUp(t)}
  BY DEF ScopeIsDescent
<1>1. /\ Teams \subseteq TeamIds /\ parent \in [TeamIds -> Places]
      /\ Absent \notin Teams /\ Root \notin TeamIds
  BY TeamsAreIds
<1>2. ASSUME NEW t \in Places
      PROVE  /\ t \in WalkUp(t)
             /\ \A x \in WalkUp(t) \cap TeamIds : parent[x] \in WalkUp(t)
             /\ \A S : t \in S /\ (\A x \in S \cap TeamIds : parent[x] \in S) => WalkUp(t) \subseteq S
  BY <1>1, WalkUpReaches
<1>3. ASSUME NEW t \in Teams
      PROVE  /\ t \in Subtree({t})
             /\ \A x \in Teams : parent[x] \in Subtree({t}) => x \in Subtree({t})
             /\ \A S : t \in S /\ (\A x \in Teams : parent[x] \in S => x \in S) => Subtree({t}) \subseteq S
  <2>1. {t} \in SUBSET TeamIds
    BY <1>1
  <2> QED BY <1>1, <2>1, SubtreeReaches
<1>4. Subtree({s}) \subseteq {t \in Teams : s \in WalkUp(t)}
  <2> DEFINE S == {t \in Teams : s \in WalkUp(t)}
  <2>1. s \in S
    BY <1>1, <1>2 DEF Places
  <2>2. ASSUME NEW x \in Teams, parent[x] \in S PROVE x \in S
    <3>1. x \in Places /\ parent[x] \in Places
      BY <1>1 DEF Places
    <3>2. parent[x] \in WalkUp(x)
      BY <1>1, <1>2, <3>1
    <3>3. WalkUp(parent[x]) \subseteq WalkUp(x)
      BY <1>2, <3>1, <3>2
    <3> QED BY <2>2, <3>3
  <2> HIDE DEF S
  <2>3. Subtree({s}) \subseteq S
    BY <1>3, <2>1, <2>2
  <2> QED BY <2>3 DEF S
<1>5. ASSUME NEW t \in Teams, s \in WalkUp(t) PROVE t \in Subtree({s})
  <2> DEFINE S == {x \in Places : x \in Teams => t \in Subtree({x})}
  <2>1. t \in S
    BY <1>1, <1>3 DEF Places
  <2>2. ASSUME NEW x \in S \cap TeamIds PROVE parent[x] \in S
    <3>1. parent[x] \in Places
      BY <1>1
    <3>2. ASSUME parent[x] \in Teams PROVE t \in Subtree({parent[x]})
      <4>1. x \in Teams
        BY <1>1, <3>2 DEF Teams
      <4>2. x \in Subtree({parent[x]})
        BY <1>3, <3>2, <4>1
      <4>3. Subtree({x}) \subseteq Subtree({parent[x]})
        BY <1>3, <3>2, <4>1, <4>2
      <4> QED BY <2>2, <4>1, <4>3
    <3> QED BY <3>1, <3>2
  <2> HIDE DEF S
  <2>3. WalkUp(t) \subseteq S
    BY <1>1, <1>2, <2>1, <2>2 DEF Places
  <2> QED BY <1>5, <2>3 DEF S
<1> QED BY <1>4, <1>5

\* teams.py:92, auth.py: no team is its own ancestor unless moves overlapped,
\* and a team admin reaches exactly what lies under his teams, even then.
THEOREM HierarchyHolds == TeamsSpec => []Hierarchy
<1>1. TeamsInv => Hierarchy
  <2> SUFFICES ASSUME TeamsInv PROVE Hierarchy
    OBVIOUS
  <2>1. ScopeIsDescent
    BY WalksAgree DEF TeamsInv
  <2>2. ASSUME "reparent" \notin raced, NEW t \in Teams, Root \notin WalkUp(t) PROVE FALSE
    <3>1. TeamsTypeOK /\ Teams \subseteq TeamIds /\ parent \in [TeamIds -> Places] /\ t \in Places
      BY TeamsAreIds DEF TeamsInv, Places
    <3>2. /\ t \in WalkUp(t)
          /\ \A x \in WalkUp(t) \cap TeamIds : parent[x] \in WalkUp(t)
          /\ \A S : t \in S /\ (\A x \in S \cap TeamIds : parent[x] \in S) => WalkUp(t) \subseteq S
      BY <3>1, WalkUpReaches
    <3> DEFINE S == Teams \cup {Root}
    <3>3. \A x \in S \cap TeamIds : parent[x] \in S
      BY <3>1, TeamsAreIds DEF TeamsTypeOK
    <3>4. WalkUp(t) \subseteq S
      BY <3>2, <3>3
    <3>5. WalkUp(t) \in SUBSET Teams
      BY <2>2, <3>4
    <3> QED BY <2>2, <3>1, <3>2, <3>5 DEF TeamsInv, NoCycle
  <2> QED BY <2>1, <2>2 DEF Hierarchy, Forest
<1> QED BY <1>1, TeamsInvariant, PTL


-----------------------------------------------------------------------------
(* AdminAccess: the inductive invariant *)

Call == [op : Ops \cup {"none"}, who : People, role : Roles \cup {"any"},
         invite : BOOLEAN, invited : BOOLEAN, stale : BOOLEAN]

\* A grant names a role, and a request has invited whom it names.
Decided(c) ==
    /\ c.op \in {"grant", "enable_login"} => c.role \in Roles
    /\ c.invited => c.who \in pool

\* A revoke counted an org admin who is there, if nobody has committed since.
Counted(c) == c.op = "revoke" /\ ~c.stale => LeavesAnOrgAdmin(c.who, c.role)

Inv == /\ TypeOK /\ NoHalfState
       /\ \A r \in RoleRequests : Decided(call[r]) /\ Counted(call[r])

\* A table without requests is in order.
LEMMA NoCallType == NoCall \in Call /\ NoCall.op = "none" /\ ~NoCall.invited
BY AccessAssumption DEF NoCall, Call, Ops, Roles

LEMMA InitInv == Init => Inv
<1> SUFFICES ASSUME Init PROVE Inv
  OBVIOUS
<1> USE AccessAssumption DEF Init
<1>1. call \in [RoleRequests -> Call]
  BY NoCallType
<1>2. TypeOK
  <2>1. grants \subseteq People \X Roles /\ persons \subseteq People /\ pool \subseteq People
    OBVIOUS
  <2>2. spent \in 0..MaxAccess
    OBVIOUS
  <2>3. QED
    BY <1>1, <2>1, <2>2 DEF TypeOK, Call
<1>3. NoHalfState
  BY DEF NoHalfState
<1>4. \A r \in RoleRequests : Decided(call[r]) /\ Counted(call[r])
  BY NoCallType DEF Decided, Counted
<1>5. QED
  BY <1>2, <1>3, <1>4 DEF Inv

-----------------------------------------------------------------------------
(* AdminAccess: steps that change no call *)

\* More rows of admin_roles leave as many org admins as before, or more.
LEMMA MoreOrgAdmins ==
    ASSUME grants \subseteq grants', NEW who, NEW role, LeavesAnOrgAdmin(who, role)
    PROVE  LeavesAnOrgAdmin(who, role)'
BY DEF LeavesAnOrgAdmin, OrgAdmins, Has

\* A step that adds rows and logins at most keeps the invariant.
LEMMA QuietInv ==
    ASSUME Inv, grants \subseteq grants', grants' \subseteq People \X Roles,
           pool' = pool, promised' = promised, call' = call, overtaken' = overtaken,
           persons' \subseteq People, owns' \in BOOLEAN, saml' \in BOOLEAN,
           flow' \subseteq People, sessions' \subseteq People, spent' \in 0..MaxAccess
    PROVE  Inv'
<1>1. TypeOK' /\ NoHalfState'
  BY DEF Inv, TypeOK, NoHalfState
<1>2. \A r \in RoleRequests : Decided(call[r])'
  BY DEF Inv, Decided
<1>3. \A r \in RoleRequests : Counted(call[r])'
  BY MoreOrgAdmins DEF Inv, Counted
<1>4. QED
  BY <1>1, <1>2, <1>3 DEF Inv

\* The bootstrap row goes into an empty table only.
LEMMA SeededGrows ==
    ASSUME Inv PROVE grants \subseteq Seeded /\ Seeded \subseteq People \X Roles
BY AccessAssumption DEF Inv, TypeOK, Seeded, Roles

LEMMA SpendType == ASSUME TypeOK, Spend PROVE spent' \in 0..MaxAccess
BY AccessAssumption DEF TypeOK, Spend

LEMMA LoginInv == ASSUME Inv, NEW p \in People, LoginStep(p) PROVE Inv'
<1>1. CASE \E federated \in BOOLEAN : Callback(p, federated)
  <2>1. grants \subseteq grants' /\ grants' \subseteq People \X Roles
    BY <1>1, SeededGrows DEF Callback, Inv, TypeOK
  <2>2. QED
    BY <1>1, <2>1, QuietInv DEF Callback, Inv, TypeOK
<1>2. CASE StartLogin(p)
  BY <1>2, QuietInv DEF StartLogin, Inv, TypeOK
<1>3. CASE AbandonLogin(p)
  BY <1>3, QuietInv DEF AbandonLogin, Inv, TypeOK
<1>4. CASE EndSession(p)
  BY <1>4, QuietInv DEF EndSession, Inv, TypeOK
<1>5. QED
  BY <1>1, <1>2, <1>3, <1>4 DEF LoginStep

LEMMA SettingsInv ==
    ASSUME Inv, ApiStart \/ SetDirectory \/ SetSaml \/ \E p \in People : Discover(p)
    PROVE  Inv'
<1>1. CASE ApiStart
  BY <1>1, QuietInv, SeededGrows DEF ApiStart, Inv, TypeOK
<1>2. CASE SetDirectory
  BY <1>2, QuietInv, SpendType DEF SetDirectory, Inv, TypeOK
<1>3. CASE SetSaml
  BY <1>3, QuietInv, SpendType DEF SetSaml, Inv, TypeOK
<1>4. CASE \E p \in People : Discover(p)
  BY <1>4, QuietInv, SpendType DEF Discover, Inv, TypeOK
<1>5. QED
  BY <1>1, <1>2, <1>3, <1>4

-----------------------------------------------------------------------------
(* Steps of a request *)

\* A request is taken on with what it has decided.
LEMMA ReceiveInv ==
    ASSUME Inv, NEW r \in RoleRequests, NEW op \in Ops, NEW who \in People,
           NEW role \in Roles \cup {"any"}, NEW invite \in BOOLEAN,
           Receive(r, op, who, role, invite),
           op \in {"grant", "enable_login"} => role \in Roles,
           op = "revoke" => LeavesAnOrgAdmin(who, role)
    PROVE  Inv'
<1> DEFINE new == [NoCall EXCEPT !.op = op, !.who = who, !.role = role, !.invite = invite]
<1>1. /\ new \in Call /\ new.op = op /\ new.who = who /\ new.role = role /\ ~new.invited
  BY NoCallType DEF NoCall, Call
<1>2. /\ call' = [call EXCEPT ![r] = new]
      /\ UNCHANGED <<grants, persons, pool, owns, saml, flow, sessions, promised, overtaken>>
  BY DEF Receive
<1> HIDE DEF new
<1>3. call \in [RoleRequests -> Call]
  BY DEF Inv, TypeOK, Call
<1>4. TypeOK' /\ NoHalfState'
  <2>1. call' \in [RoleRequests -> Call]
    BY <1>1, <1>2, <1>3
  <2>2. spent' \in 0..MaxAccess
    BY SpendType DEF Receive, Inv
  <2>3. QED
    BY <1>2, <2>1, <2>2 DEF Inv, TypeOK, NoHalfState, Call
<1>5. ASSUME NEW q \in RoleRequests PROVE Decided(call[q])' /\ Counted(call[q])'
  <2>1. CASE q = r
    <3>1. call'[q] = new
      BY <1>2, <1>3, <2>1
    <3>2. Decided(call[q])'
      BY <1>1, <3>1 DEF Decided
    <3>3. Counted(call[q])'
      <4>1. op = "revoke" => LeavesAnOrgAdmin(who, role)'
        BY <1>2, MoreOrgAdmins
      <4>2. QED
        BY <1>1, <3>1, <4>1 DEF Counted
    <3>4. QED
      BY <3>2, <3>3
  <2>2. CASE q # r
    <3>1. call'[q] = call[q]
      BY <1>2, <1>3, <2>2
    <3>2. Decided(call[q])'
      BY <1>2, <3>1 DEF Inv, Decided
    <3>3. LeavesAnOrgAdmin(call[q].who, call[q].role)
             => LeavesAnOrgAdmin(call[q].who, call[q].role)'
      BY <1>2, <3>1 DEF LeavesAnOrgAdmin, OrgAdmins, Has
    <3>4. Counted(call[q])'
      BY <3>1, <3>3 DEF Inv, Counted
    <3>5. QED
      BY <3>2, <3>4
  <2>3. QED
    BY <2>1, <2>2
<1>6. QED
  BY <1>4, <1>5 DEF Inv

LEMMA HandleInv == ASSUME Inv, NEW r \in RoleRequests, Handle(r) PROVE Inv'
<1>1. ASSUME NEW p \in People, NEW who \in People, DeletePerson(r, p, who) PROVE Inv'
  BY <1>1, ReceiveInv DEF DeletePerson, Ops
<1>2. ASSUME NEW p \in People, NEW who \in People, NEW role \in Roles,
             GrantRole(r, p, who, role)
      PROVE  Inv'
  BY <1>2, ReceiveInv DEF GrantRole, Ops, Inv, TypeOK
<1>3. ASSUME NEW p \in People, NEW who \in People, NEW role \in Roles,
             EnableLogin(r, p, who, role)
      PROVE  Inv'
  BY <1>3, ReceiveInv DEF EnableLogin, Ops, Inv, TypeOK
<1>4. ASSUME NEW p \in People, NEW who \in People, NEW role \in Roles \cup {"any"},
             RevokeRole(r, p, who, role)
      PROVE  Inv'
  BY <1>4, ReceiveInv DEF RevokeRole, Ops
<1>5. QED
  BY <1>1, <1>2, <1>3, <1>4 DEF Handle

\* A request that is done leaves no call, and the others stale if it wrote.
LEMMA DoneInv ==
    ASSUME Inv, NEW r \in RoleRequests, NEW written \in BOOLEAN, Done(r, written),
           written \/ grants' = grants, call[r].op # "none",
           grants' \subseteq People \X Roles, persons' \subseteq People,
           promised' \subseteq pool, UNCHANGED <<pool, owns, saml, flow, sessions, spent>>
    PROVE  Inv'
<1>1. call \in [RoleRequests -> Call]
  BY DEF Inv, TypeOK, Call
<1>2. /\ call'[r] = NoCall
      /\ \A q \in RoleRequests \ {r} :
            call'[q] = [call[q] EXCEPT !.stale = @ \/ (written /\ call[q].op # "none")]
      /\ DOMAIN call' = RoleRequests
  BY DEF Done
<1>3. ASSUME NEW q \in RoleRequests
      PROVE  /\ call'[q] \in Call /\ Decided(call[q])' /\ Counted(call[q])'
  <2>1. CASE q = r
    BY <1>2, <2>1, NoCallType DEF Decided, Counted
  <2>2. CASE q # r
    <3>1. /\ call[q] \in Call
          /\ call'[q] = [call[q] EXCEPT !.stale = @ \/ (written /\ call[q].op # "none")]
      BY <1>1, <1>2, <2>2
    <3>2. /\ call'[q].op = call[q].op /\ call'[q].who = call[q].who
          /\ call'[q].role = call[q].role /\ call'[q].invited = call[q].invited
          /\ call'[q].stale <=> call[q].stale \/ (written /\ call[q].op # "none")
          /\ call'[q] \in Call
      BY <3>1 DEF Call
    <3>3. Decided(call[q])'
      BY <3>2 DEF Inv, Decided
    <3>4. Counted(call[q])'
      BY <3>2 DEF Inv, Counted, LeavesAnOrgAdmin, OrgAdmins, Has
    <3>5. QED
      BY <3>2, <3>3, <3>4
  <2>3. QED
    BY <2>1, <2>2
<1>4. call' \in [RoleRequests -> Call]
  BY <1>3 DEF Done
<1>5. overtaken' \subseteq Ops
  <2>1. call[r].op \in Ops
    BY <1>1 DEF Call
  <2>2. QED
    BY <2>1 DEF Done, Inv, TypeOK
<1>6. TypeOK' /\ NoHalfState'
  BY <1>4, <1>5 DEF Inv, TypeOK, Call, NoHalfState
<1>7. QED
  BY <1>3, <1>6 DEF Inv

\* The login is created before the row.
LEMMA InviteInv == ASSUME Inv, NEW r \in RoleRequests, Invite(r) PROVE Inv'
<1>1. call \in [RoleRequests -> Call]
  BY DEF Inv, TypeOK, Call
<1>2. /\ pool' = pool \cup {call[r].who}
      /\ call' = [call EXCEPT ![r].invited = TRUE]
      /\ UNCHANGED <<grants, persons, owns, saml, flow, sessions, promised, overtaken, spent>>
  BY DEF Invite
<1>3. ASSUME NEW q \in RoleRequests
      PROVE  /\ call'[q] \in Call /\ call'[q].op = call[q].op /\ call'[q].who = call[q].who
             /\ call'[q].role = call[q].role /\ call'[q].stale = call[q].stale
             /\ call'[q].invited => call[q].invited \/ q = r
  BY <1>1, <1>2 DEF Call
<1>4. TypeOK' /\ NoHalfState'
  <2>1. call' \in [RoleRequests -> Call]
    BY <1>1, <1>2, <1>3
  <2>2. pool' \subseteq People
    BY <1>1, <1>2 DEF Inv, TypeOK, Call
  <2>3. QED
    BY <1>2, <2>1, <2>2 DEF Inv, TypeOK, Call, NoHalfState
<1>5. \A q \in RoleRequests : Decided(call[q])'
  BY <1>2, <1>3 DEF Inv, Decided
<1>6. \A q \in RoleRequests : Counted(call[q])'
  BY <1>2, <1>3 DEF Inv, Counted, LeavesAnOrgAdmin, OrgAdmins, Has
<1>7. QED
  BY <1>4, <1>5, <1>6 DEF Inv

LEMMA WorkInv == ASSUME Inv, NEW r \in RoleRequests, Work(r) PROVE Inv'
<1>1. call[r] \in Call /\ Decided(call[r])
  BY DEF Inv, TypeOK, Call
<1>2. CASE CommitGrant(r)
  <2>1. grants' \subseteq People \X Roles
    BY <1>1, <1>2 DEF CommitGrant, Decided, Inv, TypeOK, Call
  <2>2. promised' \subseteq pool
    BY <1>1, <1>2 DEF CommitGrant, MayInsert, Decided, Inv, NoHalfState
  <2>3. call[r].op # "none" /\ Done(r, TRUE) /\ UNCHANGED <<persons, pool, owns, saml, flow, sessions, spent>>
    BY <1>2 DEF CommitGrant
  <2>4. QED
    BY <2>1, <2>2, <2>3, DoneInv DEF Inv, TypeOK
<1>3. CASE CommitRevoke(r)
  <2>1. grants' \subseteq grants /\ call[r].op # "none" /\ Done(r, TRUE)
        /\ UNCHANGED <<persons, pool, owns, saml, flow, sessions, promised, spent>>
    BY <1>3 DEF CommitRevoke
  <2>2. QED
    BY <2>1, DoneInv DEF Inv, TypeOK, NoHalfState
<1>4. CASE CommitDelete(r)
  <2>1. grants' \subseteq grants /\ call[r].op # "none" /\ Done(r, TRUE) /\ persons' \subseteq persons
        /\ UNCHANGED <<pool, owns, saml, flow, sessions, promised, spent>>
    BY <1>4 DEF CommitDelete
  <2>2. QED
    BY <2>1, DoneInv DEF Inv, TypeOK, NoHalfState
<1>5. CASE FailCall(r)
  <2>1. grants' = grants /\ call[r].op # "none" /\ Done(r, FALSE)
        /\ UNCHANGED <<persons, pool, owns, saml, flow, sessions, promised, spent>>
    BY <1>5 DEF FailCall
  <2>2. QED
    BY <2>1, DoneInv DEF Inv, TypeOK, NoHalfState
<1>6. QED
  BY <1>2, <1>3, <1>4, <1>5, InviteInv DEF Work

LEMMA NextInv == Inv /\ [Next]_vars => Inv'
<1> SUFFICES ASSUME Inv, [Next]_vars PROVE Inv'
  OBVIOUS
<1>1. CASE UNCHANGED vars
  BY <1>1 DEF vars, Inv, TypeOK, NoHalfState, Decided, Counted, LeavesAnOrgAdmin,
         OrgAdmins, Has
<1>2. QED
  BY <1>1, LoginInv, SettingsInv, HandleInv, WorkInv DEF Next

LEMMA Invariant == Spec => []Inv
BY InitInv, NextInv, PTL DEF Spec

-----------------------------------------------------------------------------
(* AdminAccess: the theorems *)

\* Type correctness of roles, logins and requests.
THEOREM TypeCorrect == Spec => []TypeOK
<1>1. Inv => TypeOK
  BY DEF Inv
<1>2. QED
  BY <1>1, Invariant, PTL

\* roles.py:180-185: whoever is given a role while tg owns the directory has a
\* login, whatever requests overlap, fail or crash.
THEOREM NobodyIsHalfIn == Spec => []NoHalfState
<1>1. Inv => NoHalfState
  BY DEF Inv
<1>2. QED
  BY <1>1, Invariant, PTL

\* roles.py:364: the last org admin goes by overlapping revokes or by a
\* deletion only.
THEOREM OrgAdminsStay == Spec => OrgAdminStays
<1> DEFINE A == OrgAdmins # {} /\ OrgAdmins' = {} =>
                  \/ "revoke" \in overtaken'
                  \/ \E r \in RoleRequests : call[r].op = "delete_user" /\ call'[r].op = "none"
<1>1. Inv /\ [Next]_vars => [A]_vars
  <2>1. SUFFICES ASSUME Inv, Next, OrgAdmins # {}, OrgAdmins' = {} PROVE A
    OBVIOUS
  <2>2. ~(grants \subseteq grants')
    BY <2>1 DEF OrgAdmins, Has
  <2>3. PICK r \in RoleRequests : CommitRevoke(r) \/ CommitDelete(r)
    <3>1. grants \subseteq Seeded
      BY DEF Seeded
    <3>2. ~(ApiStart \/ SetDirectory \/ SetSaml)
      BY <2>2, <3>1 DEF ApiStart, SetDirectory, SetSaml
    <3>3. ASSUME NEW p \in People PROVE ~(LoginStep(p) \/ Discover(p))
      BY <2>2, <3>1 DEF LoginStep, StartLogin, AbandonLogin, EndSession, Callback, Seeded, Discover
    <3>4. ASSUME NEW r \in RoleRequests, Handle(r) PROVE FALSE
      BY <2>2, <3>4 DEF Handle, DeletePerson, GrantRole, EnableLogin, RevokeRole, Receive
    <3>5. ASSUME NEW r \in RoleRequests, Work(r) PROVE CommitRevoke(r) \/ CommitDelete(r)
      BY <2>2, <3>5 DEF Work, Invite, CommitGrant, FailCall
    <3>6. QED
      BY <2>1, <3>2, <3>3, <3>4, <3>5 DEF Next
  <2>4. CASE CommitDelete(r)
    <3>1. call[r].op = "delete_user" /\ call'[r] = NoCall
      BY <2>4 DEF CommitDelete, Done
    <3>2. QED
      BY <3>1, NoCallType
  <2>5. CASE CommitRevoke(r)
    <3>1. CASE call[r].stale
      BY <2>5, <3>1 DEF CommitRevoke, Done
    <3>2. CASE ~call[r].stale
      <4>1. LeavesAnOrgAdmin(call[r].who, call[r].role)
        BY <2>1, <2>5, <3>2 DEF Inv, Counted, CommitRevoke
      <4>2. grants' = grants \ {g \in grants : g[1] = call[r].who /\ call[r].role \in {g[2], "any"}}
        BY <2>5 DEF CommitRevoke
      <4>3. PICK x \in OrgAdmins : x # call[r].who \/ call[r].role \notin {"org_admin", "any"}
        BY <2>1, <4>1 DEF LeavesAnOrgAdmin
      <4>4. <<x, "org_admin">> \in grants'
        BY <4>2, <4>3 DEF OrgAdmins, Has
      <4>5. QED
        BY <2>1, <4>3, <4>4 DEF OrgAdmins, Has
    <3>3. QED
      BY <3>1, <3>2
  <2>6. QED
    BY <2>3, <2>4, <2>5
<1>2. QED
  BY <1>1, Invariant, PTL DEF Spec, OrgAdminStays

-----------------------------------------------------------------------------
(* SamlLogin: the inductive invariant *)

\* The pool and the login page have no provider but name.
Only(name) == \A m \in Providers \ {name} : idps[m] = "absent" /\ m \notin client.supported

\* The pool has x, the login page offers x, and neither has another.
Settled(x) == \A m \in Providers : /\ (m = x) <=> (idps[m] # "absent")
                                   /\ (m = x) <=> (m \in client.supported)

\* How far a request alone with the pool has brought it.
Progress(e) ==
  /\ e.step \in {"put", "recreate", "readPut", "writePut"} =>
        e.name \in Providers /\ e.wants = e.name /\ Only(e.name)
  /\ e.step \in {"readPut", "writePut"} => idps[e.name] # "absent"
  /\ e.step = "writePut" => \A m \in Providers \ {e.name} : m \notin e.read.supported
  /\ e.step \in {"delete", "writeDelete", "deleteIdp"} =>
        e.name \in Providers /\ e.wants = NoProvider /\ Only(e.name)
  /\ e.step = "writeDelete" => \A m \in Providers : m \notin e.read.supported
  /\ e.step = "deleteIdp" => e.name \notin client.supported
  /\ e.step = "commit" => Settled(e.wants)

\* As long as nothing has gone wrong, one request at a time has been at work.
Smooth ==
  ~rough => /\ \A q, r \in SamlRequests : edit[q].step # "none" /\ edit[r].step # "none" => q = r
            /\ Quiet => Settled(stored)
            /\ \A r \in SamlRequests : Progress(edit[r])

SamlInv == SamlTypeOK /\ PasswordLoginStays /\ Smooth

LEMMA SamlStarts == SamlInit => SamlInv
<1> SUFFICES ASSUME SamlInit PROVE SamlInv
  OBVIOUS
<1> USE SamlAssumption DEF SamlInit
<1>1. client \in Clients /\ client.supported = {"COGNITO", EnvProvider} \ {NoProvider}
  BY DEF Clients, Ours
<1>2. edit \in [SamlRequests -> [step : Steps, name : Providers \cup {NoProvider},
                    wants : Providers \cup {NoProvider}, read : Clients]]
  BY DEF NoEdit, Steps, Clients, Ours
<1>a. idps \in [Providers -> {"absent", "signed", "unsigned"}]
  <2> DEFINE P(f) == \A name \in Providers : f[name] # "absent" <=> name = EnvProvider
             S == [Providers -> {"absent", "signed", "unsigned"}]
  <2>1. idps \in {f \in S : P(f)}
    BY Zenon
  <2> HIDE DEF P, S
  <2>2. idps \in S
    BY <2>1, Zenon
  <2> QED BY <2>2 DEF S
<1>b. stored \in Providers \cup {NoProvider} /\ tries \in 0..MaxSaml
  <2>1. stored = EnvProvider /\ tries = 0 /\ EnvProvider \in Providers \cup {NoProvider}
        /\ MaxSaml \in Nat
    BY Zenon
  <2> QED BY ONLY <2>1
<1>c. edited \in BOOLEAN /\ rough \in BOOLEAN
  BY Zenon
<1>3. SamlTypeOK
  BY ONLY <1>1, <1>2, <1>a, <1>b, <1>c DEF SamlTypeOK
<1>4. PasswordLoginStays
  BY <1>1 DEF PasswordLoginStays
<1>5. Settled(stored)
  BY <1>1 DEF Settled
<1>6. \A r \in SamlRequests : edit[r].step = "none"
  BY DEF NoEdit
<1> QED BY <1>3, <1>4, <1>5, <1>6 DEF SamlInv, Smooth, Progress

\* What an edit of a request is, and what the client becomes.
LEMMA EditTypes ==
  ASSUME SamlTypeOK, NEW r \in SamlRequests
  PROVE  /\ edit[r].step \in Steps
         /\ edit[r].name \in Providers \cup {NoProvider}
         /\ edit[r].wants \in Providers \cup {NoProvider}
         /\ edit[r].read \in Clients
BY DEF SamlTypeOK

LEMMA SupportingType ==
  ASSUME NEW read \in Clients, NEW name \in Providers \cup {NoProvider}
  PROVE  /\ Supporting(read, name) \in Clients
         /\ Supporting(read, name).supported =
              read.supported \cup {"COGNITO"} \cup (IF name = NoProvider THEN {} ELSE {name})
BY DEF Supporting, Clients, Ours

\* A request at work alone: the others have nothing to say.
LEMMA AloneIsEnough ==
  ASSUME Smooth, SamlTypeOK, NEW r \in SamlRequests, edit[r].step # "none",
         edit' \in [SamlRequests -> [step : Steps, name : Providers \cup {NoProvider},
                      wants : Providers \cup {NoProvider}, read : Clients]],
         \A q \in SamlRequests \ {r} : edit'[q] = edit[q],
         rough' = rough,
         ~rough => edit'[r].step # "none" /\ Progress(edit[r])'
  PROVE  Smooth'
<1> SUFFICES ASSUME ~rough PROVE Smooth'
  BY DEF Smooth
<1>1. \A q \in SamlRequests \ {r} : edit[q].step = "none"
  BY DEF Smooth
<1>2. \A q \in SamlRequests \ {r} : edit'[q].step = "none"
  BY <1>1
<1>3. ~Quiet'
  BY DEF Quiet
<1>4. \A q \in SamlRequests : Progress(edit[q])'
  <2> TAKE q \in SamlRequests
  <2>1. CASE q = r
    BY <2>1
  <2>2. CASE q # r
    BY <1>2, <2>2 DEF Progress
  <2> QED BY <2>1, <2>2
<1> QED BY <1>2, <1>3, <1>4 DEF Smooth

\* Each step of a request, from what has been done to what is done next.
LEMMA StepKeeps == ASSUME SamlInv, NEW r \in SamlRequests, SamlStep(r) PROVE SamlInv'
<1> DEFINE e == edit[r]
           Edits == [step : Steps, name : Providers \cup {NoProvider},
                     wants : Providers \cup {NoProvider}, read : Clients]
<1>0. /\ SamlTypeOK /\ Smooth /\ PasswordLoginStays
      /\ e \in Edits /\ edit \in [SamlRequests -> Edits]
  BY DEF SamlInv, SamlTypeOK
<1>1. \A s \in Steps : [edit EXCEPT ![r].step = s] \in [SamlRequests -> Edits]
  BY <1>0
<1>a. ~rough => Progress(e)
  BY <1>0 DEF Smooth
<1>2. CASE ApplyProvider(r)
  <2>1. /\ e.step = "put"
        /\ UNCHANGED <<stored, client, edited, rough, tries>>
        /\ \/ idps' = [idps EXCEPT ![e.name] = "absent"] /\ edit' = [edit EXCEPT ![r].step = "recreate"]
           \/ idps' = [idps EXCEPT ![e.name] = "unsigned"] /\ edit' = [edit EXCEPT ![r].step = "readPut"]
    BY <1>2 DEF ApplyProvider, To, Applied
  <2>2. SamlTypeOK'
    BY <1>0, <2>1 DEF SamlTypeOK, Steps
  <2>3. \A q \in SamlRequests \ {r} : edit'[q] = edit[q]
    BY <1>0, <2>1
  <2>4. ~rough => edit'[r].step # "none" /\ Progress(edit[r])'
    BY <1>0, <1>a, <2>1 DEF Progress, Only, SamlTypeOK
  <2>5. Smooth'
    BY <1>0, <2>1, <2>2, <2>3, <2>4, AloneIsEnough DEF SamlTypeOK
  <2> QED BY <1>0, <2>1, <2>2, <2>5 DEF SamlInv, PasswordLoginStays
<1>3. CASE Recreate(r)
  <2>1. /\ e.step = "recreate"
        /\ UNCHANGED <<stored, client, edited, rough, tries>>
        /\ idps' = [idps EXCEPT ![e.name] = "unsigned"] /\ edit' = [edit EXCEPT ![r].step = "readPut"]
    BY <1>3 DEF Recreate, To, Applied
  <2>2. SamlTypeOK'
    BY <1>0, <2>1 DEF SamlTypeOK, Steps
  <2>3. \A q \in SamlRequests \ {r} : edit'[q] = edit[q]
    BY <1>0, <2>1
  <2>4. ~rough => edit'[r].step # "none" /\ Progress(edit[r])'
    BY <1>0, <1>a, <2>1 DEF Progress, Only, SamlTypeOK
  <2>5. Smooth'
    BY <1>0, <2>1, <2>2, <2>3, <2>4, AloneIsEnough DEF SamlTypeOK
  <2> QED BY <1>0, <2>1, <2>2, <2>5 DEF SamlInv, PasswordLoginStays
<1>4. CASE ReadClient(r)
  <2>1. /\ e.step = "readPut"
        /\ UNCHANGED <<stored, idps, client, edited, rough, tries>>
        /\ edit' = [edit EXCEPT ![r].read = client,
              ![r].step = IF {"COGNITO", e.name} \subseteq client.supported
                          THEN "commit" ELSE "writePut"]
    BY <1>4 DEF ReadClient, cognito
  <2>2. /\ edit' \in [SamlRequests -> Edits]
        /\ edit'[r].name = e.name /\ edit'[r].wants = e.wants /\ edit'[r].read = client
        /\ edit'[r].step = IF {"COGNITO", e.name} \subseteq client.supported
                           THEN "commit" ELSE "writePut"
    BY <1>0, <2>1 DEF SamlTypeOK, Steps
  <2>3. SamlTypeOK'
    BY <1>0, <2>1, <2>2 DEF SamlTypeOK
  <2>4. \A q \in SamlRequests \ {r} : edit'[q] = edit[q]
    BY <1>0, <2>1
  <2>5. ~rough => edit'[r].step # "none" /\ Progress(edit[r])'
    BY <1>0, <1>a, <2>1, <2>2 DEF Progress, Only, Settled
  <2>6. Smooth'
    BY <1>0, <2>1, <2>2, <2>4, <2>5, AloneIsEnough
  <2> QED BY <1>0, <2>1, <2>3, <2>6 DEF SamlInv, PasswordLoginStays
<1>5. CASE WriteClient(r)
  <2>1. /\ e.step = "writePut"
        /\ UNCHANGED <<stored, idps, edited, rough, tries>>
        /\ client' = Supporting(e.read, e.name)
        /\ edit' = [edit EXCEPT ![r].step = "commit"]
    BY <1>5 DEF WriteClient, To
  <2>2. /\ client' \in Clients
        /\ client'.supported =
             e.read.supported \cup {"COGNITO"} \cup (IF e.name = NoProvider THEN {} ELSE {e.name})
    BY <1>0, <2>1, SupportingType
  <2>3. SamlTypeOK'
    BY <1>0, <2>1, <2>2 DEF SamlTypeOK, Steps
  <2>4. \A q \in SamlRequests \ {r} : edit'[q] = edit[q]
    BY <1>0, <2>1
  <2>5. ~rough => edit'[r].step # "none" /\ Progress(edit[r])'
    <3> SUFFICES ASSUME ~rough PROVE edit'[r].step # "none" /\ Progress(edit[r])'
      OBVIOUS
    <3>1. edit'[r].step = "commit" /\ edit'[r].wants = e.name /\ e.name \in Providers
      BY <1>0, <1>a, <2>1 DEF Progress
    <3>2. /\ idps[e.name] # "absent" /\ Only(e.name)
          /\ \A m \in Providers \ {e.name} : m \notin e.read.supported
      BY <1>a, <2>1 DEF Progress
    <3>3. e.name # NoProvider /\ "COGNITO" \notin Providers
      BY <3>1, SamlAssumption
    <3>4. \A m \in Providers : /\ m = e.name <=> idps'[m] # "absent"
                               /\ m = e.name <=> m \in client'.supported
      BY <2>1, <2>2, <3>2, <3>3 DEF Only
    <3> QED BY <3>1, <3>4 DEF Progress, Settled
  <2>6. Smooth'
    BY <1>0, <2>1, <2>3, <2>4, <2>5, AloneIsEnough DEF SamlTypeOK
  <2> QED BY <2>2, <2>3, <2>6 DEF SamlInv, PasswordLoginStays
<1>6. CASE ReadClientToDelete(r)
  <2>1. /\ e.step = "delete"
        /\ UNCHANGED <<stored, idps, client, edited, rough, tries>>
        /\ edit' = [edit EXCEPT ![r].read = [client EXCEPT !.supported = @ \ {e.name}],
                                ![r].step = "writeDelete"]
    BY <1>6 DEF ReadClientToDelete, cognito
  <2>2. /\ [client EXCEPT !.supported = @ \ {e.name}] \in Clients
        /\ [client EXCEPT !.supported = @ \ {e.name}].supported = client.supported \ {e.name}
    BY <1>0 DEF SamlTypeOK, Clients, Ours
  <2>3. /\ edit' \in [SamlRequests -> Edits]
        /\ edit'[r].name = e.name /\ edit'[r].wants = e.wants /\ edit'[r].step = "writeDelete"
        /\ edit'[r].read.supported = client.supported \ {e.name}
    BY <1>0, <2>1, <2>2 DEF Steps
  <2>4. SamlTypeOK'
    BY <1>0, <2>1, <2>3 DEF SamlTypeOK
  <2>5. \A q \in SamlRequests \ {r} : edit'[q] = edit[q]
    BY <1>0, <2>1
  <2>6. ~rough => edit'[r].step # "none" /\ Progress(edit[r])'
    BY <1>a, <2>1, <2>3 DEF Progress, Only
  <2>7. Smooth'
    BY <1>0, <2>1, <2>3, <2>5, <2>6, AloneIsEnough
  <2> QED BY <1>0, <2>1, <2>4, <2>7 DEF SamlInv, PasswordLoginStays
<1>7. CASE WriteClientToDelete(r)
  <2>1. /\ e.step = "writeDelete"
        /\ UNCHANGED <<stored, idps, edited, rough, tries>>
        /\ client' = Supporting(e.read, NoProvider)
        /\ edit' = [edit EXCEPT ![r].step = "deleteIdp"]
    BY <1>7 DEF WriteClientToDelete, To
  <2>2. client' \in Clients /\ client'.supported = e.read.supported \cup {"COGNITO"}
    BY <1>0, <2>1, SupportingType
  <2>3. SamlTypeOK'
    BY <1>0, <2>1, <2>2 DEF SamlTypeOK, Steps
  <2>4. \A q \in SamlRequests \ {r} : edit'[q] = edit[q]
    BY <1>0, <2>1
  <2>5. ~rough => edit'[r].step # "none" /\ Progress(edit[r])'
    <3>1. edit'[r].step = "deleteIdp" /\ edit'[r].name = e.name /\ edit'[r].wants = e.wants
      BY <1>0, <2>1
    <3>2. ~rough => \A m \in Providers : m \notin client'.supported
      BY <1>a, <2>1, <2>2, SamlAssumption DEF Progress
    <3> QED BY <1>a, <2>1, <3>1, <3>2 DEF Progress, Only
  <2>6. Smooth'
    BY <1>0, <2>1, <2>3, <2>4, <2>5, AloneIsEnough DEF SamlTypeOK
  <2> QED BY <2>2, <2>3, <2>6 DEF SamlInv, PasswordLoginStays
<1>8. CASE DeleteIdp(r)
  <2>1. /\ e.step = "deleteIdp"
        /\ UNCHANGED <<stored, client, edited, rough, tries>>
        /\ idps' = [idps EXCEPT ![e.name] = "absent"] /\ edit' = [edit EXCEPT ![r].step = "commit"]
    BY <1>8 DEF DeleteIdp, To
  <2>2. SamlTypeOK'
    BY <1>0, <2>1 DEF SamlTypeOK, Steps
  <2>3. \A q \in SamlRequests \ {r} : edit'[q] = edit[q]
    BY <1>0, <2>1
  <2>4. ~rough => edit'[r].step # "none" /\ Progress(edit[r])'
    <3>1. edit'[r].step = "commit" /\ edit'[r].wants = e.wants
      BY <1>0, <2>1
    <3>2. ~rough => \A m \in Providers : idps'[m] = "absent" /\ m \notin client'.supported
      BY <1>0, <1>a, <2>1 DEF Progress, Only, SamlTypeOK
    <3> QED BY <1>a, <2>1, <3>1, <3>2, SamlAssumption DEF Progress, Settled
  <2>5. Smooth'
    BY <1>0, <2>1, <2>2, <2>3, <2>4, AloneIsEnough DEF SamlTypeOK
  <2> QED BY <1>0, <2>1, <2>2, <2>5 DEF SamlInv, PasswordLoginStays
<1>9. CASE CommitEdit(r)
  <2>1. /\ e.step = "commit"
        /\ stored' = e.wants
        /\ edit' = [edit EXCEPT ![r] = NoEdit]
        /\ UNCHANGED <<idps, client, edited, rough, tries>>
    BY <1>9 DEF CommitEdit, cognito
  <2>2. SamlTypeOK'
    BY <1>0, <2>1 DEF SamlTypeOK, Steps, NoEdit, Clients, Ours
  <2>3. ~rough => \A q \in SamlRequests : edit'[q].step = "none"
    BY <1>0, <2>1 DEF Smooth, NoEdit
  <2>4. ~rough => Settled(stored)'
    BY <1>a, <2>1 DEF Progress, Settled
  <2>5. Smooth'
    BY <2>1, <2>3, <2>4 DEF Smooth, Progress
  <2> QED BY <1>0, <2>1, <2>2, <2>5 DEF SamlInv, PasswordLoginStays
<1> QED BY <1>2, <1>3, <1>4, <1>5, <1>6, <1>7, <1>8, <1>9 DEF SamlStep

\* A request that begins finds the pool settled, or says it has not.
LEMMA PutKeeps ==
  ASSUME SamlInv, NEW r \in SamlRequests, NEW name \in Providers, Put(r, name)
  PROVE  SamlInv'
<1>1. /\ tries' = tries + 1 /\ tries < MaxSaml
      /\ edit[r].step = "none"
      /\ edit' = [edit EXCEPT ![r] = [NoEdit EXCEPT !.step = "put", !.name = name, !.wants = name]]
      /\ edited' = TRUE
      /\ rough' = (rough \/ ~Quiet \/ stored \notin {name, NoProvider})
      /\ UNCHANGED <<stored, idps, client>>
  BY DEF Put, Try, cognito
<1>2. /\ edit'[r].step = "put" /\ edit'[r].name = name /\ edit'[r].wants = name
      /\ \A q \in SamlRequests \ {r} : edit'[q] = edit[q]
  BY <1>1 DEF SamlInv, SamlTypeOK, NoEdit
<1>3. SamlTypeOK'
  <2>1. [NoEdit EXCEPT !.step = "put", !.name = name, !.wants = name] \in
          [step : Steps, name : Providers \cup {NoProvider},
           wants : Providers \cup {NoProvider}, read : Clients]
    BY DEF NoEdit, Steps, Clients, Ours
  <2>2. tries' \in 0..MaxSaml /\ rough' \in BOOLEAN
    BY <1>1, SamlAssumption DEF SamlInv, SamlTypeOK
  <2> QED BY <1>1, <2>1, <2>2 DEF SamlInv, SamlTypeOK
<1>4. Smooth'
  <2> SUFFICES ASSUME ~rough' PROVE Smooth'
    BY DEF Smooth
  <2>1. ~rough /\ Quiet /\ stored \in {name, NoProvider}
    BY <1>1
  <2>2. Settled(stored)
    BY <2>1 DEF SamlInv, Smooth
  <2>3. Only(name)'
    BY <1>1, <2>1, <2>2, SamlAssumption DEF Settled, Only
  <2>4. \A q \in SamlRequests \ {r} : edit'[q].step = "none"
    BY <1>2, <2>1 DEF Quiet
  <2>5. \A q \in SamlRequests : Progress(edit[q])'
    <3> TAKE q \in SamlRequests
    <3>1. CASE q = r
      BY <1>2, <2>3, <3>1 DEF Progress
    <3>2. CASE q # r
      BY <2>4, <3>2 DEF Progress
    <3> QED BY <3>1, <3>2
  <2>6. ~Quiet'
    BY <1>2 DEF Quiet
  <2> QED BY <2>4, <2>5, <2>6 DEF Smooth
<1> QED BY <1>1, <1>3, <1>4 DEF SamlInv, PasswordLoginStays

LEMMA DeleteKeeps == ASSUME SamlInv, NEW r \in SamlRequests, Delete(r) PROVE SamlInv'
<1>1. /\ tries' = tries + 1 /\ tries < MaxSaml
      /\ edit[r].step = "none"
      /\ edit' = [edit EXCEPT ![r] = [NoEdit EXCEPT !.name = stored,
            !.step = IF stored = NoProvider THEN "commit" ELSE "delete"]]
      /\ edited' = TRUE
      /\ rough' = (rough \/ ~Quiet)
      /\ UNCHANGED <<stored, idps, client>>
  BY DEF Delete, Try, cognito
<1>2. /\ edit'[r].step = IF stored = NoProvider THEN "commit" ELSE "delete"
      /\ edit'[r].name = stored /\ edit'[r].wants = NoProvider
      /\ \A q \in SamlRequests \ {r} : edit'[q] = edit[q]
  BY <1>1 DEF SamlInv, SamlTypeOK, NoEdit
<1>3. SamlTypeOK'
  <2>1. [NoEdit EXCEPT !.name = stored,
            !.step = IF stored = NoProvider THEN "commit" ELSE "delete"] \in
          [step : Steps, name : Providers \cup {NoProvider},
           wants : Providers \cup {NoProvider}, read : Clients]
    BY DEF SamlInv, SamlTypeOK, NoEdit, Steps, Clients, Ours
  <2>2. tries' \in 0..MaxSaml /\ rough' \in BOOLEAN
    BY <1>1, SamlAssumption DEF SamlInv, SamlTypeOK
  <2> QED BY <1>1, <2>1, <2>2 DEF SamlInv, SamlTypeOK
<1>4. Smooth'
  <2> SUFFICES ASSUME ~rough' PROVE Smooth'
    BY DEF Smooth
  <2>1. ~rough /\ Quiet
    BY <1>1
  <2>2. Settled(stored)
    BY <2>1 DEF SamlInv, Smooth
  <2>3. Settled(stored)'
    BY <1>1, <2>2 DEF Settled
  <2>4. \A q \in SamlRequests \ {r} : edit'[q].step = "none"
    BY <1>2, <2>1 DEF Quiet
  <2>5. Progress(edit[r])'
    <3>1. CASE stored = NoProvider
      BY <1>1, <1>2, <2>3, <3>1 DEF Progress, Settled
    <3>2. CASE stored # NoProvider
      <4>1. stored \in Providers
        BY <3>2 DEF SamlInv, SamlTypeOK
      <4>2. \A m \in Providers \ {stored} : idps'[m] = "absent" /\ m \notin client'.supported
        BY <1>1, <2>2 DEF Settled
      <4> QED BY <1>2, <3>2, <4>1, <4>2 DEF Progress, Only
    <3> QED BY <3>1, <3>2
  <2>6. \A q \in SamlRequests : Progress(edit[q])'
    <3> TAKE q \in SamlRequests
    <3>1. CASE q = r
      BY <2>5, <3>1
    <3>2. CASE q # r
      BY <2>4, <3>2 DEF Progress
    <3> QED BY <3>1, <3>2
  <2>7. ~Quiet'
    BY <1>2 DEF Quiet
  <2> QED BY <2>4, <2>6, <2>7 DEF Smooth
<1> QED BY <1>1, <1>3, <1>4 DEF SamlInv, PasswordLoginStays

LEMMA SamlNextInv == SamlInv /\ [SamlNext]_samlVars => SamlInv'
<1> SUFFICES ASSUME SamlInv, [SamlNext]_samlVars PROVE SamlInv'
  OBVIOUS
<1>1. CASE SamlStart
  <2>1. /\ Quiet /\ tries' = tries + 1 /\ tries < MaxSaml
        /\ stored' = Seed /\ rough' = (rough \/ stored' # stored)
        /\ UNCHANGED <<idps, client, edit, edited>>
    BY <1>1 DEF SamlStart, Try, cognito
  <2>2. SamlTypeOK'
    <3>1. stored' \in Providers \cup {NoProvider}
      BY <2>1, SamlAssumption DEF Seed, SamlInv, SamlTypeOK
    <3>2. tries' \in 0..MaxSaml /\ rough' \in BOOLEAN
      BY <2>1, SamlAssumption DEF SamlInv, SamlTypeOK
    <3> QED BY <2>1, <3>1, <3>2 DEF SamlInv, SamlTypeOK
  <2>3. Smooth'
    <3>1. ~rough' => ~rough /\ stored' = stored
      BY <2>1
    <3> QED BY <2>1, <3>1 DEF SamlInv, Smooth, Quiet, Settled, Progress, Only
  <2> QED BY <2>1, <2>2, <2>3 DEF SamlInv, PasswordLoginStays
<1>2. CASE Deploy
  <2>1. /\ tries' = tries + 1 /\ tries < MaxSaml
        /\ client' = [client EXCEPT !.callback = "current"]
        /\ UNCHANGED <<stored, idps, edit, edited, rough>>
    BY <1>2 DEF Deploy, Try
  <2>2. client' \in Clients /\ client'.supported = client.supported
    BY <2>1 DEF SamlInv, SamlTypeOK, Clients
  <2>3. SamlTypeOK'
    BY <2>1, <2>2, SamlAssumption DEF SamlInv, SamlTypeOK
  <2>4. Smooth'
    BY <2>1, <2>2 DEF SamlInv, Smooth, Quiet, Settled, Progress, Only
  <2> QED BY <2>2, <2>3, <2>4 DEF SamlInv, PasswordLoginStays
<1>3. ASSUME NEW r \in SamlRequests, FailEdit(r) PROVE SamlInv'
  <2>1. /\ edit' = [edit EXCEPT ![r] = NoEdit] /\ rough' = TRUE
        /\ UNCHANGED <<stored, idps, client, edited, tries>>
    BY <1>3 DEF FailEdit, cognito
  <2>2. SamlTypeOK'
    BY <2>1 DEF SamlInv, SamlTypeOK, Steps, NoEdit, Clients, Ours
  <2> QED BY <2>1, <2>2 DEF SamlInv, Smooth, PasswordLoginStays
<1>4. CASE UNCHANGED samlVars
  BY <1>4 DEF samlVars, SamlInv, SamlTypeOK, PasswordLoginStays, Smooth, Quiet, Settled, Progress, Only
<1> QED BY <1>1, <1>2, <1>3, <1>4, StepKeeps, PutKeeps, DeleteKeeps DEF SamlNext

LEMMA SamlInvariant == SamlSpec => []SamlInv
BY SamlStarts, SamlNextInv, PTL DEF SamlSpec

\* Types of the connection, the pool and the requests at work on them.
THEOREM SamlTypeCorrect == SamlSpec => []SamlTypeOK
<1>1. SamlInv => SamlTypeOK
  BY DEF SamlInv
<1> QED BY <1>1, SamlInvariant, PTL

\* cognito_saml.py:281-284, settings.py:555-607: the password login stays on
\* the app client, and after requests that ran to their end one at a time the
\* stored provider is the pool's and the login page's.
THEOREM LoginPageHolds == SamlSpec => []LoginPage
<1>1. SamlInv => LoginPage
  BY DEF SamlInv, Smooth, LoginPage, StoredIsLive, Settled
<1> QED BY <1>1, SamlInvariant, PTL

-----------------------------------------------------------------------------
(* The scenes of MCLogins *)

\* Each part of the composition takes its own steps only.
LEMMA PartsStep ==
  [LoginsNext]_loginsVars =>
     [Next]_vars /\ [TeamsNext]_teamsVars /\ [SamlNext]_samlVars
BY DEF LoginsNext, loginsVars, vars, teamsVars, samlVars

\* The types of all three parts, whichever of them a behaviour is about.
THEOREM LoginsTypeCorrect == LoginsSpec => []TypesOK
<1>1. LoginsInit => Init /\ TeamsInit /\ SamlInit
  BY DEF LoginsInit
<1>2. TypeOK /\ TeamsTypeOK /\ SamlTypeOK => TypesOK
  BY DEF TypesOK
<1>3. LoginsSpec => Spec /\ TeamsSpec /\ SamlSpec
  BY <1>1, PartsStep, PTL DEF LoginsSpec, Spec, TeamsSpec, SamlSpec
<1> QED BY <1>2, <1>3, TypeCorrect, TeamsTypeCorrect, SamlTypeCorrect, PTL

=============================================================================
