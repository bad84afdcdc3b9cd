-------------------------------- MODULE Sums --------------------------------
(***************************************************************************)
(* Sums of natural numbers over finite sets, as SumFunctionOnSet of the    *)
(* community modules computes them: what SpendProofs and ReportsProofs     *)
(* need of them.  The library's induction theorems take an operator, which *)
(* no prover here can instantiate: so induction over sets of sets.         *)
(***************************************************************************)
EXTENDS Integers, FiniteSets, FiniteSetsExt, Functions, FiniteSetTheorems, WellFoundedInduction, TLAPS

\* What every subset of a finite set has if the smaller ones have it, all have.
LEMMA SubsetInduction ==
  ASSUME NEW S, IsFiniteSet(S), NEW Q,
         \A T \in SUBSET S : (\A U \in SUBSET T : U # T => U \in Q) => T \in Q
  PROVE  SUBSET S \subseteq Q
<1> SUFFICES ASSUME ~(SUBSET S \subseteq Q) PROVE FALSE
  OBVIOUS
<1> DEFINE R == StrictSubsetOrdering(S)
           F == FiniteSubsetsOf(S)
           Bad == (SUBSET S) \ Q
<1>1. \A T \in SUBSET S : IsFiniteSet(T)
  BY FS_Subset
<1>2. Bad \subseteq F /\ Bad # {}
  BY <1>1 DEF FiniteSubsetsOf
<1>3. IsWellFoundedOn(R, F)
  BY FS_StrictSubsetOrderingWellFounded
<1>4. PICK T \in Bad : \A U \in Bad : ~ (<<U, T>> \in R)
  <2> HIDE DEF Bad, R, F
  <2> QED BY <1>2, <1>3, WFMin
<1>5. ASSUME NEW U \in SUBSET T, U # T PROVE U \in Q
  <2>1. U \in SUBSET S /\ T \in SUBSET S
    OBVIOUS
  <2>2. <<U, T>> \in R
    BY <2>1, <1>5 DEF StrictSubsetOrdering
  <2> QED BY <2>1, <2>2, <1>4
<1> QED BY <1>5

\* f adds the weights w of the members of every subset of s, taking them in
\* the order of c.
Adds(f, s, w, c) ==
  \A u \in SUBSET s : f[u] = IF u = {} THEN 0 ELSE w[c[u]] + f[u \ {c[u]}]

\* c picks a member of each subset of s.
Picks(c, s) == \A u \in SUBSET s : u # {} => c[u] \in u

\* Two functions that add the weights agree where both do.
LEMMA SumsAgree ==
  ASSUME NEW s, IsFiniteSet(s), NEW w, NEW c, Picks(c, s),
         NEW f, NEW g, Adds(f, s, w, c), Adds(g, s, w, c)
  PROVE  f[s] = g[s]
<1> DEFINE Q == {u \in SUBSET s : f[u] = g[u]}
<1>1. ASSUME NEW T \in SUBSET s, \A U \in SUBSET T : U # T => U \in Q
      PROVE  T \in Q
  <2>1. CASE T = {}
    BY <2>1 DEF Adds
  <2>2. CASE T # {}
    <3>1. c[T] \in T
      BY <2>2 DEF Picks
    <3> DEFINE U == T \ {c[T]}
    <3>2. U \in SUBSET T /\ U # T
      BY <3>1
    <3>3. f[U] = g[U]
      BY <3>2, <1>1
    <3>4. f[T] = w[c[T]] + f[U] /\ g[T] = w[c[T]] + g[U]
      BY <2>2 DEF Adds
    <3> QED BY <3>3, <3>4
  <2> QED BY <2>1, <2>2
<1>2. SUBSET s \subseteq Q
  <2> HIDE DEF Q
  <2> QED BY <1>1, SubsetInduction
<1> QED BY <1>2

\* The sum over a finite set exists, and is a natural number.
LEMMA SumExists ==
  ASSUME NEW S, IsFiniteSet(S), NEW w \in [S -> Nat], NEW c, Picks(c, S)
  PROVE  \E f \in [SUBSET S -> Nat] : Adds(f, S, w, c)
<1> DEFINE Has(s) == \E f \in [SUBSET s -> Nat] : Adds(f, s, w, c)
           G(s) == CHOOSE f \in [SUBSET s -> Nat] : Adds(f, s, w, c)
           Q == {s \in SUBSET S : Has(s)}
           Value(u) == IF u = {} THEN 0 ELSE w[c[u]] + G(u \ {c[u]})[u \ {c[u]}]
<1>1. \A s \in SUBSET S : Has(s) => G(s) \in [SUBSET s -> Nat] /\ Adds(G(s), s, w, c)
  OBVIOUS
<1>2. \A s \in SUBSET S : IsFiniteSet(s)
  BY FS_Subset
<1> HIDE DEF G, Has
<1>3. ASSUME NEW s \in SUBSET S, Has(s), NEW u \in SUBSET s
      PROVE  Has(u) /\ G(s)[u] = G(u)[u]
  <2>1. G(s) \in [SUBSET s -> Nat] /\ Adds(G(s), s, w, c)
    BY <1>1, <1>3
  <2> DEFINE g == [v \in SUBSET u |-> G(s)[v]]
  <2>2. g \in [SUBSET u -> Nat]
    BY <2>1
  <2>3. Adds(g, u, w, c)
    <3> SUFFICES ASSUME NEW v \in SUBSET u
                 PROVE  g[v] = IF v = {} THEN 0 ELSE w[c[v]] + g[v \ {c[v]}]
      BY DEF Adds
    <3>1. v \in SUBSET s /\ v \ {c[v]} \in SUBSET u
      OBVIOUS
    <3> QED BY <3>1, <2>1 DEF Adds
  <2>4. Has(u)
    BY <2>2, <2>3 DEF Has
  <2>5. Adds(G(s), u, w, c)
    <3>1. \A v \in SUBSET u : v \in SUBSET s
      OBVIOUS
    <3> QED BY <3>1, <2>1 DEF Adds
  <2>6. u \in SUBSET S
    OBVIOUS
  <2>7. Adds(G(u), u, w, c) /\ IsFiniteSet(u)
    BY <1>1, <1>2, <2>4, <2>6
  <2>8. Picks(c, u)
    BY <2>6 DEF Picks
  <2>9. G(s)[u] = G(u)[u]
    BY <2>5, <2>7, <2>8, SumsAgree
  <2> QED BY <2>4, <2>9
<1>4. ASSUME NEW T \in SUBSET S, \A U \in SUBSET T : U # T => U \in Q
      PROVE  T \in Q
  <2> DEFINE f == [u \in SUBSET T |-> Value(u)]
  <2>1. ASSUME NEW u \in SUBSET T, u # {}
        PROVE  /\ c[u] \in u /\ u \in SUBSET S
               /\ u \ {c[u]} \in SUBSET T /\ u \ {c[u]} # T /\ u \ {c[u]} \in SUBSET S
    <3>1. u \in SUBSET S
      OBVIOUS
    <3>2. c[u] \in u
      BY <3>1, <2>1 DEF Picks
    <3> QED BY <3>1, <3>2
  <2>2. ASSUME NEW u \in SUBSET T, u # {}
        PROVE  /\ Has(u \ {c[u]}) /\ G(u \ {c[u]})[u \ {c[u]}] \in Nat
               /\ Adds(G(u \ {c[u]}), u \ {c[u]}, w, c)
    <3> DEFINE d == u \ {c[u]}
    <3>1. d \in SUBSET T /\ d # T /\ d \in SUBSET S
      BY <2>1, <2>2
    <3>2. Has(d)
      BY <3>1, <1>4
    <3> HIDE DEF d
    <3>3. G(d) \in [SUBSET d -> Nat] /\ Adds(G(d), d, w, c) /\ d \in SUBSET d
      BY <3>1, <3>2, <1>1
    <3>4. G(d)[d] \in Nat
      BY <3>3
    <3> QED BY <3>2, <3>3, <3>4 DEF d
  <2>3. \A u \in SUBSET T : Value(u) \in Nat
    <3> TAKE u \in SUBSET T
    <3>1. CASE u = {}
      BY <3>1
    <3>2. CASE u # {}
      <4>1. c[u] \in S
        BY <3>2, <2>1
      <4>2. w[c[u]] \in Nat /\ G(u \ {c[u]})[u \ {c[u]}] \in Nat
        BY <4>1, <3>2, <2>2
      <4>3. w[c[u]] + G(u \ {c[u]})[u \ {c[u]}] \in Nat
        BY ONLY <4>2
      <4> QED BY <4>3, <3>2
    <3> QED BY <3>1, <3>2
  <2>4. f \in [SUBSET T -> Nat]
    BY <2>3
  <2>5. Adds(f, T, w, c)
    <3> SUFFICES ASSUME NEW u \in SUBSET T, u # {}
                 PROVE  f[u] = w[c[u]] + f[u \ {c[u]}]
      BY DEF Adds
    <3> DEFINE d == u \ {c[u]}
    <3>1. d \in SUBSET T /\ d \in SUBSET S /\ Has(d) /\ Adds(G(d), d, w, c)
      BY <2>1, <2>2
    <3>2. G(d)[d] = Value(d)
      <4>1. CASE d = {}
        BY <3>1, <4>1 DEF Adds
      <4>2. CASE d # {}
        <5> HIDE DEF d
        <5>1. G(d)[d] = w[c[d]] + G(d)[d \ {c[d]}]
          BY <3>1, <4>2 DEF Adds
        <5>2. G(d)[d \ {c[d]}] = G(d \ {c[d]})[d \ {c[d]}]
          BY <3>1, <1>3
        <5> QED BY <5>1, <5>2, <4>2
      <4> QED BY <4>1, <4>2
    <3>3. f[u] = w[c[u]] + G(d)[d]
      OBVIOUS
    <3>4. f[d] = Value(d)
      BY <3>1
    <3> QED BY <3>2, <3>3, <3>4
  <2> HIDE DEF f
  <2>6. Has(T)
    BY <2>4, <2>5 DEF Has
  <2> QED BY <2>6
<1>5. S \in Q
  <2>1. SUBSET S \subseteq Q
    <3> HIDE DEF Q
    <3> QED BY <1>4, SubsetInduction
  <2> QED BY <2>1
<1>6. G(S) \in [SUBSET S -> Nat] /\ Adds(G(S), S, w, c)
  BY <1>5, <1>1
<1> QED BY <1>6


-----------------------------------------------------------------------------
(* The sums the models take *)

Sum(w, S) == SumFunctionOnSet(w, S)

\* What its recursion computes for the subsets of S is what adds the weights.
LEMMA SumIsAdded ==
    ASSUME NEW S, IsFiniteSet(S), NEW w, \A x \in S : w[x] \in Nat
    PROVE  \E f \in [SUBSET S -> Nat] :
              /\ Adds(f, S, w, [u \in SUBSET S |-> CHOOSE x \in u : TRUE])
              /\ Sum(w, S) = f[S]
<1> DEFINE v == [x \in S |-> w[x]]
           c == [u \in SUBSET S |-> CHOOSE x \in u : TRUE]
           Iter(f) == f = [u \in SUBSET S |->
                             IF u = {} THEN 0
                             ELSE w[CHOOSE x \in u : TRUE] + f[u \ {CHOOSE x \in u : TRUE}]]
<1>1. v \in [S -> Nat] /\ Picks(c, S)
  BY DEF Picks
<1>2. PICK f \in [SUBSET S -> Nat] : Adds(f, S, v, c)
  <2> HIDE DEF v, c
  <2>1. QED
    BY <1>1, SumExists
<1>3. ASSUME NEW u \in SUBSET S, u # {}
      PROVE  c[u] = (CHOOSE x \in u : TRUE) /\ c[u] \in S /\ v[c[u]] = w[c[u]]
  <2>1. (CHOOSE x \in u : TRUE) \in S
    BY <1>3
  <2>2. QED
    BY <2>1
<1>4. Adds(f, S, w, c)
  <2> HIDE DEF v, c
  <2>1. QED
    BY <1>2, <1>3 DEF Adds
<1>5. Iter(f)
  <2>1. ASSUME NEW u \in SUBSET S
        PROVE  f[u] = IF u = {} THEN 0
                      ELSE w[CHOOSE x \in u : TRUE] + f[u \ {CHOOSE x \in u : TRUE}]
    <3> HIDE DEF c
    <3>1. f[u] = IF u = {} THEN 0 ELSE w[c[u]] + f[u \ {c[u]}]
      BY <1>4 DEF Adds
    <3>2. QED
      BY <1>3, <3>1
  <2>2. QED
    BY <1>2, <2>1
<1> DEFINE g == CHOOSE g : Iter(g)
<1>6. Iter(g)
  BY <1>5
<1>7. Sum(w, S) = g[S]
  BY DEF Sum, SumFunctionOnSet, FoldFunctionOnSet, MapThenFoldSet
<1>8. Adds(g, S, w, c)
  <2>1. ASSUME NEW u \in SUBSET S
        PROVE  g[u] = IF u = {} THEN 0
                      ELSE w[CHOOSE x \in u : TRUE] + g[u \ {CHOOSE x \in u : TRUE}]
    <3> HIDE DEF g
    <3>1. QED
      BY <1>6
  <2> HIDE DEF g
  <2>2. ASSUME NEW u \in SUBSET S
        PROVE  g[u] = IF u = {} THEN 0 ELSE w[c[u]] + g[u \ {c[u]}]
    BY <2>1
  <2> HIDE DEF c
  <2>3. QED
    BY <2>2 DEF Adds
<1>9. g[S] = f[S]
  <2> HIDE DEF g, c
  <2>1. QED
    BY <1>1, <1>4, <1>8, SumsAgree
<1>10. QED
  BY <1>4, <1>7, <1>9

\* Nothing adds up to nothing.
LEMMA SumOfNothing == ASSUME NEW w PROVE Sum(w, {}) = 0
<1> DEFINE S == {}
           c == [u \in SUBSET S |-> CHOOSE x \in u : TRUE]
<1>1. IsFiniteSet(S) /\ \A x \in S : w[x] \in Nat
  BY FS_EmptySet
<1>2. PICK f \in [SUBSET S -> Nat] : Adds(f, S, w, c) /\ Sum(w, S) = f[S]
  <2> HIDE DEF S
  <2>1. QED
    BY <1>1, SumIsAdded
<1>3. S \in SUBSET S
  OBVIOUS
<1>4. QED
  BY <1>2, <1>3 DEF Adds

LEMMA SumIsNat ==
    ASSUME NEW S, IsFiniteSet(S), NEW w, \A x \in S : w[x] \in Nat
    PROVE  Sum(w, S) \in Nat
<1> DEFINE c == [u \in SUBSET S |-> CHOOSE x \in u : TRUE]
<1>1. PICK f \in [SUBSET S -> Nat] : Adds(f, S, w, c) /\ Sum(w, S) = f[S]
  BY SumIsAdded
<1>2. S \in SUBSET S
  OBVIOUS
<1>3. QED
  BY <1>1, <1>2

\* The same weights have the same sum.
LEMMA SameSum ==
    ASSUME NEW S, IsFiniteSet(S), NEW v, NEW w,
           \A x \in S : v[x] = w[x] /\ w[x] \in Nat
    PROVE  Sum(v, S) = Sum(w, S)
<1> DEFINE c == [u \in SUBSET S |-> CHOOSE x \in u : TRUE]
<1>1. PICK f \in [SUBSET S -> Nat] : Adds(f, S, v, c) /\ Sum(v, S) = f[S]
  BY SumIsAdded
<1>2. PICK g \in [SUBSET S -> Nat] : Adds(g, S, w, c) /\ Sum(w, S) = g[S]
  BY SumIsAdded
<1>3. Picks(c, S)
  BY DEF Picks
<1>4. \A u \in SUBSET S : u # {} => v[c[u]] = w[c[u]]
  <2>1. \A u \in SUBSET S : u # {} => c[u] \in S
    BY <1>3 DEF Picks
  <2> HIDE DEF c
  <2>2. QED
    BY <2>1
<1>5. Adds(f, S, w, c)
  <2> HIDE DEF c
  <2>1. QED
    BY <1>1, <1>4 DEF Adds
<1>6. QED
  <2> HIDE DEF c
  <2>1. QED
    BY <1>1, <1>2, <1>3, <1>5, SumsAgree

\* The member that is picked first is added to the sum of the others.
LEMMA SumPicks ==
    ASSUME NEW S, IsFiniteSet(S), S # {}, NEW w, \A x \in S : w[x] \in Nat
    PROVE  \E x \in S : Sum(w, S) = w[x] + Sum(w, S \ {x})
<1> DEFINE c == [u \in SUBSET S |-> CHOOSE x \in u : TRUE]
           x == c[S]
           T == S \ {x}
           d == [u \in SUBSET T |-> CHOOSE y \in u : TRUE]
<1>1. x \in S
  OBVIOUS
<1>2. PICK f \in [SUBSET S -> Nat] : Adds(f, S, w, c) /\ Sum(w, S) = f[S]
  BY SumIsAdded
<1>3. IsFiniteSet(T)
  BY FS_Subset
<1>4. PICK g \in [SUBSET T -> Nat] : Adds(g, T, w, d) /\ Sum(w, T) = g[T]
  <2>1. \A y \in T : w[y] \in Nat
    OBVIOUS
  <2> HIDE DEF T
  <2>2. QED
    BY <1>3, <2>1, SumIsAdded
<1>5. \A u \in SUBSET T : u \in SUBSET S /\ c[u] = d[u]
  OBVIOUS
<1>6. Picks(d, T)
  BY DEF Picks
<1>7. Adds(f, T, w, d)
  <2> HIDE DEF c, d, T
  <2>1. QED
    BY <1>2, <1>5 DEF Adds
<1>8. f[T] = g[T]
  <2> HIDE DEF c, d, T
  <2>1. QED
    BY <1>3, <1>4, <1>6, <1>7, SumsAgree
<1>9. f[S] = w[x] + f[T]
  <2> HIDE DEF c
  <2>1. S \in SUBSET S
    OBVIOUS
  <2>2. QED
    BY <1>2, <2>1 DEF Adds
<1> HIDE DEF T, x
<1>10. QED
  BY <1>1, <1>2, <1>4, <1>8, <1>9 DEF T

\* And so is any other.
LEMMA SumRemoves ==
    ASSUME NEW S, IsFiniteSet(S), NEW w, \A x \in S : w[x] \in Nat, NEW z \in S
    PROVE  Sum(w, S) = w[z] + Sum(w, S \ {z})
<1> DEFINE Q == {T \in SUBSET S : \A x \in T : Sum(w, T) = w[x] + Sum(w, T \ {x})}
<1>1. ASSUME NEW T \in SUBSET S, \A U \in SUBSET T : U # T => U \in Q PROVE T \in Q
  <2> SUFFICES ASSUME NEW x \in T PROVE Sum(w, T) = w[x] + Sum(w, T \ {x})
    OBVIOUS
  <2>1. IsFiniteSet(T) /\ \A y \in T : w[y] \in Nat
    BY FS_Subset
  <2>2. PICK y \in T : Sum(w, T) = w[y] + Sum(w, T \ {y})
    BY <2>1, SumPicks
  <2>3. CASE x = y
    BY <2>2, <2>3
  <2>4. CASE x # y
    <3> DEFINE A == T \ {x}
               B == T \ {y}
               C == (T \ {x}) \ {y}
    <3>1. A \in Q /\ B \in Q /\ x \in B /\ y \in A
      <4>1. A \in SUBSET T /\ A # T /\ B \in SUBSET T /\ B # T
        OBVIOUS
      <4> HIDE DEF A, B, Q
      <4>2. A \in Q /\ B \in Q
        BY <1>1, <4>1
      <4>3. QED
        BY <2>4, <4>2 DEF A, B
    <3>2. A \ {y} = C /\ B \ {x} = C
      OBVIOUS
    <3> HIDE DEF A, B, C
    <3>3. Sum(w, A) = w[y] + Sum(w, C) /\ Sum(w, B) = w[x] + Sum(w, C)
      BY <3>1, <3>2
    <3>4. IsFiniteSet(C) /\ \A e \in C : w[e] \in Nat
      BY <2>1, FS_Subset DEF C
    <3>5. Sum(w, C) \in Nat
      BY <3>4, SumIsNat
    <3>6. w[x] \in Nat /\ w[y] \in Nat
      BY <2>1
    <3>7. w[y] + (w[x] + Sum(w, C)) = w[x] + (w[y] + Sum(w, C))
      BY <3>5, <3>6
    <3>8. QED
      BY <2>2, <3>3, <3>7 DEF A, B
  <2>5. QED
    BY <2>3, <2>4
<1>2. SUBSET S \subseteq Q
  <2> HIDE DEF Q
  <2>1. QED
    BY <1>1, SubsetInduction
<1>3. S \in SUBSET S
  OBVIOUS
<1>4. QED
  BY <1>2, <1>3

\* Greater weights have a greater sum.
LEMMA SumLeq ==
    ASSUME NEW S, IsFiniteSet(S), NEW v, NEW w,
           \A x \in S : v[x] \in Nat /\ w[x] \in Nat /\ v[x] <= w[x]
    PROVE  Sum(v, S) <= Sum(w, S)
<1> DEFINE Q == {T \in SUBSET S : Sum(v, T) <= Sum(w, T)}
<1>1. ASSUME NEW T \in SUBSET S, \A U \in SUBSET T : U # T => U \in Q PROVE T \in Q
  <2>1. CASE T = {}
    BY <2>1, SumOfNothing
  <2>2. CASE T # {}
    <3>1. PICK z \in T : TRUE
      BY <2>2
    <3> DEFINE U == T \ {z}
    <3>2. U \in Q /\ IsFiniteSet(T) /\ IsFiniteSet(U)
      BY <1>1, FS_Subset
    <3>3. Sum(v, T) = v[z] + Sum(v, U) /\ Sum(w, T) = w[z] + Sum(w, U)
      BY <3>2, SumRemoves
    <3>4. Sum(v, U) \in Nat /\ Sum(w, U) \in Nat
      <4>1. \A x \in U : v[x] \in Nat /\ w[x] \in Nat
        OBVIOUS
      <4> HIDE DEF U
      <4>2. QED
        BY <3>2, <4>1, SumIsNat
    <3>5. v[z] \in Nat /\ w[z] \in Nat /\ v[z] <= w[z] /\ Sum(v, U) <= Sum(w, U)
      BY <3>2
    <3> HIDE DEF U
    <3>6. QED
      BY <3>3, <3>4, <3>5
  <2>3. QED
    BY <2>1, <2>2
<1>2. SUBSET S \subseteq Q
  <2> HIDE DEF Q
  <2>1. QED
    BY <1>1, SubsetInduction
<1>3. S \in SUBSET S
  OBVIOUS
<1>4. QED
  BY <1>2, <1>3

\* Sums of two weights add up.
LEMMA SumPlus ==
    ASSUME NEW S, IsFiniteSet(S), NEW u, NEW v, NEW w,
           \A x \in S : u[x] \in Nat /\ v[x] \in Nat /\ w[x] = u[x] + v[x]
    PROVE  Sum(w, S) = Sum(u, S) + Sum(v, S)
<1> DEFINE Q == {T \in SUBSET S : Sum(w, T) = Sum(u, T) + Sum(v, T)}
<1>1. ASSUME NEW T \in SUBSET S, \A U \in SUBSET T : U # T => U \in Q PROVE T \in Q
  <2>1. CASE T = {}
    BY <2>1, SumOfNothing
  <2>2. CASE T # {}
    <3>1. PICK z \in T : TRUE
      BY <2>2
    <3> DEFINE U == T \ {z}
    <3>2. U \in Q /\ IsFiniteSet(T) /\ IsFiniteSet(U)
      BY <1>1, FS_Subset
    <3>3. \A x \in T : u[x] \in Nat /\ v[x] \in Nat /\ w[x] \in Nat
      OBVIOUS
    <3>4. Sum(u, T) = u[z] + Sum(u, U) /\ Sum(v, T) = v[z] + Sum(v, U) /\ Sum(w, T) = w[z] + Sum(w, U)
      BY <3>2, <3>3, SumRemoves
    <3>5. Sum(u, U) \in Nat /\ Sum(v, U) \in Nat
      <4>1. \A x \in U : u[x] \in Nat /\ v[x] \in Nat
        OBVIOUS
      <4> HIDE DEF U
      <4>2. QED
        BY <3>2, <4>1, SumIsNat
    <3>6. u[z] \in Nat /\ v[z] \in Nat /\ w[z] = u[z] + v[z] /\ Sum(w, U) = Sum(u, U) + Sum(v, U)
      BY <3>2
    <3> HIDE DEF U
    <3>7. QED
      BY <3>4, <3>5, <3>6
  <2>3. QED
    BY <2>1, <2>2
<1>2. SUBSET S \subseteq Q
  <2> HIDE DEF Q
  <2>1. QED
    BY <1>1, SubsetInduction
<1>3. S \in SUBSET S
  OBVIOUS
<1>4. QED
  BY <1>2, <1>3

\* A common factor comes out.
LEMMA SumTimes ==
    ASSUME NEW S, IsFiniteSet(S), NEW k \in Nat, NEW v, NEW w,
           \A x \in S : v[x] \in Nat /\ w[x] = k * v[x]
    PROVE  Sum(w, S) = k * Sum(v, S)
<1> DEFINE Q == {T \in SUBSET S : Sum(w, T) = k * Sum(v, T)}
<1>0. \A x \in S : w[x] \in Nat
  OBVIOUS
<1>1. ASSUME NEW T \in SUBSET S, \A U \in SUBSET T : U # T => U \in Q PROVE T \in Q
  <2>1. CASE T = {}
    BY <2>1, SumOfNothing
  <2>2. CASE T # {}
    <3>1. PICK z \in T : TRUE
      BY <2>2
    <3> DEFINE U == T \ {z}
    <3>2. U \in Q /\ IsFiniteSet(T) /\ IsFiniteSet(U)
      BY <1>1, FS_Subset
    <3>3. Sum(v, T) = v[z] + Sum(v, U) /\ Sum(w, T) = w[z] + Sum(w, U)
      BY <1>0, <3>2, SumRemoves
    <3>4. Sum(v, U) \in Nat
      <4>1. \A x \in U : v[x] \in Nat
        OBVIOUS
      <4> HIDE DEF U
      <4>2. QED
        BY <3>2, <4>1, SumIsNat
    <3>5. v[z] \in Nat /\ w[z] = k * v[z] /\ Sum(w, U) = k * Sum(v, U)
      BY <3>2
    <3> HIDE DEF U
    <3>6. Sum(w, T) = k * v[z] + k * Sum(v, U)
      BY <3>3, <3>5
    <3>7. \A a, b \in Nat : k * a + k * b = k * (a + b)
      OBVIOUS
    <3>8. QED
      BY <3>3, <3>4, <3>5, <3>6, <3>7
  <2>3. QED
    BY <2>1, <2>2
<1>2. SUBSET S \subseteq Q
  <2> HIDE DEF Q
  <2>1. QED
    BY <1>1, SubsetInduction
<1>3. S \in SUBSET S
  OBVIOUS
<1>4. QED
  BY <1>2, <1>3

LEMMA SumOfZeros ==
    ASSUME NEW S, IsFiniteSet(S), NEW w, \A x \in S : w[x] = 0
    PROVE  Sum(w, S) = 0
<1>1. \A x \in S : w[x] \in Nat /\ w[x] = 0 * w[x]
  OBVIOUS
<1>2. Sum(w, S) = 0 * Sum(w, S) /\ Sum(w, S) \in Nat
  BY <1>1, SumTimes, SumIsNat
<1>3. QED
  BY <1>2

\* A part of the set and the rest of it.
LEMMA SumSplit ==
    ASSUME NEW S, IsFiniteSet(S), NEW w, \A x \in S : w[x] \in Nat, NEW T \in SUBSET S
    PROVE  Sum(w, S) = Sum(w, T) + Sum(w, S \ T)
<1> DEFINE Q == {U \in SUBSET T : Sum(w, S) = Sum(w, U) + Sum(w, S \ U)}
<1>1. ASSUME NEW U \in SUBSET T, \A V \in SUBSET U : V # U => V \in Q PROVE U \in Q
  <2>1. CASE U = {}
    <3>1. S \ U = S /\ Sum(w, S) \in Nat
      BY <2>1, SumIsNat
    <3>2. QED
      BY <2>1, <3>1, SumOfNothing
  <2>2. CASE U # {}
    <3>1. PICK z \in U : TRUE
      BY <2>2
    <3> DEFINE V == U \ {z}
               R == S \ V
    <3>2. V \in Q /\ IsFiniteSet(U) /\ IsFiniteSet(V) /\ IsFiniteSet(R) /\ z \in R /\ R \ {z} = S \ U
      BY <1>1, FS_Subset
    <3>3. Sum(w, U) = w[z] + Sum(w, V)
      BY <3>2, SumRemoves
    <3>4. Sum(w, R) = w[z] + Sum(w, S \ U)
      <4>1. \A x \in R : w[x] \in Nat
        OBVIOUS
      <4> HIDE DEF R
      <4>2. Sum(w, R) = w[z] + Sum(w, R \ {z})
        BY <3>2, <4>1, SumRemoves
      <4>3. QED
        BY <3>2, <4>2
    <3>5. Sum(w, V) \in Nat /\ Sum(w, S \ U) \in Nat
      <4>1. IsFiniteSet(S \ U) /\ (\A x \in V : w[x] \in Nat) /\ (\A x \in S \ U : w[x] \in Nat)
        BY FS_Subset
      <4> HIDE DEF V
      <4>2. QED
        BY <3>2, <4>1, SumIsNat
    <3>6. w[z] \in Nat /\ Sum(w, S) = Sum(w, V) + Sum(w, R)
      BY <3>2
    <3> HIDE DEF V, R
    <3>7. QED
      BY <3>3, <3>4, <3>5, <3>6
  <2>3. QED
    BY <2>1, <2>2
<1>2. SUBSET T \subseteq Q
  <2>1. IsFiniteSet(T)
    BY FS_Subset
  <2> HIDE DEF Q
  <2>2. QED
    BY <1>1, <2>1, SubsetInduction
<1>3. T \in SUBSET T
  OBVIOUS
<1>4. QED
  BY <1>2, <1>3

\* A part of the set has no more than the whole, and as much if the rest has none.
LEMMA SumOfPart ==
    ASSUME NEW S, IsFiniteSet(S), NEW w, \A x \in S : w[x] \in Nat, NEW T \in SUBSET S
    PROVE  /\ Sum(w, T) <= Sum(w, S)
           /\ (\A x \in S \ T : w[x] = 0) => Sum(w, T) = Sum(w, S)
<1>1. IsFiniteSet(T) /\ IsFiniteSet(S \ T)
  BY FS_Subset
<1>2. Sum(w, T) \in Nat /\ Sum(w, S \ T) \in Nat
  BY <1>1, SumIsNat
<1>3. (\A x \in S \ T : w[x] = 0) => Sum(w, S \ T) = 0
  BY <1>1, SumOfZeros
<1>4. QED
  BY <1>2, <1>3, SumSplit

\* If at most one weight is not 0, the sum is no greater than all weights may be.
LEMMA SumOfOne ==
    ASSUME NEW S, IsFiniteSet(S), NEW m \in Nat, NEW w,
           \A x \in S : w[x] \in Nat /\ w[x] <= m,
           \A x, y \in S : w[x] # 0 /\ w[y] # 0 => x = y
    PROVE  Sum(w, S) <= m
<1>1. CASE \A x \in S : w[x] = 0
  BY <1>1, SumOfZeros
<1>2. CASE \E x \in S : w[x] # 0
  <2>1. PICK z \in S : w[z] # 0
    BY <1>2
  <2>2. IsFiniteSet(S \ {z}) /\ \A x \in S \ {z} : w[x] = 0
    BY <2>1, FS_Subset
  <2>3. Sum(w, S \ {z}) = 0
    BY <2>2, SumOfZeros
  <2>4. QED
    BY <2>3, SumRemoves
<1>3. QED
  BY <1>1, <1>2

\* A table has the same sum by rows and by columns.
LEMMA SumExchange ==
    ASSUME NEW R, IsFiniteSet(R), NEW P, IsFiniteSet(P), NEW a,
           \A r \in R, p \in P : a[r][p] \in Nat
    PROVE  Sum([r \in R |-> Sum(a[r], P)], R)
              = Sum([p \in P |-> Sum([r \in R |-> a[r][p]], R)], P)
<1> DEFINE row == [r \in R |-> Sum(a[r], P)]
           col(p) == [r \in R |-> a[r][p]]
           upto(U) == [p \in P |-> Sum(col(p), U)]
           Q == {U \in SUBSET R : Sum(row, U) = Sum(upto(U), P)}
<1>1. \A r \in R : row[r] \in Nat
  BY SumIsNat
<1>2. \A p \in P, U \in SUBSET R : Sum(col(p), U) \in Nat
  <2> SUFFICES ASSUME NEW p \in P, NEW U \in SUBSET R PROVE Sum(col(p), U) \in Nat
    OBVIOUS
  <2>1. IsFiniteSet(U) /\ \A r \in U : col(p)[r] \in Nat
    BY FS_Subset
  <2> HIDE DEF col
  <2>2. QED
    BY <2>1, SumIsNat
<1>3. ASSUME NEW T \in SUBSET R, \A U \in SUBSET T : U # T => U \in Q PROVE T \in Q
  <2>1. CASE T = {}
    <3>1. \A p \in P : upto(T)[p] = 0
      BY <2>1, SumOfNothing
    <3>2. Sum(upto(T), P) = 0
      <4> HIDE DEF upto
      <4>1. QED
        BY <3>1, SumOfZeros
    <3>3. QED
      BY <2>1, <3>2, SumOfNothing
  <2>2. CASE T # {}
    <3>1. PICK z \in T : TRUE
      BY <2>2
    <3> DEFINE U == T \ {z}
    <3>2. U \in Q /\ IsFiniteSet(T) /\ U \in SUBSET R
      BY <1>3, FS_Subset
    <3>3. Sum(row, T) = row[z] + Sum(row, U)
      <4> HIDE DEF row
      <4>1. QED
        BY <1>1, <3>2, SumRemoves
    <3>4. ASSUME NEW p \in P
          PROVE  a[z][p] \in Nat /\ upto(U)[p] \in Nat /\ upto(T)[p] = a[z][p] + upto(U)[p]
      <4>1. (\A r \in T : col(p)[r] \in Nat) /\ col(p)[z] = a[z][p] /\ a[z][p] \in Nat
        OBVIOUS
      <4>2. Sum(col(p), U) \in Nat
        BY <1>2, <3>2
      <4>3. upto(T)[p] = Sum(col(p), T) /\ upto(U)[p] = Sum(col(p), U)
        OBVIOUS
      <4> HIDE DEF col, upto
      <4>4. Sum(col(p), T) = col(p)[z] + Sum(col(p), U)
        BY <3>2, <4>1, SumRemoves
      <4>5. QED
        BY <4>1, <4>2, <4>3, <4>4
    <3>5. Sum(upto(T), P) = Sum(a[z], P) + Sum(upto(U), P)
      <4> HIDE DEF upto, U
      <4>1. QED
        BY <3>4, SumPlus
    <3>6. row[z] = Sum(a[z], P) /\ Sum(row, U) = Sum(upto(U), P)
      BY <3>2
    <3> HIDE DEF row, upto, U
    <3>7. QED
      BY <3>3, <3>5, <3>6
  <2>3. QED
    BY <2>1, <2>2
<1>4. R \in Q
  <2>1. SUBSET R \subseteq Q
    <3> HIDE DEF Q
    <3>1. QED
      BY <1>3, SubsetInduction
  <2>2. R \in SUBSET R
    OBVIOUS
  <2>3. QED
    BY <2>1, <2>2
<1>5. QED
  BY <1>4

\* There is a greatest number in a finite set of them.
LEMMA MaxIsGreatest ==
    ASSUME NEW S \in SUBSET Nat, IsFiniteSet(S), S # {}
    PROVE  Max(S) \in S /\ \A x \in S : x <= Max(S)
<1> DEFINE Q == {T \in SUBSET S : T # {} => \E x \in T : \A y \in T : y <= x}
<1>1. ASSUME NEW T \in SUBSET S, \A U \in SUBSET T : U # T => U \in Q PROVE T \in Q
  <2>1. CASE T # {}
    <3>1. PICK z \in T : TRUE
      BY <2>1
    <3>2. T \ {z} \in Q
      BY <1>1
    <3>3. CASE T \ {z} = {}
      BY <3>3
    <3>4. CASE T \ {z} # {}
      <4>1. PICK x \in T \ {z} : \A y \in T \ {z} : y <= x
        BY <3>2, <3>4
      <4>2. CASE z <= x
        BY <4>1, <4>2
      <4>3. CASE ~ (z <= x)
        BY <4>1, <4>3
      <4>4. QED
        BY <4>2, <4>3
    <3>5. QED
      BY <3>3, <3>4
  <2>2. QED
    BY <2>1
<1>2. SUBSET S \subseteq Q
  <2> HIDE DEF Q
  <2>1. QED
    BY <1>1, SubsetInduction
<1>3. S \in SUBSET S
  OBVIOUS
<1>4. PICK x \in S : \A y \in S : y <= x
  BY <1>2, <1>3
<1>5. QED
  BY <1>4 DEF Max

LEMMA SumOfSingle ==
    ASSUME NEW x, NEW w, w[x] \in Nat PROVE Sum(w, {x}) = w[x]
<1>1. IsFiniteSet({x}) /\ {x} \ {x} = {}
  BY FS_Singleton
<1>2. Sum(w, {x}) = w[x] + Sum(w, {x} \ {x})
  BY <1>1, SumRemoves
<1>3. QED
  BY <1>1, <1>2, SumOfNothing

AreThree(x, y, z, T) == T = {x, y, z} /\ x # y /\ y # z /\ x # z

LEMMA SumOfThree ==
    ASSUME NEW x, NEW y, NEW z, NEW T, AreThree(x, y, z, T), NEW w, \A e \in T : w[e] \in Nat
    PROVE  IsFiniteSet(T) /\ Sum(w, T) = w[x] + w[y] + w[z]
<1>1. /\ x # y /\ y # z /\ x # z /\ T = {x, y, z}
      /\ w[x] \in Nat /\ w[y] \in Nat /\ w[z] \in Nat
  BY DEF AreThree
<1>2. IsFiniteSet({z}) /\ {y, z} = {z} \cup {y} /\ {x, y, z} = {y, z} \cup {x}
  BY FS_Singleton
<1>3. IsFiniteSet({y, z})
  BY <1>2, FS_AddElement
<1>4. IsFiniteSet({x, y, z})
  BY <1>2, <1>3, FS_AddElement
<1>5. {x, y, z} \ {x} = {y, z} /\ {y, z} \ {y} = {z}
  BY <1>1
<1>6. Sum(w, {x, y, z}) = w[x] + Sum(w, {x, y, z} \ {x})
  BY <1>1, <1>4, SumRemoves
<1>7. Sum(w, {y, z}) = w[y] + Sum(w, {y, z} \ {y})
  BY <1>1, <1>3, SumRemoves
<1>8. Sum(w, {z}) = w[z]
  BY <1>1, SumOfSingle
<1>9. Sum(w, {y, z}) = w[y] + w[z]
  BY <1>1, <1>5, <1>7, <1>8
<1>10. Sum(w, {x, y, z}) = w[x] + (w[y] + w[z])
  BY <1>1, <1>5, <1>6, <1>9
<1>11. \A a, b, c \in Nat : a + (b + c) = a + b + c
  OBVIOUS
<1>12. QED
  BY <1>1, <1>4, <1>10, <1>11
=============================================================================
