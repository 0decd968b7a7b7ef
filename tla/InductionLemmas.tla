--------------------------- MODULE InductionLemmas ---------------------------
(***************************************************************************)
(* Induction over the natural numbers stated for sets, and what follows    *)
(* for a function defined by recursion on them and for the set that is     *)
(* found by adding to a set, step by step, what its elements lead to.      *)
(***************************************************************************)
EXTENDS Integers, FiniteSetTheorems, NaturalsInduction, TLAPS

Less == {ss \in Nat \X Nat : ss[1] < ss[2]}

LEMMA LeastNatural ==
  ASSUME NEW T \in SUBSET Nat, T # {}
  PROVE  \E m \in T : \A k \in T : m <= k
<1>1. IsWellFoundedOn(Less, Nat)
  BY NatLessThanWellFounded DEF Less, OpToRel
<1>2. PICK x \in T : \A y \in T : ~ (<<y, x>> \in Less)
  BY <1>1, WFMin, Zenon
<1>3. \A y \in T : x <= y
  <2> TAKE y \in T
  <2>1. x \in Nat /\ y \in Nat /\ ~ (<<y, x>> \in Less)
    BY <1>2
  <2> QED
    BY <2>1 DEF Less
<1> QED
  BY <1>3

\* A set with 0 and the successors of its elements holds every natural number.
LEMMA SetInduction ==
  ASSUME NEW S, 0 \in S, \A n \in Nat : n \in S => n + 1 \in S
  PROVE  Nat \subseteq S
<1> SUFFICES ASSUME NEW T, T = Nat \ S, T # {} PROVE FALSE
  OBVIOUS
<1>1. PICK m \in T : \A k \in T : m <= k
  BY LeastNatural
<1>2. m # 0 /\ m - 1 \in Nat /\ m - 1 \in S
  BY <1>1
<1> QED
  BY <1>1, <1>2

\* A function on the natural numbers may be defined by its first value and by
\* how each value gives the next one.
LEMMA Recursion ==
  ASSUME NEW D, NEW base \in D, NEW F \in [D -> D]
  PROVE  \E f \in [Nat -> D] : f[0] = base /\ \A n \in Nat : f[n + 1] = F[f[n]]
<1> DEFINE Approx(n, g) ==
      g \in [0 .. n -> D] /\ g[0] = base /\ \A k \in 0 .. n - 1 : g[k + 1] = F[g[k]]
<1>1. \A n \in Nat : \E g : Approx(n, g)
  <2> DEFINE S == {n \in Nat : \E g : Approx(n, g)}
  <2>1. 0 \in S
    <3>1. Approx(0, [k \in 0 .. 0 |-> base])
      OBVIOUS
    <3> QED
      BY <3>1
  <2>2. ASSUME NEW n \in Nat, n \in S PROVE n + 1 \in S
    <3>1. PICK g : Approx(n, g)
      BY <2>2
    <3>2. Approx(n + 1, [k \in 0 .. n + 1 |-> IF k = n + 1 THEN F[g[n]] ELSE g[k]])
      BY <3>1
    <3> HIDE DEF Approx
    <3> QED
      BY <3>2
  <2> HIDE DEF S
  <2>3. Nat \subseteq S
    BY <2>1, <2>2, SetInduction
  <2> QED
    BY <2>3 DEF S
<1>2. ASSUME NEW m \in Nat, NEW n \in Nat, m <= n, NEW g, NEW h, Approx(m, g), Approx(n, h)
      PROVE  g[m] = h[m]
  <2> DEFINE S == {k \in Nat : k <= m => g[k] = h[k]}
  <2>1. 0 \in S
    BY <1>2
  <2>2. ASSUME NEW k \in Nat, k \in S PROVE k + 1 \in S
    BY <1>2, <2>2
  <2> HIDE DEF S
  <2>3. Nat \subseteq S
    BY <2>1, <2>2, SetInduction
  <2> QED
    BY <2>3 DEF S
<1> DEFINE G == [n \in Nat |-> CHOOSE g : Approx(n, g)]
           f == [n \in Nat |-> G[n][n]]
<1>3. \A n \in Nat : Approx(n, G[n])
  BY <1>1
<1> HIDE DEF G
<1>4. f \in [Nat -> D] /\ f[0] = base
  BY <1>3
<1>5. ASSUME NEW n \in Nat PROVE f[n + 1] = F[f[n]]
  <2>1. Approx(n, G[n]) /\ Approx(n + 1, G[n + 1]) /\ n + 1 \in Nat /\ n <= n + 1
    BY <1>3
  <2> HIDE DEF Approx
  <2>2. G[n][n] = G[n + 1][n]
    BY <2>1, <1>2
  <2> USE DEF Approx
  <2> QED
    BY <2>1, <2>2
<1> QED
  BY <1>4, <1>5

\* The same up to n, where each value may depend on its place too.
IsRun(D, base, n, F, f) ==
  f \in [0 .. n -> D] /\ f[0] = base /\ \A k \in 1 .. n : f[k] = F[k][f[k - 1]]

LEMMA FiniteRecursion ==
  ASSUME NEW D, NEW base \in D, NEW n \in Nat, NEW F \in [1 .. n -> [D -> D]]
  PROVE  \E f : IsRun(D, base, n, F, f)
<1> DEFINE Approx(m, f) ==
             f \in [0 .. m -> D] /\ f[0] = base /\ \A k \in 1 .. m : f[k] = F[k][f[k - 1]]
           S == {m \in Nat : m <= n => \E f : Approx(m, f)}
<1>1. 0 \in S
  <2>1. Approx(0, [k \in 0 .. 0 |-> base])
    OBVIOUS
  <2> QED
    BY <2>1
<1>2. ASSUME NEW m \in Nat, m \in S, m + 1 <= n PROVE \E f : Approx(m + 1, f)
  <2>1. PICK f : Approx(m, f)
    BY <1>2
  <2>2. m \in 0 .. m /\ f[m] \in D /\ m + 1 \in 1 .. n
    BY <1>2, <2>1
  <2>3. PICK d \in D : d = F[m + 1][f[m]]
    BY <2>2
  <2> DEFINE g == [k \in 0 .. m + 1 |-> IF k = m + 1 THEN d ELSE f[k]]
  <2>4. g \in [0 .. m + 1 -> D] /\ g[m + 1] = d /\ \A k \in 0 .. m : g[k] = f[k]
    BY <2>1
  <2> HIDE DEF g
  <2>5. ASSUME NEW k \in 1 .. m + 1 PROVE g[k] = F[k][g[k - 1]]
    <3>1. CASE k = m + 1
      <4>1. k - 1 = m /\ g[m] = f[m]
        BY <2>2, <2>4, <3>1
      <4> QED
        BY <2>3, <2>4, <3>1, <4>1
    <3>2. CASE k # m + 1
      <4>1. k \in 1 .. m /\ k \in 0 .. m /\ k - 1 \in 0 .. m
        BY <3>2
      <4> QED
        BY <2>1, <2>4, <4>1
    <3> QED
      BY <3>1, <3>2
  <2>6. Approx(m + 1, g)
    BY <2>1, <2>4, <2>5
  <2> QED
    BY <2>6
<1>3. \A m \in Nat : m \in S => m + 1 \in S
  <2> HIDE DEF Approx
  <2> QED
    BY <1>2
<1>4. n \in S
  <2> HIDE DEF S
  <2> QED
    BY <1>1, <1>3, SetInduction
<1> QED
  BY <1>4 DEF IsRun

-----------------------------------------------------------------------------
\* The elements of V that are in `base` or are led to from there along R.

IsClosure(V, R, base, B) ==
  /\ B \in SUBSET V
  /\ base \subseteq B
  /\ \A m \in B, p \in V : <<m, p>> \in R => p \in B
  /\ \A S \in SUBSET V :
       base \subseteq S /\ (\A m \in S, p \in V : <<m, p>> \in R => p \in S) => B \subseteq S

\* The steps of a search, each of which adds what it is led to in one more step.
IsSearch(V, R, base, up) ==
  /\ up[0] = base
  /\ \A k \in Nat : up[k + 1] = up[k] \cup {p \in V : \E m \in up[k] : <<m, p>> \in R}

LEMMA SearchExists ==
  ASSUME NEW V, NEW R, NEW base \in SUBSET V
  PROVE  \E up \in [Nat -> SUBSET V] : IsSearch(V, R, base, up)
<1> DEFINE F == [S \in SUBSET V |-> S \cup {p \in V : \E m \in S : <<m, p>> \in R}]
<1>1. PICK D : D = SUBSET V
  OBVIOUS
<1>2. base \in D /\ F \in [D -> D]
  BY <1>1
<1>3. \A S \in SUBSET V : F[S] = S \cup {p \in V : \E m \in S : <<m, p>> \in R}
  OBVIOUS
<1> HIDE DEF F
<1>4. PICK f \in [Nat -> D] : f[0] = base /\ \A k \in Nat : f[k + 1] = F[f[k]]
  BY <1>2, Recursion
<1>5. f \in [Nat -> SUBSET V] /\ f[0] = base
  BY <1>1, <1>4
<1>6. ASSUME NEW k \in Nat
      PROVE  f[k + 1] = f[k] \cup {p \in V : \E m \in f[k] : <<m, p>> \in R}
  <2>1. f[k] \in SUBSET V
    BY <1>5
  <2> QED
    BY <1>3, <1>4, <2>1
<1> QED
  BY <1>5, <1>6 DEF IsSearch

\* In a finite set the search has found everything after as many steps as the
\* set has elements.
LEMMA SearchEnds ==
  ASSUME NEW V, IsFiniteSet(V), NEW R, NEW base \in SUBSET V, NEW up, IsSearch(V, R, base, up)
  PROVE  IsClosure(V, R, base, up[Cardinality(V)])
<1> DEFINE N == Cardinality(V)
           Next(S) == {p \in V : \E m \in S : <<m, p>> \in R}
<1>1. N \in Nat
  BY FS_CardinalityType
<1>2. up[0] = base /\ \A k \in Nat : up[k + 1] = up[k] \cup Next(up[k])
  BY DEF IsSearch
<1>3. \A S : Next(S) \in SUBSET V
  OBVIOUS
<1>4. \A S, p : p \in Next(S) <=> p \in V /\ \E m \in S : <<m, p>> \in R
  OBVIOUS
<1> HIDE DEF Next
<1>5. \A k \in Nat : up[k] \in SUBSET V /\ base \subseteq up[k]
  <2> DEFINE S == {k \in Nat : up[k] \in SUBSET V /\ base \subseteq up[k]}
  <2>1. 0 \in S /\ \A k \in Nat : k \in S => k + 1 \in S
    BY <1>2, <1>3
  <2> HIDE DEF S
  <2>2. Nat \subseteq S
    BY <2>1, SetInduction
  <2> QED
    BY <2>2 DEF S
<1>6. ASSUME NEW C \in SUBSET V, base \subseteq C, \A m \in C, p \in V : <<m, p>> \in R => p \in C
      PROVE  \A k \in Nat : up[k] \subseteq C
  <2> DEFINE S == {k \in Nat : up[k] \subseteq C}
  <2>1. 0 \in S
    BY <1>2, <1>6
  <2>2. ASSUME NEW k \in Nat, up[k] \subseteq C PROVE up[k + 1] \subseteq C
    <3>1. ASSUME NEW p \in Next(up[k]) PROVE p \in C
      BY <1>4, <1>6, <2>2
    <3> QED
      BY <1>2, <2>2, <3>1
  <2>3. \A k \in Nat : k \in S => k + 1 \in S
    BY <2>2
  <2> HIDE DEF S
  <2>4. Nat \subseteq S
    BY <2>1, <2>3, SetInduction
  <2> QED
    BY <2>4 DEF S
<1>7. \A k \in Nat : IsFiniteSet(up[k]) /\ Cardinality(up[k]) \in Nat /\ Cardinality(up[k]) <= N
  BY <1>5, FS_Subset, FS_CardinalityType
<1>8. ASSUME NEW k \in Nat, ~ (Next(up[k]) \subseteq up[k])
      PROVE  Cardinality(up[k + 1]) >= Cardinality(up[k]) + 1
  <2>1. PICK x \in Next(up[k]) : x \notin up[k]
    BY <1>8
  <2>2. up[k] \cup {x} \in SUBSET up[k + 1] /\ IsFiniteSet(up[k + 1]) /\ IsFiniteSet(up[k])
    <3>1. k + 1 \in Nat
      OBVIOUS
    <3> QED
      BY <1>2, <1>7, <2>1, <3>1
  <2>3. Cardinality(up[k] \cup {x}) = Cardinality(up[k]) + 1
    BY <2>1, <2>2, FS_AddElement
  <2>4. Cardinality(up[k] \cup {x}) <= Cardinality(up[k + 1])
    BY <2>2, FS_Subset
  <2>5. Cardinality(up[k + 1]) \in Nat
    BY <1>7
  <2> QED
    BY <1>7, <2>3, <2>4, <2>5
<1>9. \A k \in Nat : Next(up[k]) \subseteq up[k] \/ Cardinality(up[k]) >= k
  <2> DEFINE S == {k \in Nat : Next(up[k]) \subseteq up[k] \/ Cardinality(up[k]) >= k}
  <2>1. 0 \in S
    BY <1>7
  <2>2. ASSUME NEW k \in Nat, k \in S PROVE k + 1 \in S
    <3>1. k + 1 \in Nat
      OBVIOUS
    <3>2. CASE Next(up[k]) \subseteq up[k]
      <4>1. up[k + 1] = up[k]
        BY <1>2, <3>2
      <4> QED
        BY <3>1, <3>2, <4>1
    <3>3. CASE ~ (Next(up[k]) \subseteq up[k])
      <4>1. Cardinality(up[k]) >= k /\ Cardinality(up[k]) \in Nat /\ Cardinality(up[k + 1]) \in Nat
        BY <1>7, <2>2, <3>1, <3>3
      <4>2. Cardinality(up[k + 1]) >= k + 1
        BY <1>8, <3>3, <4>1
      <4> QED
        BY <3>1, <4>2
    <3> QED
      BY <3>2, <3>3
  <2> HIDE DEF S
  <2>3. Nat \subseteq S
    BY <2>1, <2>2, SetInduction
  <2> QED
    BY <2>3 DEF S
<1>10. Next(up[N]) \subseteq up[N]
  <2> SUFFICES ASSUME ~ (Next(up[N]) \subseteq up[N]) PROVE FALSE
    OBVIOUS
  <2>1. Cardinality(up[N]) >= N /\ Cardinality(up[N + 1]) >= Cardinality(up[N]) + 1
    BY <1>1, <1>8, <1>9
  <2> QED
    BY <1>1, <1>7, <2>1
<1>11. \A m \in up[N], p \in V : <<m, p>> \in R => p \in up[N]
  BY <1>4, <1>10
<1> HIDE DEF N
<1>12. IsClosure(V, R, base, up[N])
  BY <1>1, <1>5, <1>6, <1>11 DEF IsClosure
<1> QED
  BY <1>12 DEF N

=============================================================================
