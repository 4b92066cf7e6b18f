----------------------------- MODULE FiniteSums -----------------------------
(***************************************************************************)
(* Sums over finite sets, and functions on the numbers up to n that are    *)
(* computed step by step.  MapThenSumSet, with which the modules add up    *)
(* balances and ledger rows, chooses a recursive function on the subsets   *)
(* of the set; IsSum names such a function, Total(f) is its value at the   *)
(* whole domain of f.  A subset is strictly smaller than its set, an order *)
(* in which every non-empty set of subsets has a minimal element, which    *)
(* gives induction over subsets with a set in the place of a predicate,    *)
(* and induction up to n as that over the subsets 1..k of 1..n.            *)
(***************************************************************************)
EXTENDS Integers, FiniteSets, FiniteSetTheorems, WellFoundedInduction, TLAPS

\* The element the fold of a set takes next, and the function it chooses
Pick(s) == CHOOSE x \in s : TRUE
IsSum(g, f, S) ==
  g = [s \in SUBSET S |-> IF s = {} THEN 0 ELSE f[Pick(s)] + g[s \ {Pick(s)}]]

\* What holds of a subset whenever it holds of the smaller ones holds of all.
LEMMA SubsetInduction ==
  ASSUME NEW S, IsFiniteSet(S), NEW C,
         \A s \in SUBSET S : (\A t \in SUBSET s : t # s => t \in C) => s \in C
  PROVE  SUBSET S \subseteq C
  <1> DEFINE T == (SUBSET S) \ C
  <1>1. SUFFICES ASSUME T # {} PROVE FALSE
    OBVIOUS
  <1>3. IsWellFoundedOn(StrictSubsetOrdering(S), FiniteSubsetsOf(S))
    BY FS_StrictSubsetOrderingWellFounded
  <1>4. FiniteSubsetsOf(S) = SUBSET S
    BY FS_FiniteSubsetsOfFinite
  <1>5. T \subseteq FiniteSubsetsOf(S)
    BY <1>4
  <1> HIDE DEF T
  <1>6. \E s \in T : \A t \in T : ~(<<t, s>> \in StrictSubsetOrdering(S))
    BY <1>1, <1>3, <1>5, WFMin
  <1>7. PICK s \in T : \A t \in T : ~(t \subseteq s /\ t # s)
    <2>1. \A s, t \in SUBSET S : t \subseteq s /\ t # s =>
            <<t, s>> \in StrictSubsetOrdering(S)
      BY DEF StrictSubsetOrdering
    <2>2. T \subseteq SUBSET S
      BY DEF T
    <2> QED BY <1>6, <2>1, <2>2
  <1>8. \A t \in SUBSET s : t # s => t \in C
    BY <1>7 DEF T
  <1> QED BY <1>8 DEF T

\* Induction over the numbers up to n, by that over the sets of the first of them.
LEMMA UpTo ==
  ASSUME NEW n \in Nat, NEW C, 0 \in C, \A k \in 0..(n - 1) : k \in C => k + 1 \in C
  PROVE  0..n \subseteq C
  <1>0. PICK S : S = 1..n
    OBVIOUS
  <1> DEFINE D == {s \in SUBSET S : \A k \in 0..n : s = 1..k => k \in C}
  <1>1. ASSUME NEW s \in SUBSET S, \A t \in SUBSET s : t # s => t \in D,
               NEW k \in 0..n, s = 1..k
        PROVE  k \in C
    <2>1. CASE k # 0
      <3>1. 1..(k - 1) \in SUBSET s /\ 1..(k - 1) # s /\ k - 1 \in 0..n
        BY <1>1, <2>1
      <3>2. 1..(k - 1) \in D
        BY <1>1, <3>1
      <3>3. k - 1 \in C
        BY <3>1, <3>2
      <3>4. k - 1 \in 0..(n - 1) /\ (k - 1) + 1 = k
        BY <2>1
      <3> QED BY <3>3, <3>4
    <2> QED BY <2>1
  <1>2. SUBSET S \subseteq D
    <2>1. IsFiniteSet(S)
      BY <1>0, FS_Interval
    <2>2. \A s \in SUBSET S : (\A t \in SUBSET s : t # s => t \in D) => s \in D
      BY <1>1
    <2> HIDE DEF D
    <2> QED BY <2>1, <2>2, SubsetInduction
  <1>3. \A k \in 0..n : 1..k \in SUBSET S
    BY <1>0
  <1> QED BY <1>2, <1>3

\* What is computed step by step from the numbers up to n is a function on them.
Steps(step, n, X) == step \in [1..n -> [X -> X]]
Iterates(f, step, n, a, X) ==
  f \in [0..n -> X] /\ f[0] = a /\ \A i \in 1..n : f[i] = step[i][f[i - 1]]

LEMMA Iteration ==
  ASSUME NEW n \in Nat, NEW X, NEW a \in X, NEW step, Steps(step, n, X)
  PROVE  \E f : Iterates(f, step, n, a, X)
  <1> DEFINE C == {k \in 0..n : \E f : Iterates(f, step, k, a, X)}
  <1>1. 0 \in C
    <2>1. Iterates([i \in {0} |-> a], step, 0, a, X)
      BY DEF Iterates
    <2> QED BY <2>1
  <1>2. ASSUME NEW k \in 0..(n - 1), k \in C
        PROVE  k + 1 \in C
    <2>1. PICK f : Iterates(f, step, k, a, X)
      BY <1>2
    <2> DEFINE g == [i \in 0..(k + 1) |-> IF i = k + 1 THEN step[k + 1][f[k]] ELSE f[i]]
    <2>2. step[k + 1][f[k]] \in X
      BY <2>1 DEF Iterates, Steps
    <2>3. Iterates(g, step, k + 1, a, X)
      BY <2>1, <2>2 DEF Iterates
    <2> HIDE DEF g
    <2> QED BY <2>3
  <1> HIDE DEF C
  <1>3. 0..n \subseteq C
    BY <1>1, <1>2, UpTo
  <1> QED BY <1>3 DEF C

\* What is taken is an element.
LEMMA PickIn == ASSUME NEW s, s # {} PROVE Pick(s) \in s
  BY DEF Pick

\* A sum depends on the summands only, not on the set it is a part of.
LEMMA SumUnique ==
  ASSUME NEW S, IsFiniteSet(S), NEW T, NEW f, NEW e, NEW g, NEW h,
         IsSum(g, f, S), IsSum(h, e, T), \A x \in S \cap T : f[x] = e[x]
  PROVE  \A s \in SUBSET (S \cap T) : g[s] = h[s]
  <1>0. PICK V : V = S \cap T
    OBVIOUS
  <1> DEFINE C == {s \in SUBSET V : g[s] = h[s]}
  <1>1. ASSUME NEW s \in SUBSET V, \A t \in SUBSET s : t # s => t \in C
        PROVE  s \in C
    <2>1. CASE s = {}
      BY <1>0, <2>1 DEF IsSum
    <2>2. CASE s # {}
      <3>1. Pick(s) \in s /\ s \in SUBSET S /\ s \in SUBSET T
        BY <1>0, <2>2, PickIn
      <3>2. g[s \ {Pick(s)}] = h[s \ {Pick(s)}]
        BY <1>1, <3>1
      <3>3. g[s] = f[Pick(s)] + g[s \ {Pick(s)}] /\ h[s] = e[Pick(s)] + h[s \ {Pick(s)}]
        BY <2>2, <3>1 DEF IsSum
      <3> QED BY <1>0, <3>1, <3>2, <3>3
    <2> QED BY <2>1, <2>2
  <1>2. IsFiniteSet(V)
    BY <1>0, FS_Intersection
  <1> HIDE DEF C
  <1>3. \A s \in SUBSET V : (\A t \in SUBSET s : t # s => t \in C) => s \in C
    BY <1>1
  <1>4. SUBSET V \subseteq C
    BY ONLY <1>2, <1>3, SubsetInduction
  <1> QED BY <1>0, <1>4 DEF C

\* Every finite set has its sum.
LEMMA SumExists ==
  ASSUME NEW S, IsFiniteSet(S), NEW f
  PROVE  \E g : IsSum(g, f, S)
  <1> DEFINE C == {s \in SUBSET S : \E g : IsSum(g, f, s)}
  <1>1. ASSUME NEW s \in SUBSET S, \A t \in SUBSET s : t # s => t \in C
        PROVE  s \in C
    <2> DEFINE G(t) == CHOOSE g : IsSum(g, f, t)
               g == [t \in SUBSET s |-> IF t = {} THEN 0
                                        ELSE f[Pick(t)] + G(t \ {Pick(t)})[t \ {Pick(t)}]]
    <2>1. ASSUME NEW t \in SUBSET s, t # s PROVE IsSum(G(t), f, t)
      BY <1>1, <2>1
    <2>2. ASSUME NEW t \in SUBSET s, t # s, NEW u \in SUBSET t PROVE G(t)[u] = g[u]
      <3>0. u \in SUBSET s /\ u # s
        BY <2>2
      <3>1. CASE u = {}
        <4>1. IsSum(G(t), f, t)
          BY <2>1, <2>2
        <4> HIDE DEF G
        <4>2. G(t)[u] = 0
          BY <4>1, <3>1 DEF IsSum
        <4> QED BY <4>2, <3>0, <3>1
      <3>2. CASE u # {}
        <4> DEFINE v == u \ {Pick(u)}
        <4>1. v \in SUBSET u /\ v \in SUBSET s /\ v # s
          BY <3>2, <3>0, PickIn
        <4>2. IsSum(G(t), f, t) /\ IsSum(G(v), f, v)
          BY <2>1, <2>2, <4>1
        <4>3. IsFiniteSet(t)
          BY <2>2, FS_Subset
        <4>4. G(t)[v] = G(v)[v]
          <5> HIDE DEF G, v
          <5> QED BY <4>1, <4>2, <4>3, SumUnique
        <4>5. G(t)[u] = f[Pick(u)] + G(t)[v]
          BY <3>2, <4>2 DEF IsSum
        <4>6. g[u] = f[Pick(u)] + G(v)[v]
          BY <3>2, <3>0
        <4> QED BY <4>4, <4>5, <4>6
      <3> QED BY <3>1, <3>2
    <2>3. ASSUME NEW t \in SUBSET s, t # {}
          PROVE  G(t \ {Pick(t)})[t \ {Pick(t)}] = g[t \ {Pick(t)}]
      <3>1. t \ {Pick(t)} \in SUBSET s /\ t \ {Pick(t)} # s
        BY <2>3, PickIn
      <3> HIDE DEF G, g
      <3> QED BY <2>2, <3>1
    <2>4. IsSum(g, f, s)
      <3>1. g = [t \in SUBSET s |-> IF t = {} THEN 0 ELSE f[Pick(t)] + g[t \ {Pick(t)}]]
        <4> HIDE DEF G
        <4>1. ASSUME NEW t \in SUBSET s
              PROVE  g[t] = IF t = {} THEN 0 ELSE f[Pick(t)] + g[t \ {Pick(t)}]
          BY <2>3
        <4>2. \E b : g = [t \in SUBSET s |-> b[t]]
          <5>1. g = [t \in SUBSET s |-> g[t]]
            OBVIOUS
          <5> HIDE DEF g
          <5> QED BY <5>1
        <4> HIDE DEF g
        <4> QED BY <4>1, <4>2
      <3> HIDE DEF g
      <3> QED BY <3>1 DEF IsSum
    <2> HIDE DEF g
    <2> QED BY <2>4
  <1> HIDE DEF C
  <1>2. \A s \in SUBSET S : (\A t \in SUBSET s : t # s => t \in C) => s \in C
    BY <1>1
  <1>3. SUBSET S \subseteq C
    BY ONLY <1>2, IsFiniteSet(S), SubsetInduction
  <1> QED BY <1>3 DEF C

\* A sum of integers is an integer.
LEMMA SumType ==
  ASSUME NEW S, IsFiniteSet(S), NEW f, NEW g, IsSum(g, f, S),
         \A x \in S : f[x] \in Int
  PROVE  \A s \in SUBSET S : g[s] \in Int
  <1> DEFINE C == {s \in SUBSET S : g[s] \in Int}
  <1>1. ASSUME NEW s \in SUBSET S, \A t \in SUBSET s : t # s => t \in C
        PROVE  s \in C
    <2>1. g[s] = IF s = {} THEN 0 ELSE f[Pick(s)] + g[s \ {Pick(s)}]
      BY DEF IsSum
    <2>2. s # {} => Pick(s) \in s
      BY PickIn
    <2> QED BY <1>1, <2>1, <2>2
  <1> HIDE DEF C
  <1>2. \A s \in SUBSET S : (\A t \in SUBSET s : t # s => t \in C) => s \in C
    BY <1>1
  <1>3. SUBSET S \subseteq C
    BY ONLY <1>2, IsFiniteSet(S), SubsetInduction
  <1> QED BY <1>3 DEF C

\* Any element may be taken first: the order of summation does not matter.
LEMMA SumSplits ==
  ASSUME NEW S, IsFiniteSet(S), NEW f, NEW g, IsSum(g, f, S),
         \A x \in S : f[x] \in Int
  PROVE  \A s \in SUBSET S : \A y \in s : g[s] = f[y] + g[s \ {y}]
  <1> DEFINE C == {s \in SUBSET S : \A y \in s : g[s] = f[y] + g[s \ {y}]}
  <1>1. ASSUME NEW s \in SUBSET S, \A t \in SUBSET s : t # s => t \in C
        PROVE  s \in C
    <2> SUFFICES ASSUME NEW y \in s PROVE g[s] = f[y] + g[s \ {y}]
      OBVIOUS
    <2> DEFINE x == Pick(s)
    <2>1. g[s] = f[x] + g[s \ {x}] /\ x \in s
      BY PickIn DEF IsSum
    <2>2. CASE x = y
      BY <2>1, <2>2
    <2>3. CASE x # y
      <3> DEFINE r == s \ {x, y}
      <3> HIDE DEF x
      <3>1. /\ s \ {x} \in C /\ s \ {y} \in C
            /\ y \in s \ {x} /\ x \in s \ {y}
        BY <1>1, <2>1, <2>3
      <3>2. (s \ {x}) \ {y} = r /\ (s \ {y}) \ {x} = r /\ r \in SUBSET S
        BY <2>1
      <3>3. g[s \ {x}] = f[y] + g[r] /\ g[s \ {y}] = f[x] + g[r]
        BY <3>1, <3>2
      <3>4. f[x] \in Int /\ f[y] \in Int /\ g[r] \in Int
        BY <2>1, <3>2, SumType
      <3> QED BY ONLY <2>1, <3>3, <3>4
    <2> QED BY <2>2, <2>3
  <1> HIDE DEF C
  <1>2. \A s \in SUBSET S : (\A t \in SUBSET s : t # s => t \in C) => s \in C
    BY <1>1
  <1>3. SUBSET S \subseteq C
    BY ONLY <1>2, IsFiniteSet(S), SubsetInduction
  <1> QED BY <1>3 DEF C

\* A sum of natural numbers is zero only if each of them is.
LEMMA SumOfNats ==
  ASSUME NEW S, IsFiniteSet(S), NEW f, NEW g, IsSum(g, f, S),
         \A x \in S : f[x] \in Nat
  PROVE  \A s \in SUBSET S : g[s] \in Nat /\ (g[s] = 0 => \A x \in s : f[x] = 0)
  <1> DEFINE C == {s \in SUBSET S : g[s] \in Nat}
  <1>1. ASSUME NEW s \in SUBSET S, \A t \in SUBSET s : t # s => t \in C
        PROVE  s \in C
    <2>1. g[s] = IF s = {} THEN 0 ELSE f[Pick(s)] + g[s \ {Pick(s)}]
      BY DEF IsSum
    <2>2. s # {} => Pick(s) \in s
      BY PickIn
    <2> QED BY <1>1, <2>1, <2>2
  <1>4. \A s \in SUBSET S : \A y \in s : g[s] = f[y] + g[s \ {y}]
    <2>1. \A x \in S : f[x] \in Int
      OBVIOUS
    <2> SUFFICES ASSUME NEW s \in SUBSET S, NEW y \in s PROVE g[s] = f[y] + g[s \ {y}]
      OBVIOUS
    <2> QED BY <2>1, SumSplits
  <1> HIDE DEF C
  <1>2. \A s \in SUBSET S : (\A t \in SUBSET s : t # s => t \in C) => s \in C
    BY <1>1
  <1>3. SUBSET S \subseteq C
    BY ONLY <1>2, IsFiniteSet(S), SubsetInduction
  <1>5. ASSUME NEW s \in SUBSET S, g[s] = 0, NEW x \in s PROVE f[x] = 0
    <2>1. g[s \ {x}] \in Nat /\ f[x] \in Nat
      BY <1>3 DEF C
    <2>2. 0 = f[x] + g[s \ {x}]
      BY <1>4, <1>5
    <2> QED BY <2>1, <2>2
  <1> QED BY <1>3, <1>5 DEF C

\* The sum of the values of f
Total(f) == (CHOOSE g : IsSum(g, f, DOMAIN f))[DOMAIN f]

\* Total may be computed by any function that adds the elements up in the
\* order Pick takes them.
LEMMA TotalIs ==
  ASSUME NEW S, IsFiniteSet(S), NEW f, NEW e, DOMAIN e = S, NEW g, IsSum(g, f, S),
         \A x \in S : f[x] = e[x]
  PROVE  Total(e) = g[S]
  <1>1. \E h : IsSum(h, e, S)
    BY SumExists
  <1> DEFINE h == CHOOSE h : IsSum(h, e, S)
  <1>2. IsSum(h, e, S)
    BY <1>1
  <1>3. Total(e) = h[S]
    BY DEF Total
  <1> HIDE DEF h
  <1>4. S \cap S = S /\ S \in SUBSET S
    OBVIOUS
  <1>5. \A s \in SUBSET (S \cap S) : g[s] = h[s]
    BY <1>2, SumUnique
  <1> QED BY <1>3, <1>4, <1>5

\* Nothing adds up to zero.
LEMMA TotalEmpty == ASSUME NEW f, DOMAIN f = {} PROVE Total(f) = 0
  <1>1. PICK g : IsSum(g, f, {})
    BY FS_EmptySet, SumExists
  <1>2. Total(f) = g[{}]
    BY <1>1, FS_EmptySet, TotalIs
  <1> QED BY <1>1, <1>2 DEF IsSum

\* A total of integers is an integer.
LEMMA TotalType ==
  ASSUME NEW f, IsFiniteSet(DOMAIN f), \A x \in DOMAIN f : f[x] \in Int
  PROVE  Total(f) \in Int
  <1>1. PICK g : IsSum(g, f, DOMAIN f)
    BY SumExists
  <1>2. Total(f) = g[DOMAIN f]
    BY <1>1, TotalIs
  <1>3. g[DOMAIN f] \in Int
    BY <1>1, SumType
  <1> QED BY <1>2, <1>3

\* One more summand adds its value, whatever the order.
LEMMA TotalAdded ==
  ASSUME NEW S, IsFiniteSet(S), NEW x, x \notin S,
         NEW e, DOMAIN e = S, NEW f, DOMAIN f = S \union {x},
         \A y \in S : f[y] = e[y], \A y \in S : f[y] \in Int, f[x] \in Int
  PROVE  Total(f) = f[x] + Total(e)
  <1> DEFINE T == S \union {x}
  <1>1. IsFiniteSet(T)
    BY FS_AddElement
  <1> HIDE DEF T
  <1>2. PICK g : IsSum(g, f, T)
    BY <1>1, SumExists
  <1>3. PICK h : IsSum(h, e, S)
    BY SumExists
  <1>4. Total(f) = g[T] /\ Total(e) = h[S]
    BY <1>1, <1>2, <1>3, TotalIs DEF T
  <1>5. g[T] = f[x] + g[T \ {x}]
    <2>1. \A y \in T : f[y] \in Int
      BY DEF T
    <2>2. T \in SUBSET T /\ x \in T
      BY DEF T
    <2> QED BY <1>1, <1>2, <2>1, <2>2, SumSplits
  <1>6. T \ {x} = S /\ T \cap S = S
    BY DEF T
  <1>7. g[S] = h[S]
    <2>1. \A s \in SUBSET (T \cap S) : g[s] = h[s]
      BY <1>1, <1>2, <1>3, <1>6, SumUnique
    <2> QED BY <1>6, <2>1
  <1> QED BY <1>4, <1>5, <1>6, <1>7

=============================================================================
