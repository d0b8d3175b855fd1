--------------------------- MODULE FoldProofs ---------------------------
(***************************************************************************)
(* What a fold over a finite set computes. Folds!MapThenFoldSet is a       *)
(* function on the subsets of the set that takes out one chosen element    *)
(* after the other; these lemmas say that there is such a function, and    *)
(* allow to reason about it by induction. Induction is on sets, of numbers *)
(* or of subsets, in place of formulas.                                    *)
(***************************************************************************)
EXTENDS Integers, FiniteSetTheorems, WellFoundedInduction, TLAPS

\* The element a fold takes out of a set.
Pick(s) == CHOOSE x \in s : TRUE

\* Among sets of subsets of a finite set, one has no other of them within itself.
LEMMA SmallestSubset ==
  ASSUME NEW T, IsFiniteSet(T), NEW Q \in SUBSET (SUBSET T), Q # {}
  PROVE  \E q \in Q : \A p \in Q : ~(p \subseteq q /\ p # q)
<1> DEFINE R == StrictSubsetOrdering(T)
<1>1. IsWellFoundedOn(R, SUBSET T)
  BY FS_StrictSubsetOrderingWellFounded, FS_FiniteSubsetsOfFinite
<1>2. PICK q \in Q : \A p \in Q : ~(<<p, q>> \in R)
  <2> HIDE DEF R
  <2> QED BY <1>1, WFMin
<1>3. ASSUME NEW p \in Q, p \subseteq q, p # q
      PROVE  FALSE
  <2>1. <<p, q>> \in R
    BY <1>3 DEF StrictSubsetOrdering
  <2> QED BY <1>2, <2>1
<1> QED BY <1>3

\* A set of numbers that has 0 and with each number the next has them all: of the numbers below
\* one that is missing, those smaller than the least one missing are the smallest set.
LEMMA Induction ==
  ASSUME NEW G \in SUBSET Nat, 0 \in G, \A n \in G : n + 1 \in G
  PROVE  G = Nat
<1> SUFFICES ASSUME NEW k \in Nat \ G PROVE FALSE
  OBVIOUS
<1> DEFINE B == (0..k) \ G
           below(x) == {y \in B : y < x}
           Q == {below(x) : x \in B}
<1>1. IsFiniteSet(B)
  BY FS_Interval, FS_Subset, 0 \in Int, k \in Int
<1>2. Q \in SUBSET (SUBSET B) /\ Q # {}
  <2>1. k \in B
    OBVIOUS
  <2>2. below(k) \in Q
    BY <2>1
  <2> QED BY <2>2
<1>3. PICK q \in Q : \A p \in Q : ~(p \subseteq q /\ p # q)
  <2> HIDE DEF B, Q
  <2> QED BY <1>1, <1>2, SmallestSubset
<1>4. PICK m \in B : q = below(m)
  OBVIOUS
<1>5. m \in Nat \ G /\ m # 0 /\ m <= k
  OBVIOUS
<1>6. PICK j \in Nat : m = j + 1
  BY <1>5
<1>7. j \in B
  BY <1>5, <1>6
<1>8. below(j) \in Q /\ below(j) \subseteq below(m) /\ j \in below(m) /\ j \notin below(j)
  BY <1>5, <1>6, <1>7
<1> QED BY <1>3, <1>4, <1>8

LEMMA PickOut ==
  ASSUME NEW s, IsFiniteSet(s), s # {}
  PROVE  Pick(s) \in s /\ IsFiniteSet(s \ {Pick(s)}) /\ Cardinality(s) \in Nat
         /\ Cardinality(s \ {Pick(s)}) = Cardinality(s) - 1
<1>1. Pick(s) \in s
  BY DEF Pick
<1> QED BY <1>1, FS_RemoveElement, FS_CardinalityType

\* What a fold from base with the step G makes of s, if f is what it makes of smaller sets.
FoldStep(G, base, f, s) == IF s = {} THEN base ELSE G[<<Pick(s), f[s \ {Pick(s)}]>>]

\* f folds the subsets of T to values of V.
IsFold(f, T, V, G, base) ==
  f \in [SUBSET T -> V] /\ \A s \in SUBSET T : f[s] = FoldStep(G, base, f, s)

\* A fold has a result on every subset of a finite set, of the type of its steps: it is defined on
\* the subsets of n elements for any n.
LEMMA FoldIsDefined ==
  ASSUME NEW T, IsFiniteSet(T), NEW V, NEW base \in V, NEW G \in [T \X V -> V]
  PROVE  \E f : IsFold(f, T, V, G, base)
<1> DEFINE Upto(f, n) == \A s \in SUBSET T : Cardinality(s) <= n => f[s] = FoldStep(G, base, f, s)
           N == {n \in Nat : \E f \in [SUBSET T -> V] : Upto(f, n)}
<1>0. \A s \in SUBSET T : IsFiniteSet(s) /\ Cardinality(s) \in Nat /\ Cardinality(s) <= Cardinality(T)
  BY FS_Subset, FS_CardinalityType
<1>1. 0 \in N
  <2>1. PICK f \in [SUBSET T -> V] : f = [s \in SUBSET T |-> base]
    OBVIOUS
  <2>2. ASSUME NEW s \in SUBSET T, Cardinality(s) <= 0
        PROVE  f[s] = FoldStep(G, base, f, s)
    <3>1. s = {}
      BY <1>0, <2>2, FS_EmptySet
    <3> QED BY <2>1, <3>1 DEF FoldStep
  <2>3. Upto(f, 0)
    BY <2>2
  <2> QED BY <2>3
<1>2. ASSUME NEW n \in N
      PROVE  n + 1 \in N
  <2>1. n \in Nat
    OBVIOUS
  <2>2. PICK f \in [SUBSET T -> V] : Upto(f, n)
    OBVIOUS
  <2>3. \A s \in SUBSET T : FoldStep(G, base, f, s) \in V
    <3> SUFFICES ASSUME NEW s \in SUBSET T PROVE FoldStep(G, base, f, s) \in V
      OBVIOUS
    <3>1. CASE s = {}
      BY <3>1 DEF FoldStep
    <3>2. CASE s # {}
      <4>1. Pick(s) \in T /\ f[s \ {Pick(s)}] \in V
        BY <1>0, <3>2, PickOut
      <4>2. G[<<Pick(s), f[s \ {Pick(s)}]>>] \in V
        BY <4>1
      <4> QED BY <3>2, <4>2 DEF FoldStep
    <3> QED BY <3>1, <3>2
  <2>4. PICK g : g = [s \in SUBSET T |-> IF Cardinality(s) <= n THEN f[s] ELSE FoldStep(G, base, f, s)]
    OBVIOUS
  <2>5. g \in [SUBSET T -> V]
    BY <2>3, <2>4
  <2>6. ASSUME NEW s \in SUBSET T, Cardinality(s) <= n + 1
        PROVE  g[s] = FoldStep(G, base, g, s)
    <3>1. g[s] = FoldStep(G, base, f, s)
      BY <2>2, <2>4
    <3>2. CASE s = {}
      BY <3>1, <3>2 DEF FoldStep
    <3>3. CASE s # {}
      <4> PICK t : t = s \ {Pick(s)}
        OBVIOUS
      <4>1. t \in SUBSET T /\ Cardinality(t) <= n
        BY <1>0, <2>1, <2>6, <3>3, PickOut
      <4>2. g[t] = f[t]
        BY <2>4, <4>1
      <4> QED BY <3>1, <4>2 DEF FoldStep
    <3> QED BY <3>2, <3>3
  <2>7. Upto(g, n + 1)
    BY <2>6
  <2> QED BY <2>1, <2>5, <2>7
<1>3. PICK n \in Nat : n = Cardinality(T)
  BY FS_CardinalityType
<1>4. PICK f \in [SUBSET T -> V] : Upto(f, n)
  <2>1. N = Nat
    <3> HIDE DEF N
    <3>1. N \in SUBSET Nat
      BY DEF N
    <3> QED BY <1>1, <1>2, <3>1, Induction
  <2> QED BY <2>1
<1>5. \A s \in SUBSET T : f[s] = FoldStep(G, base, f, s)
  BY <1>0, <1>3, <1>4
<1> QED BY <1>5 DEF IsFold

SameSteps(F, G, S, V) == \A x \in S, v \in V : F[<<x, v>>] = G[<<x, v>>]
Agree(f, g, S) == \A s \in SUBSET S : f[s] = g[s]

\* Two folds whose steps agree on the elements of S make the same of the subsets of S.
LEMMA FoldsAgree ==
  ASSUME NEW T, NEW S \in SUBSET T, IsFiniteSet(S), NEW V, NEW base, NEW F, NEW G, NEW f, NEW g,
         IsFold(f, S, V, F, base), IsFold(g, T, V, G, base),
         SameSteps(F, G, S, V)
  PROVE  Agree(f, g, S)
<1> DEFINE Bad == {s \in SUBSET S : f[s] # g[s]}
<1>1. ASSUME NEW s \in Bad, \A t \in Bad : ~(t \subseteq s /\ t # s)
      PROVE  FALSE
  <2>1. s \in SUBSET S /\ IsFiniteSet(s) /\ f[s] = FoldStep(F, base, f, s) /\ g[s] = FoldStep(G, base, g, s)
    BY FS_Subset DEF IsFold
  <2>2. s # {}
    BY <2>1 DEF FoldStep
  <2> PICK t : t = s \ {Pick(s)}
    OBVIOUS
  <2>3. Pick(s) \in S /\ t \in SUBSET S /\ t \subseteq s /\ t # s
    BY <2>1, <2>2, PickOut
  <2>4. f[t] = g[t] /\ f[t] \in V
    BY <1>1, <2>3 DEF IsFold
  <2>5. F[<<Pick(s), f[t]>>] = G[<<Pick(s), g[t]>>]
    BY <2>3, <2>4 DEF SameSteps
  <2> QED BY <2>1, <2>2, <2>5 DEF FoldStep
<1>2. Bad \in SUBSET (SUBSET S)
  OBVIOUS
<1> HIDE DEF Bad
<1>3. Bad = {}
  BY <1>1, <1>2, SmallestSubset
<1> QED BY <1>3 DEF Bad, Agree

----------------------------------------------------------------------------
(* Sums *)

Adding(T, wt) == [p \in T \X Int |-> wt[p[1]] + p[2]]

\* f adds up the weights of each set of elements of T.
IsSum(f, T, wt) == IsFold(f, T, Int, Adding(T, wt), 0)

\* The elements of T have weights; and f adds them up one by one.
Weighs(wt, T) == \A x \in T : wt[x] \in Int
AddsUp(f, T, wt) ==
  /\ f \in [SUBSET T -> Int] /\ f[{}] = 0
  /\ \A s \in SUBSET T : s # {} => f[s] = wt[Pick(s)] + f[s \ {Pick(s)}]

LEMMA SumSteps ==
  ASSUME NEW T, NEW wt, Weighs(wt, T), NEW f, IsSum(f, T, wt)
  PROVE  AddsUp(f, T, wt)
<1>1. f \in [SUBSET T -> Int] /\ \A s \in SUBSET T : f[s] = FoldStep(Adding(T, wt), 0, f, s)
  BY DEF IsSum, IsFold
<1>2. f[{}] = 0
  BY <1>1 DEF FoldStep
<1>3. ASSUME NEW s \in SUBSET T, s # {}
      PROVE  f[s] = wt[Pick(s)] + f[s \ {Pick(s)}]
  <2> PICK p, t : p = Pick(s) /\ t = s \ {Pick(s)}
    OBVIOUS
  <2>1. p \in T /\ f[t] \in Int /\ wt[p] \in Int
    BY <1>1, <1>3 DEF Pick, Weighs
  <2>2. Adding(T, wt)[<<p, f[t]>>] = wt[p] + f[t]
    BY <2>1 DEF Adding
  <2>3. f[s] = Adding(T, wt)[<<p, f[t]>>]
    BY <1>1, <1>3 DEF FoldStep
  <2> QED BY <2>2, <2>3
<1> QED BY <1>1, <1>2, <1>3 DEF AddsUp

LEMMA SumIsDefined ==
  ASSUME NEW T, IsFiniteSet(T), NEW wt, Weighs(wt, T)
  PROVE  \E f : IsSum(f, T, wt)
<1> PICK V : V = Int
  OBVIOUS
<1>1. Adding(T, wt) \in [T \X V -> V] /\ 0 \in V
  <2>1. \A p \in T \X Int : wt[p[1]] + p[2] \in Int
    BY DEF Weighs
  <2>2. Adding(T, wt) \in [T \X Int -> Int]
    BY <2>1 DEF Adding
  <2> QED BY <2>2
<1>2. \E f : IsFold(f, T, V, Adding(T, wt), 0)
  BY <1>1, FoldIsDefined
<1> QED BY <1>2 DEF IsSum

\* It does not matter which element is taken out first.
LEMMA SumTakesOut ==
  ASSUME NEW T, IsFiniteSet(T), NEW wt, Weighs(wt, T), NEW f, IsSum(f, T, wt)
  PROVE  \A s \in SUBSET T : \A x \in s : f[s] = wt[x] + f[s \ {x}]
<1> DEFINE Even(s) == \A x \in s : f[s] = wt[x] + f[s \ {x}]
           Bad == {s \in SUBSET T : ~Even(s)}
<1>0. /\ f \in [SUBSET T -> Int]
      /\ \A s \in SUBSET T : s # {} => f[s] = wt[Pick(s)] + f[s \ {Pick(s)}]
  <2>1. AddsUp(f, T, wt)
    BY SumSteps
  <2> QED BY <2>1 DEF AddsUp
<1>1. ASSUME NEW s \in Bad, \A t \in Bad : ~(t \subseteq s /\ t # s)
      PROVE  FALSE
  <2>1. s \in SUBSET T
    OBVIOUS
  <2>2. PICK x \in s : f[s] # wt[x] + f[s \ {x}]
    OBVIOUS
  <2> PICK p : p = Pick(s)
    OBVIOUS
  <2>3. p \in s /\ p # x /\ f[s] = wt[p] + f[s \ {p}]
    BY <1>0, <2>1, <2>2 DEF Pick
  <2> PICK r : r = (s \ {p}) \ {x}
    OBVIOUS
  <2>4. Even(s \ {p}) /\ Even(s \ {x})
    <3>1. \A y \in s : s \ {y} \in SUBSET T /\ s \ {y} \subseteq s /\ s \ {y} # s
      BY <2>1
    <3>2. \A y \in s : s \ {y} \notin Bad
      BY <1>1, <3>1
    <3>3. \A y \in s : Even(s \ {y})
      BY <3>1, <3>2
    <3> QED BY <2>2, <2>3, <3>3
  <2>5. f[s \ {p}] = wt[x] + f[r]
    BY <2>2, <2>3, <2>4
  <2>6. f[s \ {x}] = wt[p] + f[r]
    <3>1. r = (s \ {x}) \ {p} /\ p \in s \ {x}
      BY <2>3
    <3> QED BY <2>4, <3>1
  <2>7. wt[p] \in Int /\ wt[x] \in Int /\ f[r] \in Int
    BY <1>0, <2>1, <2>2, <2>3 DEF Weighs
  <2> QED BY <2>2, <2>3, <2>5, <2>6, <2>7
<1>2. Bad \in SUBSET (SUBSET T)
  OBVIOUS
<1>3. Bad = {}
  <2> HIDE DEF Bad
  <2> QED BY <1>1, <1>2, SmallestSubset
<1> QED BY <1>3

\* One more element adds its weight.
LEMMA SumGrows ==
  ASSUME NEW T, IsFiniteSet(T), NEW e, e \notin T, NEW wt, Weighs(wt, T \cup {e}),
         NEW f, NEW g, IsSum(f, T, wt), IsSum(g, T \cup {e}, wt)
  PROVE  g[T \cup {e}] = f[T] + wt[e]
<1> PICK U : U = T \cup {e}
  OBVIOUS
<1>1. IsFiniteSet(U)
  BY FS_AddElement
<1>2. g[U] = wt[e] + g[T]
  <2>1. U \in SUBSET U /\ e \in U /\ U \ {e} = T
    OBVIOUS
  <2> QED BY <1>1, <2>1, SumTakesOut
<1>3. g[T] = f[T]
  <2> PICK V : V = Int
    OBVIOUS
  <2>1. IsFold(f, T, V, Adding(T, wt), 0) /\ IsFold(g, U, V, Adding(U, wt), 0)
    BY DEF IsSum
  <2>2. \A x \in T, v \in V : Adding(T, wt)[<<x, v>>] = Adding(U, wt)[<<x, v>>]
    BY DEF Adding
  <2>3. \A s \in SUBSET T : f[s] = g[s]
    <3>1. T \in SUBSET U
      OBVIOUS
    <3> PICK F, G : F = Adding(T, wt) /\ G = Adding(U, wt)
      OBVIOUS
    <3>2. IsFold(f, T, V, F, 0) /\ IsFold(g, U, V, G, 0) /\ SameSteps(F, G, T, V)
      BY <2>1, <2>2 DEF SameSteps
    <3>3. Agree(f, g, T)
      BY <3>1, <3>2, FoldsAgree
    <3> QED BY <3>3 DEF Agree
  <2> QED BY <2>3
<1>4. f[T] \in Int /\ wt[e] \in Int
  <2>1. Weighs(wt, T)
    BY DEF Weighs
  <2>2. f \in [SUBSET T -> Int]
    BY <2>1, SumSteps DEF AddsUp
  <2> QED BY <2>2 DEF Weighs
<1> QED BY <1>2, <1>3, <1>4

\* What a loop that adds the weights makes of s, if f is what it makes of smaller sets.
Added(wt, f, s) == IF s = {} THEN 0 ELSE wt[Pick(s)] + f[s \ {Pick(s)}]

Adds(loop, T, wt) == loop = [s \in SUBSET T |-> Added(wt, loop, s)]

\* A function defined by that loop is the sum.
LEMMA LoopIsSum ==
  ASSUME NEW T, IsFiniteSet(T), NEW wt, Weighs(wt, T), NEW f, IsSum(f, T, wt),
         NEW loop, Adds(loop, T, wt)
  PROVE  loop = f
<1> DEFINE Bad == {s \in SUBSET T : loop[s] # f[s]}
<1>0. /\ f \in [SUBSET T -> Int] /\ f[{}] = 0
      /\ \A s \in SUBSET T : s # {} => f[s] = wt[Pick(s)] + f[s \ {Pick(s)}]
  <2>1. AddsUp(f, T, wt)
    BY SumSteps
  <2> QED BY <2>1 DEF AddsUp
<1>1. ASSUME NEW s \in Bad, \A t \in Bad : ~(t \subseteq s /\ t # s)
      PROVE  FALSE
  <2>1. s \in SUBSET T /\ loop[s] # f[s] /\ loop[s] = Added(wt, loop, s)
    BY DEF Adds
  <2>2. s # {}
    BY <1>0, <2>1 DEF Added
  <2> PICK t : t = s \ {Pick(s)}
    OBVIOUS
  <2>3. t \in SUBSET T /\ t \subseteq s /\ t # s
    BY <2>1, <2>2 DEF Pick
  <2>4. loop[t] = f[t]
    BY <1>1, <2>3
  <2> QED BY <1>0, <2>1, <2>2, <2>4 DEF Added
<1>2. Bad \in SUBSET (SUBSET T)
  OBVIOUS
<1>3. Bad = {}
  <2> HIDE DEF Bad
  <2> QED BY <1>1, <1>2, SmallestSubset
<1> QED BY <1>0, <1>3 DEF Adds
==========================================================================
