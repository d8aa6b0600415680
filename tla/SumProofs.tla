------------------------------ MODULE SumProofs ------------------------------
(***************************************************************************)
(* Sums over finite sets (Functions!SumFunctionOnSet), for the books of    *)
(* the other modules.  The sum is a fold that takes the elements in the    *)
(* order of a CHOOSE, so that it is what it should be, and does not depend *)
(* on that order, needs induction over the sets.  The strict subsets of a  *)
(* finite set are well-founded: a set that a statement fails for would     *)
(* contain a least one, and the statement holds for all its subsets.       *)
(* Then what a linear order says of counts, and the same argument for      *)
(* numbers: the least and the greatest of a set.                           *)
(***************************************************************************)
EXTENDS Integers, FiniteSets, Functions, FiniteSetTheorems, WellFoundedInduction, TLAPS

Sum(f, S) == SumFunctionOnSet(f, S)

\* Every family of subsets of S that has a set has one without strict subsets.
LEMMA LeastSubset ==
  ASSUME NEW S, IsFiniteSet(S), NEW B \in SUBSET SUBSET S, B # {}
  PROVE  \E T \in B : \A U \in SUBSET T : U # T => U \notin B
<1>1. IsWellFoundedOn(StrictSubsetOrdering(S), SUBSET S)
  BY FS_StrictSubsetOrderingWellFounded, FS_FiniteSubsetsOfFinite
<1>2. PICK T \in B : \A U \in B : <<U, T>> \notin StrictSubsetOrdering(S)
  BY <1>1, WFMin
<1> QED
  BY <1>2 DEF StrictSubsetOrdering

-----------------------------------------------------------------------------
(* The fold exists                                                         *)

Pick(s) == CHOOSE x \in s : TRUE

\* h is the fold's function for the subsets of S.
IsFold(h, f, S) ==
  h = [s \in SUBSET S |-> IF s = {} THEN 0 ELSE f[Pick(s)] + h[s \ {Pick(s)}]]

Fold(f, S) == CHOOSE h : IsFold(h, f, S)

LEMMA SumIsFold == \A f, S : Sum(f, S) = Fold(f, S)[S]
  BY DEF Sum, SumFunctionOnSet, FoldFunctionOnSet, MapThenFoldSet, Fold, IsFold, Pick

LEMMA PickIn == \A s : s # {} => Pick(s) \in s
  BY DEF Pick

\* What a fold is on the subsets of its set.
LEMMA FoldValue ==
  ASSUME NEW h, NEW f, NEW S, IsFold(h, f, S), NEW s \in SUBSET S
  PROVE  h[s] = IF s = {} THEN 0 ELSE f[Pick(s)] + h[s \ {Pick(s)}]
  BY DEF IsFold

\* Two folds agree where both are defined.
LEMMA FoldsAgree ==
  ASSUME NEW f, NEW S, NEW T, IsFiniteSet(S), NEW h, NEW g,
         IsFold(h, f, S), IsFold(g, f, T)
  PROVE  \A s \in SUBSET (S \cap T) : h[s] = g[s]
<1> DEFINE B == {s \in SUBSET (S \cap T) : h[s] # g[s]}
<1> SUFFICES ASSUME B # {} PROVE FALSE
  OBVIOUS
<1>1. PICK s \in B : \A u \in SUBSET s : u # s => u \notin B
  <2>1. B \in SUBSET SUBSET S
    OBVIOUS
  <2> HIDE DEF B
  <2> QED
    BY <2>1, LeastSubset
<1>2. s \in SUBSET S /\ s \in SUBSET T /\ h[s] # g[s]
  BY <1>1
<1>3. CASE s = {}
  BY <1>2, <1>3, FoldValue
<1>4. CASE s # {}
  <2> DEFINE u == s \ {Pick(s)}
  <2>1. u \in SUBSET s /\ u # s
    BY <1>4, PickIn
  <2>2. h[u] = g[u]
    BY <1>1, <1>2, <2>1
  <2> HIDE DEF B
  <2>3. h[s] = IF s = {} THEN 0 ELSE f[Pick(s)] + h[u]
    <3>1. IsFold(h, f, S) /\ s \in SUBSET S
      BY <1>2
    <3> QED
      BY <3>1, FoldValue, Zenon
  <2>4. g[s] = IF s = {} THEN 0 ELSE f[Pick(s)] + g[u]
    <3>1. IsFold(g, f, T) /\ s \in SUBSET T
      BY <1>2
    <3> QED
      BY <3>1, FoldValue, Zenon
  <2> HIDE DEF u
  <2> QED
    BY <1>2, <1>4, <2>2, <2>3, <2>4
<1> QED
  BY <1>3, <1>4

LEMMA FoldExists ==
  ASSUME NEW f, NEW S, IsFiniteSet(S)
  PROVE  IsFold(Fold(f, S), f, S)
<1> DEFINE B == {T \in SUBSET S : ~ \E h : IsFold(h, f, T)}
<1> SUFFICES ASSUME B # {} PROVE FALSE
  BY DEF Fold
<1>1. PICK T \in B : \A U \in SUBSET T : U # T => U \notin B
  <2> HIDE DEF B
  <2>1. B \in SUBSET SUBSET S
    BY DEF B
  <2> QED
    BY <2>1, LeastSubset
<1>2. T \in SUBSET S /\ IsFiniteSet(T) /\ ~ \E h : IsFold(h, f, T)
  BY <1>1, FS_Subset
<1>3. \A U \in SUBSET T : U # T => IsFiniteSet(U) /\ IsFold(Fold(f, U), f, U)
  BY <1>1, <1>2, FS_Subset DEF Fold
<1> HIDE DEF B
<1> DEFINE value(U) == Fold(f, U)[U]
           h == [s \in SUBSET T |->
                   IF s = {} THEN 0 ELSE f[Pick(s)] + value(s \ {Pick(s)})]
<1>4. ASSUME NEW s \in SUBSET T, s # T PROVE h[s] = value(s)
  <2>1. IsFold(Fold(f, s), f, s) /\ IsFiniteSet(s)
    BY <1>3, <1>4
  <2>2. value(s) = IF s = {} THEN 0 ELSE f[Pick(s)] + Fold(f, s)[s \ {Pick(s)}]
    BY <2>1, FoldValue
  <2>3. CASE s = {}
    BY <2>2, <2>3
  <2>4. CASE s # {}
    <3> DEFINE u == s \ {Pick(s)}
    <3>1. u \in SUBSET s /\ u # s /\ u \in SUBSET T /\ u # T
      BY <2>4, PickIn
    <3>2. IsFold(Fold(f, u), f, u)
      BY <1>3, <3>1
    <3>3. u \in SUBSET (s \cap u)
      BY <3>1
    <3> HIDE DEF u
    <3>4. Fold(f, s)[u] = Fold(f, u)[u]
      BY <2>1, <3>2, <3>3, FoldsAgree
    <3> QED
      BY <2>2, <2>4, <3>4 DEF u
  <2> QED
    BY <2>3, <2>4
<1>5. \A s \in SUBSET T : s # {} => h[s \ {Pick(s)}] = value(s \ {Pick(s)})
  <2> SUFFICES ASSUME NEW s \in SUBSET T, s # {}
               PROVE  h[s \ {Pick(s)}] = value(s \ {Pick(s)})
    OBVIOUS
  <2>1. s \ {Pick(s)} \in SUBSET T /\ s \ {Pick(s)} # T
    BY PickIn
  <2> HIDE DEF h, value
  <2> QED
    BY <2>1, <1>4
<1>6. IsFold(h, f, T)
  <2>1. h = [s \in SUBSET T |-> IF s = {} THEN 0 ELSE f[Pick(s)] + h[s \ {Pick(s)}]]
    BY <1>5
  <2> QED
    BY <2>1 DEF IsFold
<1> QED
  BY <1>2, <1>6

-----------------------------------------------------------------------------
(* What a sum is                                                           *)

LEMMA SumEmpty == \A f : Sum(f, {}) = 0
<1> SUFFICES ASSUME NEW f PROVE Sum(f, {}) = 0
  OBVIOUS
<1>1. IsFold(Fold(f, {}), f, {})
  BY FoldExists, FS_EmptySet
<1> QED
  BY <1>1, FoldValue, SumIsFold

\* The recursion itself, with the element that CHOOSE takes first.
LEMMA SumPick ==
  ASSUME NEW f, NEW S, IsFiniteSet(S), S # {}
  PROVE  Sum(f, S) = f[Pick(S)] + Sum(f, S \ {Pick(S)})
<1> DEFINE U == S \ {Pick(S)}
<1>1. IsFiniteSet(U) /\ U \in SUBSET (S \cap U)
  BY FS_Subset
<1>2. IsFold(Fold(f, S), f, S) /\ IsFold(Fold(f, U), f, U)
  BY <1>1, FoldExists
<1>3. Fold(f, S)[S] = f[Pick(S)] + Fold(f, S)[U]
  BY <1>2, FoldValue
<1> HIDE DEF U
<1>4. Fold(f, S)[U] = Fold(f, U)[U]
  BY <1>1, <1>2, FoldsAgree
<1> QED
  BY <1>3, <1>4, SumIsFold DEF U

\* Equal terms have equal sums.
LEMMA SumSame ==
  ASSUME NEW f, NEW g, NEW S, IsFiniteSet(S), \A x \in S : f[x] = g[x]
  PROVE  Sum(f, S) = Sum(g, S)
<1> DEFINE B == {T \in SUBSET S : Sum(f, T) # Sum(g, T)}
<1> SUFFICES ASSUME B # {} PROVE FALSE
  OBVIOUS
<1>1. PICK T \in B : \A U \in SUBSET T : U # T => U \notin B
  <2> HIDE DEF B
  <2>1. B \in SUBSET SUBSET S
    BY DEF B
  <2> QED
    BY <2>1, LeastSubset
<1>2. T \in SUBSET S /\ IsFiniteSet(T) /\ Sum(f, T) # Sum(g, T)
  BY <1>1, FS_Subset
<1>3. T # {}
  BY <1>2, SumEmpty
<1> DEFINE U == T \ {Pick(T)}
<1>4. U \in SUBSET T /\ U # T /\ Pick(T) \in S
  BY <1>2, <1>3, PickIn
<1>5. Sum(f, U) = Sum(g, U)
  BY <1>1, <1>2, <1>4
<1> HIDE DEF B
<1>6. Sum(f, T) = f[Pick(T)] + Sum(f, U) /\ Sum(g, T) = g[Pick(T)] + Sum(g, U)
  BY <1>2, <1>3, SumPick
<1> QED
  BY <1>2, <1>4, <1>5, <1>6

LEMMA SumType ==
  ASSUME NEW f, NEW S, IsFiniteSet(S), \A x \in S : f[x] \in Int
  PROVE  Sum(f, S) \in Int
<1> DEFINE B == {T \in SUBSET S : Sum(f, T) \notin Int}
<1> SUFFICES ASSUME B # {} PROVE FALSE
  OBVIOUS
<1>1. PICK T \in B : \A U \in SUBSET T : U # T => U \notin B
  <2> HIDE DEF B
  <2>1. B \in SUBSET SUBSET S
    BY DEF B
  <2> QED
    BY <2>1, LeastSubset
<1>2. T \in SUBSET S /\ IsFiniteSet(T) /\ Sum(f, T) \notin Int
  BY <1>1, FS_Subset
<1>3. T # {}
  BY <1>2, SumEmpty
<1> DEFINE U == T \ {Pick(T)}
<1>4. U \in SUBSET T /\ U # T /\ Pick(T) \in S
  BY <1>2, <1>3, PickIn
<1>5. Sum(f, U) \in Int
  BY <1>1, <1>2, <1>4
<1> HIDE DEF B
<1>6. Sum(f, T) = f[Pick(T)] + Sum(f, U)
  BY <1>2, <1>3, SumPick
<1> HIDE DEF U
<1> QED
  BY <1>2, <1>4, <1>5, <1>6

\* The order does not matter: any element may be taken first.
LEMMA SumTake ==
  ASSUME NEW f, NEW S, IsFiniteSet(S), \A x \in S : f[x] \in Int, NEW y \in S
  PROVE  Sum(f, S) = f[y] + Sum(f, S \ {y})
<1> DEFINE B == {T \in SUBSET S : \E x \in T : Sum(f, T) # f[x] + Sum(f, T \ {x})}
<1> SUFFICES ASSUME B # {} PROVE FALSE
  OBVIOUS
<1>1. PICK T \in B : \A U \in SUBSET T : U # T => U \notin B
  <2> HIDE DEF B
  <2>1. B \in SUBSET SUBSET S
    BY DEF B
  <2> QED
    BY <2>1, LeastSubset
<1>2. T \in SUBSET S /\ IsFiniteSet(T)
  BY <1>1, FS_Subset
<1>3. PICK x \in T : Sum(f, T) # f[x] + Sum(f, T \ {x})
  BY <1>1
<1> DEFINE p == Pick(T)
           rest == T \ {p, x}
<1>4. p \in T /\ Sum(f, T) = f[p] + Sum(f, T \ {p})
  BY <1>2, <1>3, PickIn, SumPick
<1>5. p # x
  BY <1>3, <1>4
<1>6. Sum(f, T \ {p}) = f[x] + Sum(f, rest)
  <2>1. T \ {p} \in SUBSET T /\ T \ {p} # T /\ x \in T \ {p}
    BY <1>4, <1>5
  <2>2. (T \ {p}) \ {x} = rest
    OBVIOUS
  <2>3. T \ {p} \notin B /\ T \ {p} \in SUBSET S
    BY <1>1, <1>2, <2>1
  <2> HIDE DEF p, rest
  <2> QED
    BY <2>1, <2>2, <2>3
<1>7. Sum(f, T \ {x}) = f[p] + Sum(f, rest)
  <2>1. T \ {x} \in SUBSET T /\ T \ {x} # T /\ p \in T \ {x}
    BY <1>3, <1>4, <1>5
  <2>2. (T \ {x}) \ {p} = rest
    OBVIOUS
  <2>3. T \ {x} \notin B /\ T \ {x} \in SUBSET S
    BY <1>1, <1>2, <2>1
  <2> HIDE DEF p, rest
  <2> QED
    BY <2>1, <2>2, <2>3
<1>8. f[p] \in Int /\ f[x] \in Int
  BY <1>2, <1>3, <1>4
<1>9. Sum(f, rest) \in Int
  <2>1. rest \subseteq S /\ IsFiniteSet(rest)
    BY <1>2, FS_Subset
  <2> HIDE DEF rest, B
  <2> QED
    BY <2>1, SumType
<1> HIDE DEF B, p, rest
<1> QED
  BY <1>3, <1>4, <1>6, <1>7, <1>8, <1>9

\* A new term adds itself.
LEMMA SumAdd ==
  ASSUME NEW f, NEW S, NEW y, IsFiniteSet(S), y \notin S,
         \A x \in S \cup {y} : f[x] \in Int
  PROVE  Sum(f, S \cup {y}) = Sum(f, S) + f[y] /\ Sum(f, S) \in Int
<1>1. IsFiniteSet(S \cup {y}) /\ (S \cup {y}) \ {y} = S
  BY FS_AddElement
<1>2. Sum(f, S \cup {y}) = f[y] + Sum(f, S)
  BY <1>1, SumTake
<1>3. Sum(f, S) \in Int /\ f[y] \in Int
  BY SumType
<1> QED
  BY <1>2, <1>3

\* Terms that are not negative have a sum that is not.
LEMMA SumNat ==
  ASSUME NEW f, NEW S, IsFiniteSet(S), \A x \in S : f[x] \in Nat
  PROVE  Sum(f, S) \in Nat
<1> DEFINE B == {T \in SUBSET S : Sum(f, T) \notin Nat}
<1> SUFFICES ASSUME B # {} PROVE FALSE
  OBVIOUS
<1>1. PICK T \in B : \A U \in SUBSET T : U # T => U \notin B
  <2> HIDE DEF B
  <2>1. B \in SUBSET SUBSET S
    BY DEF B
  <2> QED
    BY <2>1, LeastSubset
<1>2. T \in SUBSET S /\ IsFiniteSet(T) /\ Sum(f, T) \notin Nat
  BY <1>1, FS_Subset
<1>3. T # {}
  BY <1>2, SumEmpty
<1> DEFINE U == T \ {Pick(T)}
<1>4. U \in SUBSET T /\ U # T /\ Pick(T) \in S
  BY <1>2, <1>3, PickIn
<1>5. Sum(f, U) \in Nat
  BY <1>1, <1>2, <1>4
<1> HIDE DEF B
<1>6. Sum(f, T) = f[Pick(T)] + Sum(f, U)
  BY <1>2, <1>3, SumPick
<1> HIDE DEF U
<1> QED
  BY <1>2, <1>4, <1>5, <1>6

\* More terms that are not negative do not make a smaller sum.
LEMMA SumMore ==
  ASSUME NEW f, NEW S, NEW R, IsFiniteSet(S), R \subseteq S, \A x \in S : f[x] \in Nat
  PROVE  Sum(f, R) <= Sum(f, S)
<1> DEFINE B == {U \in SUBSET (S \ R) : ~(Sum(f, R) <= Sum(f, R \cup U))}
<1>1. \A T \in SUBSET S : IsFiniteSet(T) /\ Sum(f, T) \in Nat
  BY SumNat, FS_Subset
<1>2. SUFFICES B = {}
  <2>1. R \cup (S \ R) = S /\ S \ R \in SUBSET (S \ R)
    OBVIOUS
  <2> QED
    BY <1>2, <2>1
<1> SUFFICES ASSUME B # {} PROVE FALSE
  OBVIOUS
<1>3. PICK U \in B : \A V \in SUBSET U : V # U => V \notin B
  <2>1. B \in SUBSET SUBSET (S \ R) /\ IsFiniteSet(S \ R)
    BY FS_Subset
  <2> HIDE DEF B
  <2> QED
    BY <2>1, LeastSubset
<1>4. U \in SUBSET (S \ R) /\ ~(Sum(f, R) <= Sum(f, R \cup U))
  BY <1>3
<1>5. U # {}
  <2> SUFFICES ASSUME U = {} PROVE FALSE
    OBVIOUS
  <2>1. R \cup U = R
    OBVIOUS
  <2> QED
    BY <1>1, <1>4, <2>1
<1>6. PICK y \in U : TRUE
  BY <1>5
<1> DEFINE V == U \ {y}
<1>7. /\ V \in SUBSET U /\ V # U /\ V \in SUBSET (S \ R)
      /\ y \in R \cup U /\ (R \cup U) \ {y} = R \cup V /\ y \in S
      /\ R \cup U \in SUBSET S /\ R \cup V \in SUBSET S
  BY <1>4, <1>6
<1>8. Sum(f, R) <= Sum(f, R \cup V)
  BY <1>3, <1>7
<1> HIDE DEF B, V
<1>9. Sum(f, R \cup U) = f[y] + Sum(f, R \cup V)
  <2>1. IsFiniteSet(R \cup U) /\ \A x \in R \cup U : f[x] \in Int
    BY <1>1, <1>7
  <2> QED
    BY <1>7, <2>1, SumTake
<1>10. Sum(f, R) \in Nat /\ Sum(f, R \cup V) \in Nat /\ f[y] \in Nat
  BY <1>1, <1>7
<1> QED
  BY <1>4, <1>8, <1>9, <1>10

\* Changing one term changes the sum by as much.
LEMMA SumReplace ==
  ASSUME NEW f, NEW g, NEW S, NEW y \in S, IsFiniteSet(S),
         \A x \in S : f[x] \in Int /\ g[x] \in Int,
         \A x \in S \ {y} : g[x] = f[x]
  PROVE  Sum(g, S) = Sum(f, S) + (g[y] - f[y])
<1>1. /\ Sum(f, S) = f[y] + Sum(f, S \ {y})
      /\ Sum(g, S) = g[y] + Sum(g, S \ {y})
  BY SumTake
<1>2. IsFiniteSet(S \ {y})
  BY FS_Subset
<1>3. Sum(g, S \ {y}) = Sum(f, S \ {y})
  BY <1>2, SumSame
<1>4. Sum(f, S \ {y}) \in Int /\ f[y] \in Int /\ g[y] \in Int
  BY <1>2, SumType
<1> QED
  BY <1>1, <1>3, <1>4

\* Nothing adds up to nothing.
LEMMA SumZero ==
  ASSUME NEW f, NEW S, IsFiniteSet(S), \A x \in S : f[x] = 0
  PROVE  Sum(f, S) = 0
<1> DEFINE B == {T \in SUBSET S : Sum(f, T) # 0}
<1> SUFFICES ASSUME B # {} PROVE FALSE
  OBVIOUS
<1>1. PICK T \in B : \A U \in SUBSET T : U # T => U \notin B
  <2> HIDE DEF B
  <2>1. B \in SUBSET SUBSET S
    BY DEF B
  <2> QED
    BY <2>1, LeastSubset
<1>2. T \in SUBSET S /\ IsFiniteSet(T) /\ Sum(f, T) # 0
  BY <1>1, FS_Subset
<1>3. T # {}
  BY <1>2, SumEmpty
<1> DEFINE U == T \ {Pick(T)}
<1>4. U \in SUBSET T /\ U # T /\ Pick(T) \in S
  BY <1>2, <1>3, PickIn
<1>5. Sum(f, U) = 0
  BY <1>1, <1>2, <1>4
<1> HIDE DEF B
<1>6. Sum(f, T) = f[Pick(T)] + Sum(f, U)
  BY <1>2, <1>3, SumPick
<1> HIDE DEF U
<1> QED
  BY <1>2, <1>4, <1>5, <1>6

\* Two sets without a common element add up.
LEMMA SumUnion ==
  ASSUME NEW f, NEW S, NEW R, IsFiniteSet(S), IsFiniteSet(R), S \cap R = {},
         \A x \in S \cup R : f[x] \in Int
  PROVE  Sum(f, S \cup R) = Sum(f, S) + Sum(f, R)
<1> DEFINE B == {U \in SUBSET R : Sum(f, S \cup U) # Sum(f, S) + Sum(f, U)}
<1> SUFFICES ASSUME B # {} PROVE FALSE
  OBVIOUS
<1>1. PICK U \in B : \A V \in SUBSET U : V # U => V \notin B
  <2>1. B \in SUBSET SUBSET R
    OBVIOUS
  <2> HIDE DEF B
  <2> QED
    BY <2>1, LeastSubset
<1>2. U \in SUBSET R /\ IsFiniteSet(U) /\ Sum(f, S \cup U) # Sum(f, S) + Sum(f, U)
  BY <1>1, FS_Subset
<1>3. Sum(f, S) \in Int /\ S \cup {} = S
  BY SumType
<1>4. U # {}
  BY <1>2, <1>3, SumEmpty
<1>5. PICK y \in U : TRUE
  BY <1>4
<1> DEFINE V == U \ {y}
<1>6. /\ V \in SUBSET U /\ V # U /\ V \in SUBSET R /\ V \cup {y} = U
      /\ (S \cup V) \cup {y} = S \cup U /\ y \notin S \cup V /\ y \notin V
  BY <1>2, <1>5
<1>7. Sum(f, S \cup V) = Sum(f, S) + Sum(f, V)
  BY <1>1, <1>6
<1>8. IsFiniteSet(V) /\ IsFiniteSet(S \cup V)
  BY <1>2, <1>6, FS_Subset, FS_Union
<1>9. /\ \A x \in V \cup {y} : f[x] \in Int
      /\ \A x \in (S \cup V) \cup {y} : f[x] \in Int
  BY <1>2, <1>6
<1> HIDE DEF B, V
<1>10. Sum(f, U) = Sum(f, V) + f[y] /\ Sum(f, V) \in Int
  BY <1>6, <1>8, <1>9, SumAdd
<1>11. Sum(f, S \cup U) = Sum(f, S \cup V) + f[y]
  BY <1>6, <1>8, <1>9, SumAdd
<1>12. f[y] \in Int
  BY <1>9
<1> QED
  BY <1>2, <1>3, <1>7, <1>10, <1>11, <1>12

\* The sum of sums.
LEMMA SumPlus ==
  ASSUME NEW f, NEW g, NEW S, IsFiniteSet(S), \A x \in S : f[x] \in Int /\ g[x] \in Int,
         NEW h, \A x \in S : h[x] = f[x] + g[x]
  PROVE  Sum(h, S) = Sum(f, S) + Sum(g, S)
<1> DEFINE B == {T \in SUBSET S : Sum(h, T) # Sum(f, T) + Sum(g, T)}
<1> SUFFICES ASSUME B # {} PROVE FALSE
  OBVIOUS
<1>1. PICK T \in B : \A U \in SUBSET T : U # T => U \notin B
  <2> HIDE DEF B
  <2>1. B \in SUBSET SUBSET S
    BY DEF B
  <2> QED
    BY <2>1, LeastSubset
<1>2. T \in SUBSET S /\ IsFiniteSet(T) /\ Sum(h, T) # Sum(f, T) + Sum(g, T)
  BY <1>1, FS_Subset
<1>3. T # {}
  BY <1>2, SumEmpty
<1> DEFINE y == Pick(T)
           U == T \ {y}
<1>4. U \in SUBSET T /\ U # T /\ y \in S
  BY <1>2, <1>3, PickIn
<1>5. Sum(h, U) = Sum(f, U) + Sum(g, U)
  BY <1>1, <1>2, <1>4
<1> HIDE DEF B
<1>6. /\ Sum(h, T) = h[y] + Sum(h, U) /\ Sum(f, T) = f[y] + Sum(f, U)
      /\ Sum(g, T) = g[y] + Sum(g, U)
  BY <1>2, <1>3, SumPick
<1>7. Sum(f, U) \in Int /\ Sum(g, U) \in Int
  BY <1>2, <1>4, FS_Subset, SumType
<1> HIDE DEF y, U
<1> QED
  BY <1>2, <1>4, <1>5, <1>6, <1>7

\* The sum of multiples.
LEMMA SumScale ==
  ASSUME NEW f, NEW S, IsFiniteSet(S), \A x \in S : f[x] \in Int, NEW m \in Int,
         NEW h, \A x \in S : h[x] = f[x] * m
  PROVE  Sum(h, S) = Sum(f, S) * m
<1> DEFINE B == {T \in SUBSET S : Sum(h, T) # Sum(f, T) * m}
<1> SUFFICES ASSUME B # {} PROVE FALSE
  OBVIOUS
<1>1. PICK T \in B : \A U \in SUBSET T : U # T => U \notin B
  <2> HIDE DEF B
  <2>1. B \in SUBSET SUBSET S
    BY DEF B
  <2> QED
    BY <2>1, LeastSubset
<1>2. T \in SUBSET S /\ IsFiniteSet(T) /\ Sum(h, T) # Sum(f, T) * m
  BY <1>1, FS_Subset
<1>3. T # {}
  BY <1>2, SumEmpty
<1> DEFINE y == Pick(T)
           U == T \ {y}
<1>4. U \in SUBSET T /\ U # T /\ y \in S
  BY <1>2, <1>3, PickIn
<1>5. Sum(h, U) = Sum(f, U) * m
  BY <1>1, <1>2, <1>4
<1> HIDE DEF B
<1>6. Sum(h, T) = h[y] + Sum(h, U) /\ Sum(f, T) = f[y] + Sum(f, U)
  BY <1>2, <1>3, SumPick
<1>7. Sum(f, U) \in Int /\ f[y] \in Int
  BY <1>2, <1>4, FS_Subset, SumType
<1> HIDE DEF y, U
<1>8. (f[y] + Sum(f, U)) * m = f[y] * m + Sum(f, U) * m
  BY <1>7
<1> QED
  BY <1>2, <1>4, <1>5, <1>6, <1>8

\* What is nowhere more is not more in all.
LEMMA SumAtMost ==
  ASSUME NEW f, NEW g, NEW S, IsFiniteSet(S),
         \A x \in S : f[x] \in Int /\ g[x] \in Int /\ f[x] <= g[x]
  PROVE  Sum(f, S) <= Sum(g, S)
<1> DEFINE B == {T \in SUBSET S : ~(Sum(f, T) <= Sum(g, T))}
<1> SUFFICES ASSUME B # {} PROVE FALSE
  OBVIOUS
<1>1. PICK T \in B : \A U \in SUBSET T : U # T => U \notin B
  <2> HIDE DEF B
  <2>1. B \in SUBSET SUBSET S
    BY DEF B
  <2> QED
    BY <2>1, LeastSubset
<1>2. T \in SUBSET S /\ IsFiniteSet(T) /\ ~(Sum(f, T) <= Sum(g, T))
  BY <1>1, FS_Subset
<1>3. T # {}
  BY <1>2, SumEmpty
<1> DEFINE y == Pick(T)
           U == T \ {y}
<1>4. U \in SUBSET T /\ U # T /\ y \in S
  BY <1>2, <1>3, PickIn
<1>5. Sum(f, U) <= Sum(g, U)
  BY <1>1, <1>2, <1>4
<1> HIDE DEF B
<1>6. Sum(f, T) = f[y] + Sum(f, U) /\ Sum(g, T) = g[y] + Sum(g, U)
  BY <1>2, <1>3, SumPick
<1>7. Sum(f, U) \in Int /\ Sum(g, U) \in Int
  BY <1>2, <1>4, FS_Subset, SumType
<1> HIDE DEF y, U
<1> QED
  BY <1>2, <1>4, <1>5, <1>6, <1>7

\* A sum of ones counts them.
LEMMA SumCount ==
  ASSUME NEW f, NEW S, IsFiniteSet(S), \A x \in S : f[x] \in {0, 1}
  PROVE  Sum(f, S) = Cardinality({x \in S : f[x] = 1})
<1> DEFINE B == {T \in SUBSET S : Sum(f, T) # Cardinality({x \in T : f[x] = 1})}
<1> SUFFICES ASSUME B # {} PROVE FALSE
  OBVIOUS
<1>1. PICK T \in B : \A U \in SUBSET T : U # T => U \notin B
  <2> HIDE DEF B
  <2>1. B \in SUBSET SUBSET S
    BY DEF B
  <2> QED
    BY <2>1, LeastSubset
<1>2. /\ T \in SUBSET S /\ IsFiniteSet(T)
      /\ Sum(f, T) # Cardinality({x \in T : f[x] = 1})
  BY <1>1, FS_Subset
<1>3. T # {}
  <2>1. {x \in {} : f[x] = 1} = {} /\ Cardinality({}) = 0
    BY FS_EmptySet
  <2> QED
    BY <1>2, <2>1, SumEmpty
<1> DEFINE y == Pick(T)
           U == T \ {y}
           ones == {x \in U : f[x] = 1}
<1>4. U \in SUBSET T /\ U # T /\ y \in T /\ y \in S /\ f[y] \in {0, 1}
  BY <1>2, <1>3, PickIn
<1>5. Sum(f, U) = Cardinality(ones)
  BY <1>1, <1>2, <1>4
<1> HIDE DEF B
<1>6. Sum(f, T) = f[y] + Sum(f, U)
  BY <1>2, <1>3, SumPick
<1>7. IsFiniteSet(ones)
  BY <1>2, FS_Subset
<1>8. y \notin ones /\ Cardinality(ones) \in Nat
  BY <1>7, FS_CardinalityType
<1>9. CASE f[y] = 1
  <2>1. {x \in T : f[x] = 1} = ones \cup {y}
    BY <1>4, <1>9
  <2>2. Cardinality(ones \cup {y}) = Cardinality(ones) + 1
    BY <1>7, <1>8, FS_AddElement
  <2> QED
    BY <1>2, <1>5, <1>6, <1>8, <1>9, <2>1, <2>2
<1>10. CASE f[y] = 0
  <2>1. {x \in T : f[x] = 1} = ones
    BY <1>4, <1>10
  <2>2. Sum(f, T) = Cardinality(ones)
    BY <1>5, <1>6, <1>8, <1>10
  <2> QED
    BY <1>2, <2>1, <2>2, Zenon
<1> QED
  BY <1>4, <1>9, <1>10

-----------------------------------------------------------------------------
(* Ranks in an order                                                       *)

\* Of a finite set in a strict linear order, before[c] being what precedes
\* c, exactly m have less than m before them.
LEMMA Ranks ==
  ASSUME NEW S, IsFiniteSet(S), NEW before \in [S -> SUBSET S],
         \A c \in S : c \notin before[c],
         \A c, d \in S : d \in before[c] => before[d] \subseteq before[c],
         \A c, d \in S : c # d => c \in before[d] \/ d \in before[c],
         NEW m \in 0..Cardinality(S)
  PROVE  Cardinality({c \in S : Cardinality(before[c]) < m}) = m
<1> DEFINE n == Cardinality(S)
           rank == [c \in S |-> Cardinality(before[c])]
           least == {c \in S : rank[c] < m}
           low == [c \in least |-> rank[c]]
<1>1. n \in Nat
  BY FS_CardinalityType
<1>2. ASSUME NEW c \in S
      PROVE  IsFiniteSet(before[c]) /\ Cardinality(before[c]) \in 0..(n - 1)
  <2>1. before[c] \in SUBSET S /\ S # before[c]
    BY <1>2
  <2>2. IsFiniteSet(before[c]) /\ Cardinality(before[c]) <= n /\ Cardinality(before[c]) # n
    BY <2>1, FS_Subset
  <2>3. Cardinality(before[c]) \in Nat
    BY <2>2, FS_CardinalityType
  <2> QED
    BY <1>1, <2>2, <2>3
<1>3. ASSUME NEW c \in S, NEW d \in S, d \in before[c]
      PROVE  Cardinality(before[d]) # Cardinality(before[c])
  <2>1. before[d] \in SUBSET before[c] /\ before[c] # before[d]
    BY <1>3
  <2> QED
    BY <1>2, <2>1, FS_Subset
<1>4. rank \in Injection(S, 0..(n - 1))
  <2>1. rank \in [S -> 0..(n - 1)]
    BY <1>2
  <2>2. ASSUME NEW c \in S, NEW d \in S, rank[c] = rank[d]
        PROVE  c = d
    BY <1>3, <2>2
  <2> HIDE DEF rank
  <2> QED
    BY <2>1, <2>2 DEF Injection, IsInjective
<1>5. IsFiniteSet(0..(n - 1)) /\ Cardinality(0..(n - 1)) = n
  <2> HIDE DEF n
  <2>1. n - 1 \in Int /\ (0 > n - 1 <=> n = 0) /\ (n - 1) - 0 + 1 = n
    BY <1>1
  <2>2. /\ IsFiniteSet(0..(n - 1))
        /\ Cardinality(0..(n - 1)) = IF 0 > n - 1 THEN 0 ELSE (n - 1) - 0 + 1
    BY <2>1, FS_Interval
  <2> QED
    BY <2>1, <2>2
<1>6. rank \in Surjection(S, 0..(n - 1))
  <2> HIDE DEF rank
  <2> QED
    BY <1>4, <1>5, FS_Injection
<1>7. IsFiniteSet(least)
  BY FS_Subset
<1>8. low \in Bijection(least, 0..(m - 1))
  <2>1. low \in [least -> 0..(m - 1)]
    BY <1>1, <1>2
  <2>2. ASSUME NEW c \in least, NEW d \in least, low[c] = low[d]
        PROVE  c = d
    <3>1. rank[c] = rank[d] /\ c \in S /\ d \in S
      BY <2>2
    <3> HIDE DEF rank
    <3> QED
      BY <1>4, <3>1 DEF Injection, IsInjective
  <2>3. ASSUME NEW i \in 0..(m - 1)
        PROVE  \E c \in least : low[c] = i
    <3>1. i \in 0..(n - 1) /\ i < m
      BY <1>1
    <3>2. PICK c \in S : rank[c] = i
      <4> HIDE DEF rank
      <4> QED
        BY <1>6, <3>1 DEF Surjection
    <3> QED
      BY <3>1, <3>2
  <2> HIDE DEF low
  <2> QED
    BY <2>1, <2>2, <2>3 DEF Bijection, Injection, IsInjective, Surjection
<1>9. Cardinality(0..(m - 1)) = m
  BY <1>1, FS_Interval
<1>10. Cardinality(least) = m
  <2> HIDE DEF least, low
  <2>1. ExistsBijection(least, 0..(m - 1))
    BY <1>8 DEF ExistsBijection
  <2> QED
    BY <1>7, <1>9, <2>1, FS_Bijection
<1>11. {c \in S : Cardinality(before[c]) < m} = least
  OBVIOUS
<1> QED
  BY <1>10, <1>11

-----------------------------------------------------------------------------
(* Least and greatest numbers                                              *)

\* A set of naturals that is not empty has a least element.
LEMMA LeastNatural ==
  ASSUME NEW S, S \subseteq Nat, S # {}
  PROVE  \E n \in S : \A m \in S : n <= m
<1>1. PICK n \in S : \A m \in S : <<m, n>> \notin OpToRel(<, Nat)
  BY NatLessThanWellFounded, WFMin
<1>2. \A m \in S : ~(m < n)
  BY <1>1 DEF OpToRel
<1> QED
  BY <1>2

\* One that is bounded has a greatest.
LEMMA GreatestNatural ==
  ASSUME NEW b \in Nat, NEW S, S \subseteq 0..b, S # {}
  PROVE  \E n \in S : \A m \in S : m <= n
<1> DEFINE T == {k \in Nat : b - k \in S}
<1>1. T # {}
  <2>1. PICK n \in S : n \in 0..b
    OBVIOUS
  <2>2. b - n \in Nat /\ b - (b - n) = n
    BY <2>1
  <2> QED
    BY <2>1, <2>2
<1>2. PICK k \in T : \A l \in T : k <= l
  BY <1>1, LeastNatural
<1>3. b - k \in S /\ k \in Nat
  BY <1>2
<1>4. ASSUME NEW m \in S PROVE m <= b - k
  <2>1. b - m \in T
    BY <1>4
  <2> QED
    BY <1>2, <1>3, <1>4, <2>1
<1> QED
  BY <1>3, <1>4

=============================================================================
