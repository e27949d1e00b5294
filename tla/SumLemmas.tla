------------------------------ MODULE SumLemmas ------------------------------
(***************************************************************************)
(* What SumFunction of the module Functions computes.  It folds a finite   *)
(* domain recursively; that the recursion has a solution, and how large it *)
(* is, follows by induction on the size of the sets it visits: each time   *)
(* there would be a least counterexample.                                  *)
(***************************************************************************)
EXTENDS Functions, FiniteSetTheorems, TLAPS

(* A nonempty set of numbers has a least one.                              *)
LEMMA LeastNatural ==
    ASSUME NEW S \in SUBSET Nat, S # {}
    PROVE  \E i \in S : \A j \in S : i <= j
<1> DEFINE T == {1..i : i \in S}
<1>1. T \subseteq FiniteSubsetsOf(Nat) /\ T # {}
  <2>1. ASSUME NEW i \in S
        PROVE  1..i \in SUBSET Nat /\ IsFiniteSet(1..i)
    BY FS_Interval
  <2> QED
    BY <2>1 DEF FiniteSubsetsOf
<1>2. PICK X \in T : \A Y \in T : ~ (<<Y, X>> \in StrictSubsetOrdering(Nat))
  <2> HIDE DEF T
  <2> QED
    BY <1>1, FS_StrictSubsetOrderingWellFounded, WFMin
<1>3. PICK i \in S : X = 1..i
  OBVIOUS
<1>4. ASSUME NEW j \in S, j < i
      PROVE  FALSE
  <2>1. 1..j \in T /\ 1..j \subseteq X /\ i \in X /\ i \notin 1..j
    BY <1>3, <1>4
  <2>2. <<1..j, X>> \in StrictSubsetOrdering(Nat)
    BY <1>3, <2>1 DEF StrictSubsetOrdering
  <2> QED
    BY <1>2, <2>1, <2>2
<1> QED
  BY <1>4

-----------------------------------------------------------------------------
(* One step of the fold, and what it computes with it.                     *)
Pick(s) == CHOOSE x \in s : TRUE
SumStep(f, it, s) == IF s = {} THEN 0 ELSE f[Pick(s)] + it[s \ {Pick(s)}]
Solves(f, it, D) == it = [s \in D |-> SumStep(f, it, s)]

(* The sets a fold of S visits, up to a size.                              *)
Visited(S, n) == {s \in SUBSET S : Cardinality(s) <= n}

(* A set that is not empty is one larger than what is left after a pick.   *)
LEMMA PickShrinks ==
    ASSUME NEW S, IsFiniteSet(S), NEW s \in SUBSET S, s # {}
    PROVE  /\ Pick(s) \in s /\ s \ {Pick(s)} \in SUBSET S
           /\ Cardinality(s) \in Nat /\ Cardinality(s \ {Pick(s)}) \in Nat
           /\ Cardinality(s) = Cardinality(s \ {Pick(s)}) + 1
<1>1. IsFiniteSet(s) /\ Pick(s) \in s
  BY FS_Subset DEF Pick
<1>2. /\ Cardinality(s) \in Nat /\ IsFiniteSet(s \ {Pick(s)})
      /\ Cardinality(s \ {Pick(s)}) = Cardinality(s) - 1
  BY <1>1, FS_CardinalityType, FS_RemoveElement
<1> HIDE DEF Pick
<1> QED
  BY <1>1, <1>2, FS_CardinalityType

(* The recursion has a solution on the sets of any size.                   *)
LEMMA SolvesEverySize ==
    ASSUME NEW f, NEW S, IsFiniteSet(S), NEW k \in Nat
    PROVE  \E it : Solves(f, it, Visited(S, k))
<1> DEFINE Missing == {n \in Nat : ~ \E it : Solves(f, it, Visited(S, n))}
<1> SUFFICES ASSUME Missing # {}
             PROVE  FALSE
  OBVIOUS
<1>1. PICK n \in Missing : \A m \in Missing : n <= m
  BY LeastNatural
<1>2. CASE n = 0
  <2>1. \A s \in Visited(S, 0) : s = {}
    BY FS_Subset, FS_EmptySet, FS_CardinalityType DEF Visited
  <2>2. Solves(f, [s \in Visited(S, 0) |-> 0], Visited(S, 0))
    BY <2>1 DEF Solves, SumStep
  <2> QED
    BY <1>1, <1>2, <2>2
<1>3. CASE n # 0
  <2>1. n - 1 \in Nat /\ n - 1 \notin Missing
    BY <1>1, <1>3
  <2>2. PICK it : Solves(f, it, Visited(S, n - 1))
    BY <2>1
  <2> DEFINE next == [s \in Visited(S, n) |-> SumStep(f, it, s)]
  <2>3. ASSUME NEW s \in Visited(S, n), s # {}
        PROVE  next[s \ {Pick(s)}] = it[s \ {Pick(s)}]
    <3>1. s \ {Pick(s)} \in Visited(S, n - 1) /\ s \ {Pick(s)} \in Visited(S, n)
      <4>1. s \in SUBSET S /\ Cardinality(s) <= n
        BY DEF Visited
      <4> HIDE DEF Pick
      <4> QED
        BY <1>1, <2>3, <4>1, PickShrinks DEF Visited
    <3> QED
      BY <2>2, <3>1 DEF Solves
  <2>4. Solves(f, next, Visited(S, n))
    BY <2>3 DEF Solves, SumStep
  <2> QED
    BY <1>1, <2>4
<1> QED
  BY <1>2, <1>3

(* So the sum over a finite set is given by a solution of the recursion.   *)
LEMMA SumIsFold ==
    ASSUME NEW f, IsFiniteSet(DOMAIN f)
    PROVE  \E it : /\ Solves(f, it, SUBSET DOMAIN f)
                   /\ SumFunction(f) = it[DOMAIN f]
<1> DEFINE S == DOMAIN f
           chosen == CHOOSE it : it = [s \in SUBSET S |->
                       IF s = {} THEN 0
                       ELSE f[CHOOSE x \in s : TRUE] + it[s \ {CHOOSE x \in s : TRUE}]]
<1>1. SumFunction(f) = chosen[S]
  BY DEF SumFunction, SumFunctionOnSet, FoldFunctionOnSet, MapThenFoldSet
<1>2. Cardinality(S) \in Nat /\ SUBSET S = Visited(S, Cardinality(S))
  BY FS_Subset, FS_CardinalityType DEF Visited
<1>3. \E it : Solves(f, it, SUBSET S)
  <2>1. IsFiniteSet(S)
    OBVIOUS
  <2> HIDE DEF S
  <2>2. \E it : Solves(f, it, Visited(S, Cardinality(S)))
    BY <1>2, <2>1, SolvesEverySize
  <2> QED
    BY <1>2, <2>2
<1>4. Solves(f, chosen, SUBSET S)
  BY <1>3 DEF Solves, SumStep, Pick
<1> QED
  BY <1>1, <1>4

(* A sum of numbers that are at most m is a number, and at most m times    *)
(* how many there are.                                                     *)
LEMMA SumIsBounded ==
    ASSUME NEW f, IsFiniteSet(DOMAIN f), NEW m \in Nat,
           \A x \in DOMAIN f : f[x] \in 0..m
    PROVE  SumFunction(f) \in 0..(Cardinality(DOMAIN f) * m)
<1> DEFINE S == DOMAIN f
<1>1. PICK it : Solves(f, it, SUBSET S) /\ SumFunction(f) = it[S]
  BY SumIsFold
<1> DEFINE Large(n) == \E s \in SUBSET S : Cardinality(s) = n /\ it[s] \notin 0..(n * m)
           Wrong == {n \in Nat : Large(n)}
<1>2. Wrong = {}
  <2> SUFFICES ASSUME Wrong # {}
               PROVE  FALSE
    OBVIOUS
  <2>1. PICK n \in Wrong : \A k \in Wrong : n <= k
    BY LeastNatural
  <2>2. PICK s \in SUBSET S : Cardinality(s) = n /\ it[s] \notin 0..(n * m)
    OBVIOUS
  <2>3. it[s] = SumStep(f, it, s)
    BY <1>1 DEF Solves
  <2>4. CASE s = {}
    BY <2>2, <2>3, <2>4 DEF SumStep
  <2>5. CASE s # {}
    <3> DEFINE x == Pick(s)
               t == s \ {x}
    <3>1. /\ x \in S /\ t \in SUBSET S
          /\ Cardinality(t) \in Nat /\ n = Cardinality(t) + 1
      BY <2>2, <2>5, PickShrinks
    <3>2. it[s] = f[x] + it[t]
      BY <2>3, <2>5 DEF SumStep
    <3> HIDE DEF x, t
    <3>3. Cardinality(t) \notin Wrong
      BY <2>1, <3>1
    <3>4. it[t] \in 0..(Cardinality(t) * m) /\ f[x] \in 0..m
      BY <3>1, <3>3
    <3>5. n * m = Cardinality(t) * m + m
      BY <3>1
    <3>6. Cardinality(t) * m \in Nat
      BY <3>1
    <3> QED
      BY <2>2, <3>2, <3>4, <3>5, <3>6
  <2> QED
    BY <2>4, <2>5
<1>3. Cardinality(S) \in Nat
  BY FS_CardinalityType
<1> QED
  BY <1>1, <1>2, <1>3
=============================================================================
