------------------------------ MODULE FiniteSums ------------------------------
(***************************************************************************)
(* What the proofs need of numbers added up over a finite set. The         *)
(* theorems of the library that do induction take a predicate as a         *)
(* parameter; here the induction is over a set, the counterexamples, of    *)
(* which there would be a smallest.                                        *)
(***************************************************************************)
EXTENDS Integers, Functions, FiniteSetTheorems, WellFoundedInduction, TLAPS

(* Induction without a predicate as a parameter: the smallest element of a *)
(* set of numbers, and of a set of subsets of a finite set.                *)
LEMMA LeastNatural ==
  ASSUME NEW T \in SUBSET Nat, T # {}
  PROVE  \E x \in T : \A y \in T : x <= y
<1> DEFINE R == {p \in Nat \X Nat : p[1] < p[2]}
<1>1. IsWellFoundedOn(R, Nat)
  BY NatLessThanWellFounded DEF OpToRel
<1>2. PICK x \in T : \A y \in T : ~(<<y, x>> \in R)
  BY <1>1, WFMin
<1>3. \A i, j \in Nat : <<i, j>> \in R <=> i < j
  OBVIOUS
<1> HIDE DEF R
<1>4. ASSUME NEW y \in T PROVE x <= y
  <2>1. ~(y < x)
    BY <1>2, <1>3
  <2>2. x \in Nat /\ y \in Nat
    OBVIOUS
  <2>3. QED
    BY <2>1, <2>2
<1>5. QED
  BY <1>4

(* Of sets there is one with the fewest elements, by the numbers of their  *)
(* elements.                                                               *)
LEMMA SmallestSet ==
  ASSUME NEW S, IsFiniteSet(S), NEW B \in SUBSET (SUBSET S), B # {}
  PROVE  \E s \in B : \A t \in B : Cardinality(s) <= Cardinality(t)
<1> DEFINE T == {Cardinality(s) : s \in B}
<1>1. T \in SUBSET Nat
  BY FS_Subset, FS_CardinalityType
<1>2. T # {}
  OBVIOUS
<1>3. PICK k \in T : \A l \in T : k <= l
  <2> HIDE DEF T
  <2>1. QED
    BY <1>1, <1>2, LeastNatural
<1>4. QED
  BY <1>3

(* What FoldFunction takes out of a set first.                             *)
Pick(s) == CHOOSE x \in s : TRUE

(* What is left is a smaller subset of the same set.                       *)
LEMMA PickSmaller ==
  ASSUME NEW S, IsFiniteSet(S), NEW s \in SUBSET S, s # {}
  PROVE  /\ Pick(s) \in s
         /\ s \ {Pick(s)} \in SUBSET S
         /\ Cardinality(s \ {Pick(s)}) = Cardinality(s) - 1
         /\ Cardinality(s) \in Nat \ {0}
<1>1. Pick(s) \in s
  BY DEF Pick
<1>2. IsFiniteSet(s) /\ Cardinality(s) \in Nat
  BY FS_Subset, FS_CardinalityType
<1>3. Cardinality(s) # 0
  BY <1>2, FS_EmptySet
<1>4. QED
  BY <1>1, <1>2, <1>3, FS_RemoveElement

(* The numbers of f, added up.                                             *)
Total(f) == FoldFunction(LAMBDA x, y : x + y, 0, f)

(* g[s] is the total over s: the equation by which FoldFunction defines it.*)
Adds(f, g, D) ==
    g = [s \in D |-> IF s = {} THEN 0 ELSE f[Pick(s)] + g[s \ {Pick(s)}]]

Partial(f, S) == CHOOSE g : Adds(f, g, SUBSET S)

(* The total is that function's value for the whole domain.                *)
LEMMA TotalIsPartial ==
  ASSUME NEW f
  PROVE  Total(f) = Partial(f, DOMAIN f)[DOMAIN f]
  BY DEF Total, FoldFunction, FoldFunctionOnSet, MapThenFoldSet, Partial, Adds, Pick

(* There is a function with that equation, one cardinality after another.  *)
LEMMA PartialExists ==
  ASSUME NEW S, IsFiniteSet(S), NEW f
  PROVE  Adds(f, Partial(f, S), SUBSET S)
<1> DEFINE Level(k) == {s \in SUBSET S : Cardinality(s) <= k}
           Bad == {k \in Nat : ~ \E g : Adds(f, g, Level(k))}
<1>1. \A s \in SUBSET S : IsFiniteSet(s) /\ Cardinality(s) \in Nat
                           /\ (Cardinality(s) = 0 <=> s = {})
  BY FS_Subset, FS_CardinalityType, FS_EmptySet
<1>2. ASSUME NEW k \in Bad, \A l \in Bad : k <= l
      PROVE  FALSE
  <2>1. CASE k = 0
    <3> DEFINE g == [s \in Level(0) |-> 0]
    <3>1. \A s \in Level(0) : s = {}
      BY <1>1
    <3>2. Adds(f, g, Level(0))
      BY <3>1 DEF Adds
    <3>3. QED
      BY <2>1, <3>2
  <2>2. CASE k # 0
    <3>1. k \in Nat /\ k - 1 \in Nat /\ k - 1 \notin Bad
      <4>1. k \in Nat
        OBVIOUS
      <4> HIDE DEF Bad
      <4>2. QED
        BY <1>2, <2>2, <4>1
    <3>2. PICK g : Adds(f, g, Level(k - 1))
      BY <3>1
    <3> DEFINE h == [s \in Level(k) |->
                      IF s = {} THEN 0 ELSE f[Pick(s)] + g[s \ {Pick(s)}]]
    <3>3. ASSUME NEW s \in Level(k - 1)
          PROVE  s \in Level(k) /\ h[s] = g[s]
      <4>1. s \in Level(k)
        BY <1>1, <3>1
      <4>2. g[s] = IF s = {} THEN 0 ELSE f[Pick(s)] + g[s \ {Pick(s)}]
        <5> HIDE DEF Level
        <5>1. QED
          BY <3>2 DEF Adds
      <4>3. QED
        BY <4>1, <4>2
    <3>4. ASSUME NEW s \in Level(k), s # {}
          PROVE  s \ {Pick(s)} \in Level(k - 1)
      BY <1>1, <3>1, <3>4, PickSmaller
    <3>5. ASSUME NEW s \in Level(k)
          PROVE  h[s] = IF s = {} THEN 0 ELSE f[Pick(s)] + h[s \ {Pick(s)}]
      <4> HIDE DEF Level
      <4>1. QED
        BY <3>3, <3>4
    <3>6. Adds(f, h, Level(k))
      <4> HIDE DEF Level
      <4>1. h = [s \in Level(k) |-> h[s]]
        OBVIOUS
      <4> HIDE DEF h
      <4>2. QED
        BY <3>5, <4>1 DEF Adds
    <3>7. QED
      BY <3>6
  <2>3. QED
    BY <2>1, <2>2
<1>3. Bad = {}
  <2> HIDE DEF Bad
  <2>1. Bad \in SUBSET Nat
    BY DEF Bad
  <2>2. QED
    BY <1>2, <2>1, LeastNatural
<1>4. Level(Cardinality(S)) = SUBSET S /\ Cardinality(S) \in Nat
  BY <1>1, FS_Subset, FS_CardinalityType
<1>5. \E g : Adds(f, g, SUBSET S)
  BY <1>3, <1>4
<1>6. QED
  BY <1>5 DEF Partial

(* Natural numbers add up to one.                                          *)
LEMMA TotalNatural ==
  ASSUME NEW S, IsFiniteSet(S), NEW f \in [S -> Nat]
  PROVE  Total(f) \in Nat
<1> DEFINE g == Partial(f, S)
           Bad == {s \in SUBSET S : g[s] \notin Nat}
<1>1. Adds(f, g, SUBSET S)
  BY PartialExists
<1> HIDE DEF g
<1>2. \A s \in SUBSET S :
         g[s] = IF s = {} THEN 0 ELSE f[Pick(s)] + g[s \ {Pick(s)}]
  BY <1>1 DEF Adds
<1>3. ASSUME NEW s \in Bad, \A t \in Bad : Cardinality(s) <= Cardinality(t)
      PROVE  FALSE
  <2>0. s \in SUBSET S /\ g[s] \notin Nat
    OBVIOUS
  <2> HIDE DEF Bad
  <2>1. s # {}
    BY <1>2, <2>0
  <2>2. s \ {Pick(s)} \notin Bad
    BY <1>3, <2>0, <2>1, PickSmaller
  <2>3. g[s \ {Pick(s)}] \in Nat /\ f[Pick(s)] \in Nat
    BY <2>0, <2>1, <2>2, PickSmaller DEF Bad
  <2>4. QED
    BY <1>2, <2>0, <2>1, <2>3
<1>4. Bad = {}
  <2>1. Bad \in SUBSET (SUBSET S)
    OBVIOUS
  <2> HIDE DEF Bad
  <2>2. QED
    BY <1>3, <2>1, SmallestSet
<1>5. g[S] \in Nat
  BY <1>4
<1>6. QED
  BY <1>5, TotalIsPartial DEF g

(* One number changes, and the total by as much.                           *)
LEMMA TotalChanges ==
  ASSUME NEW S, IsFiniteSet(S), NEW f \in [S -> Nat], NEW a \in S, NEW n \in Nat
  PROVE  Total([f EXCEPT ![a] = n]) = Total(f) - f[a] + n
<1> DEFINE e == [f EXCEPT ![a] = n]
           g == Partial(f, S)
           h == Partial(e, S)
           Off(s) == IF a \in s THEN n - f[a] ELSE 0
           Bad == {s \in SUBSET S : ~(g[s] \in Int /\ h[s] = g[s] + Off(s))}
<1>1. e \in [S -> Nat] /\ e[a] = n /\ \A x \in S \ {a} : e[x] = f[x]
  OBVIOUS
<1>2. Adds(f, g, SUBSET S) /\ Adds(e, h, SUBSET S)
  BY PartialExists
<1>3. Total(f) = g[S] /\ Total(e) = h[S]
  BY <1>1, TotalIsPartial
<1> HIDE DEF g, h, e
<1>4. ASSUME NEW s \in SUBSET S
      PROVE  /\ g[s] = IF s = {} THEN 0 ELSE f[Pick(s)] + g[s \ {Pick(s)}]
             /\ h[s] = IF s = {} THEN 0 ELSE e[Pick(s)] + h[s \ {Pick(s)}]
  BY <1>2 DEF Adds
<1>5. ASSUME NEW s \in Bad, \A t \in Bad : Cardinality(s) <= Cardinality(t)
      PROVE  FALSE
  <2>1. s \in SUBSET S /\ s # {}
    BY <1>4
  <2>2. s \ {Pick(s)} \notin Bad
    <3> HIDE DEF Bad
    <3>1. QED
      BY <1>5, <2>1, PickSmaller
  <2> DEFINE r == s \ {Pick(s)}
  <2>3. g[r] \in Int /\ h[r] = g[r] + Off(r)
    BY <2>1, <2>2, PickSmaller
  <2>4. Pick(s) \in s /\ Pick(s) \in S /\ f[Pick(s)] \in Nat
    BY <2>1, PickSmaller
  <2>5. g[s] = f[Pick(s)] + g[r] /\ h[s] = e[Pick(s)] + h[r]
    BY <1>4, <2>1
  <2>6. CASE Pick(s) = a
    <3>1. Off(s) = n - f[a] /\ Off(r) = 0
      BY <2>4, <2>6
    <3> HIDE DEF r, Off
    <3>2. g[s] \in Int /\ h[s] = g[s] + Off(s)
      BY <1>1, <2>3, <2>4, <2>5, <2>6, <3>1
    <3>3. QED
      BY <3>2 DEF Off
  <2>7. CASE Pick(s) # a
    <3>1. Off(s) = Off(r) /\ Off(r) \in Int
      BY <2>7
    <3> HIDE DEF r, Off
    <3>2. g[s] \in Int /\ h[s] = g[s] + Off(s)
      BY <1>1, <2>3, <2>4, <2>5, <2>7, <3>1
    <3>3. QED
      BY <3>2 DEF Off
  <2>8. QED
    BY <2>6, <2>7
<1>6. Bad = {}
  <2>1. Bad \in SUBSET (SUBSET S)
    OBVIOUS
  <2> HIDE DEF Bad
  <2>2. QED
    BY <1>5, <2>1, SmallestSet
<1>7. g[S] \in Int /\ h[S] = g[S] + Off(S)
  BY <1>6
<1>8. QED
  BY <1>1, <1>3, <1>7 DEF e
=============================================================================
