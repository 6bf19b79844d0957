------------------------------ MODULE SumLemmas ------------------------------
(***************************************************************************)
(* SumFunction adds up the values of a function. What the proofs need of   *)
(* it: the sum of a function of which one value was changed. SumFunction   *)
(* picks the elements in an order nobody knows, by a recursive function    *)
(* over the subsets of the domain; none of the facts below depends on the  *)
(* order. Induction is by a smallest subset that is no member of a set,    *)
(* which the theorem WFMin of the library provides.                        *)
(***************************************************************************)
EXTENDS Integers, Functions, FiniteSetTheorems, TLAPS

\* The element that a sum takes first from a set, and the sum that is left.
Pick(s) == CHOOSE x \in s : TRUE

Adds(g, f, I) ==
    g = [s \in SUBSET I |-> IF s = {} THEN 0 ELSE f[Pick(s)] + g[s \ {Pick(s)}]]

LEMMA PickIn ==
    ASSUME NEW s, s # {}
    PROVE  Pick(s) \in s
BY DEF Pick

\* A set of subsets that has a subset whenever it has the smaller ones has all.
LEMMA SubsetInduction ==
    ASSUME NEW I, IsFiniteSet(I), NEW G,
           \A s \in SUBSET I : (\A t \in SUBSET s : t # s => t \in G) => s \in G
    PROVE  SUBSET I \subseteq G
<1> DEFINE B == {s \in SUBSET I : s \notin G}
<1> SUFFICES ASSUME B # {} PROVE FALSE
  OBVIOUS
<1>1. IsWellFoundedOn(StrictSubsetOrdering(I), SUBSET I)
  <2>1. IsWellFoundedOn(StrictSubsetOrdering(I), FiniteSubsetsOf(I))
    BY FS_StrictSubsetOrderingWellFounded, Zenon
  <2>2. FiniteSubsetsOf(I) = SUBSET I
    BY FS_FiniteSubsetsOfFinite, Zenon
  <2> QED
    BY <2>1, <2>2, Zenon
<1>2. PICK s \in B : \A t \in B : ~(<<t, s>> \in StrictSubsetOrdering(I))
  <2> DEFINE R == StrictSubsetOrdering(I)
  <2>1. B \subseteq SUBSET I /\ IsWellFoundedOn(R, SUBSET I)
    BY <1>1
  <2> HIDE DEF B, R
  <2>2. \E s \in B : \A t \in B : ~(<<t, s>> \in R)
    BY <2>1, WFMin
  <2> QED
    BY <2>2 DEF R
<1>3. ASSUME NEW t \in SUBSET s, t # s PROVE t \in G
  BY <1>2, <1>3 DEF StrictSubsetOrdering
<1> QED
  BY <1>3

LEMMA SumUnfolds ==
    ASSUME NEW f
    PROVE  SumFunction(f) = (CHOOSE g : Adds(g, f, DOMAIN f))[DOMAIN f]
BY DEF SumFunction, SumFunctionOnSet, FoldFunctionOnSet, MapThenFoldSet, Adds, Pick

\* The recursive function exists: up to subsets of n elements by induction on n.
LEMMA NatSetInduction ==
    ASSUME NEW M, 0 \in M, \A n \in Nat : n \in M => n + 1 \in M
    PROVE  Nat \subseteq M
<1> DEFINE B == {n \in Nat : n \notin M}
<1> SUFFICES ASSUME B # {} PROVE FALSE
  OBVIOUS
<1>1. PICK n \in B : \A k \in B : ~(<<k, n>> \in OpToRel(<, Nat))
  <2> DEFINE R == OpToRel(<, Nat)
  <2>1. B \subseteq Nat /\ IsWellFoundedOn(R, Nat)
    BY NatLessThanWellFounded
  <2> HIDE DEF B, R
  <2>2. \E n \in B : \A k \in B : ~(<<k, n>> \in R)
    BY <2>1, WFMin
  <2> QED
    BY <2>2 DEF R
<1>2. \A k \in B : ~(k < n)
  BY <1>1 DEF OpToRel
<1>3. n - 1 \in Nat /\ n - 1 \notin B
  BY <1>2
<1> QED
  BY <1>3

Step(g, f, s) == IF s = {} THEN 0 ELSE f[Pick(s)] + g[s \ {Pick(s)}]

LEMMA SmallerLeft ==
    ASSUME NEW I, IsFiniteSet(I), NEW s \in SUBSET I, s # {}
    PROVE  /\ s \ {Pick(s)} \in SUBSET I /\ s \ {Pick(s)} # s
           /\ Cardinality(s) \in Nat
           /\ Cardinality(s \ {Pick(s)}) = Cardinality(s) - 1
<1>1. IsFiniteSet(s) /\ Pick(s) \in s
  BY FS_Subset, PickIn
<1> QED
  BY <1>1, FS_RemoveElement, FS_CardinalityType

LEMMA SumExists ==
    ASSUME NEW I, IsFiniteSet(I), NEW f \in [I -> Int]
    PROVE  \E g \in [SUBSET I -> Int] : \A s \in SUBSET I : g[s] = Step(g, f, s)
<1> DEFINE Right(g, n) == \A s \in SUBSET I : Cardinality(s) <= n => g[s] = Step(g, f, s)
           M == {n \in Nat : \E g \in [SUBSET I -> Int] : Right(g, n)}
<1>1. \A s \in SUBSET I : Cardinality(s) \in Nat /\ (Cardinality(s) = 0 <=> s = {})
  BY FS_Subset, FS_CardinalityType, FS_EmptySet
<1>2. 0 \in M
  <2> DEFINE g == [s \in SUBSET I |-> 0]
  <2>1. g \in [SUBSET I -> Int] /\ Right(g, 0)
    BY <1>1 DEF Step
  <2> QED
    BY <2>1
<1>3. ASSUME NEW n \in Nat, n \in M PROVE n + 1 \in M
  <2>1. PICK g \in [SUBSET I -> Int] : Right(g, n)
    BY <1>3
  <2> DEFINE h == [s \in SUBSET I |-> IF Cardinality(s) <= n THEN g[s] ELSE Step(g, f, s)]
  <2>2. \A s \in SUBSET I : s # {} => /\ s \ {Pick(s)} \in SUBSET I /\ Pick(s) \in I
                                     /\ Cardinality(s \ {Pick(s)}) = Cardinality(s) - 1
    BY SmallerLeft, PickIn
  <2>3. ASSUME NEW s \in SUBSET I PROVE Step(g, f, s) \in Int
    <3>1. CASE s = {}
      BY <3>1 DEF Step
    <3>2. CASE s # {}
      <4>1. f[Pick(s)] \in Int /\ g[s \ {Pick(s)}] \in Int
        BY <2>2, <3>2
      <4> QED
        BY <3>2, <4>1 DEF Step
    <3> QED
      BY <3>1, <3>2
  <2>4. h \in [SUBSET I -> Int]
    BY <2>3
  <2>5. ASSUME NEW s \in SUBSET I, Cardinality(s) <= n + 1
        PROVE  h[s] = Step(h, f, s)
    <3>1. h[s] = Step(g, f, s)
      BY <2>1, <2>5
    <3>2. CASE s = {}
      BY <3>1, <3>2 DEF Step
    <3>3. CASE s # {}
      <4>1. h[s \ {Pick(s)}] = g[s \ {Pick(s)}]
        BY <1>1, <2>2, <2>5, <3>3
      <4> HIDE DEF h
      <4> QED
        BY <3>1, <3>3, <4>1 DEF Step
    <3> QED
      BY <3>2, <3>3
  <2> HIDE DEF h
  <2> QED
    BY <2>4, <2>5
<1>4. Nat \subseteq M
  <2> HIDE DEF M
  <2> QED
    BY <1>2, <1>3, NatSetInduction
<1>5. PICK g \in [SUBSET I -> Int] : Right(g, Cardinality(I))
  BY <1>1, <1>4
<1>6. \A s \in SUBSET I : Cardinality(s) <= Cardinality(I)
  BY FS_Subset
<1> QED
  BY <1>5, <1>6

\* What a sum is made of: the sums over all subsets.
Sums(f, I) == CHOOSE g : Adds(g, f, I)

LEMMA SumsAre ==
    ASSUME NEW I, IsFiniteSet(I), NEW f \in [I -> Int]
    PROVE  /\ \A s \in SUBSET I : Sums(f, I)[s] = Step(Sums(f, I), f, s)
           /\ SumFunction(f) = Sums(f, I)[I]
<1>1. PICK g \in [SUBSET I -> Int] : \A s \in SUBSET I : g[s] = Step(g, f, s)
  BY SumExists
<1>2. Adds(g, f, I)
  BY <1>1 DEF Adds, Step
<1>3. Adds(Sums(f, I), f, I)
  BY <1>2 DEF Sums
<1>4. \A s \in SUBSET I : Sums(f, I)[s] = Step(Sums(f, I), f, s)
  BY <1>3 DEF Adds, Step
<1>5. SumFunction(f) = Sums(f, I)[I]
  BY SumUnfolds DEF Sums
<1> QED
  BY <1>4, <1>5

\* Changing one value changes the sum by as much.
LEMMA SumChanged ==
    ASSUME NEW I, IsFiniteSet(I), NEW f \in [I -> Int], NEW h \in [I -> Int], NEW i \in I,
           \A j \in I \ {i} : h[j] = f[j]
    PROVE  SumFunction(h) = SumFunction(f) + h[i] - f[i]
<1> DEFINE F == Sums(f, I)
           H == Sums(h, I)
           G == {s \in SUBSET I : F[s] \in Int /\
                  H[s] = F[s] + IF i \in s THEN h[i] - f[i] ELSE 0}
<1>1. \A s \in SUBSET I : F[s] = Step(F, f, s) /\ H[s] = Step(H, h, s)
  BY SumsAre
<1>2. SumFunction(f) = F[I] /\ SumFunction(h) = H[I]
  BY SumsAre
<1> HIDE DEF F, H
<1>3. ASSUME NEW s \in SUBSET I, \A t \in SUBSET s : t # s => t \in G
      PROVE  s \in G
  <2>1. CASE s = {}
    <3>1. F[s] = 0 /\ H[s] = 0 /\ i \notin s
      BY <1>1, <2>1 DEF Step
    <3> QED
      BY <3>1
  <2>2. CASE s # {}
    <3> DEFINE j == Pick(s)
               t == s \ {j}
    <3>1. j \in s /\ j \in I
      BY <2>2, PickIn
    <3>2. t \in G
      BY <1>3, <3>1
    <3>3. F[s] = f[j] + F[t] /\ H[s] = h[j] + H[t]
      BY <1>1, <2>2 DEF Step
    <3>4. i \in t <=> i \in s /\ i # j
      OBVIOUS
    <3> HIDE DEF j, t
    <3> QED
      BY <3>1, <3>2, <3>3, <3>4
  <2> QED
    BY <2>1, <2>2
<1>4. SUBSET I \subseteq G
  <2> HIDE DEF G
  <2> QED
    BY <1>3, SubsetInduction
<1>5. I \in G
  BY <1>4
<1> QED
  BY <1>2, <1>5

\* A sum of values that are not negative is as large as each of them.
LEMMA SumIsLarge ==
    ASSUME NEW I, IsFiniteSet(I), NEW f \in [I -> Nat]
    PROVE  SumFunction(f) \in Nat /\ \A i \in I : SumFunction(f) >= f[i]
<1> DEFINE F == Sums(f, I)
           G == {s \in SUBSET I : F[s] \in Nat /\ \A i \in s : F[s] >= f[i]}
<1>1. (\A s \in SUBSET I : F[s] = Step(F, f, s)) /\ SumFunction(f) = F[I]
  <2>1. f \in [I -> Int]
    OBVIOUS
  <2> QED
    BY <2>1, SumsAre
<1> HIDE DEF F
<1>2. ASSUME NEW s \in SUBSET I, \A t \in SUBSET s : t # s => t \in G
      PROVE  s \in G
  <2>1. CASE s = {}
    BY <1>1, <2>1 DEF Step
  <2>2. CASE s # {}
    <3> DEFINE j == Pick(s)
               t == s \ {j}
    <3>1. j \in s /\ j \in I
      BY <2>2, PickIn
    <3>2. t \in G /\ \A i \in s : i = j \/ i \in t
      BY <1>2, <3>1
    <3>3. F[s] = f[j] + F[t]
      BY <1>1, <2>2 DEF Step
    <3> HIDE DEF j, t
    <3>4. \A i \in s : i \in I
      OBVIOUS
    <3> QED
      BY <3>1, <3>2, <3>3, <3>4
  <2> QED
    BY <2>1, <2>2
<1>3. SUBSET I \subseteq G
  <2> HIDE DEF G
  <2> QED
    BY <1>2, SubsetInduction
<1>4. I \in G
  BY <1>3
<1> QED
  BY <1>1, <1>4

LEMMA SumOfNothing ==
    ASSUME NEW I, IsFiniteSet(I), NEW f \in [I -> Int], \A i \in I : f[i] = 0
    PROVE  SumFunction(f) = 0
<1> DEFINE F == Sums(f, I)
           G == {s \in SUBSET I : F[s] = 0}
<1>1. (\A s \in SUBSET I : F[s] = Step(F, f, s)) /\ SumFunction(f) = F[I]
  BY SumsAre
<1> HIDE DEF F
<1>2. ASSUME NEW s \in SUBSET I, \A t \in SUBSET s : t # s => t \in G
      PROVE  s \in G
  <2>1. CASE s = {}
    BY <1>1, <2>1 DEF Step
  <2>2. CASE s # {}
    <3> DEFINE j == Pick(s)
               t == s \ {j}
    <3>1. j \in I /\ t \in G
      BY <1>2, <2>2, PickIn
    <3>2. F[s] = f[j] + F[t]
      BY <1>1, <2>2 DEF Step
    <3> HIDE DEF j, t
    <3> QED
      BY <3>1, <3>2
  <2> QED
    BY <2>1, <2>2
<1>3. SUBSET I \subseteq G
  <2> HIDE DEF G
  <2> QED
    BY <1>2, SubsetInduction
<1> QED
  BY <1>1, <1>3

\* The order in which a sum takes the elements does not matter: any of them can be first.
LEMMA AnyElementFirst ==
    ASSUME NEW I, IsFiniteSet(I), NEW f \in [I -> Int]
    PROVE  \A s \in SUBSET I :
              /\ Sums(f, I)[s] \in Int
              /\ \A i \in s : Sums(f, I)[s] = f[i] + Sums(f, I)[s \ {i}]
<1> DEFINE F == Sums(f, I)
           G == {s \in SUBSET I : F[s] \in Int /\ \A i \in s : F[s] = f[i] + F[s \ {i}]}
<1>1. \A s \in SUBSET I : F[s] = Step(F, f, s)
  BY SumsAre
<1> HIDE DEF F
<1>2. ASSUME NEW s \in SUBSET I, \A t \in SUBSET s : t # s => t \in G
      PROVE  s \in G
  <2>1. CASE s = {}
    <3>1. F[s] = 0 /\ \A i \in s : FALSE
      BY <1>1, <2>1 DEF Step
    <3> QED
      BY <3>1
  <2>2. CASE s # {}
    <3> DEFINE j == Pick(s)
    <3>1. j \in s /\ j \in I /\ f[j] \in Int
      BY <2>2, PickIn
    <3>2. s \ {j} \in G
      BY <1>2, <3>1
    <3>3. F[s] = f[j] + F[s \ {j}]
      BY <1>1, <2>2 DEF Step
    <3> HIDE DEF j
    <3>4. ASSUME NEW i \in s PROVE F[s] = f[i] + F[s \ {i}]
      <4>1. CASE i = j
        BY <3>3, <4>1
      <4>2. CASE i # j
        <5>1. s \ {i} \in G /\ j \in s \ {i} /\ i \in s \ {j}
          BY <1>2, <3>1, <4>2
        <5>2. F[s \ {j}] = f[i] + F[(s \ {j}) \ {i}]
          BY <3>2, <5>1
        <5>3. F[s \ {i}] = f[j] + F[(s \ {i}) \ {j}]
          BY <5>1
        <5>4. (s \ {j}) \ {i} = (s \ {i}) \ {j}
          OBVIOUS
        <5>5. (s \ {i}) \ {j} \in G
          <6>1. (s \ {i}) \ {j} \in SUBSET s /\ (s \ {i}) \ {j} # s
            BY <3>1
          <6> QED
            BY <1>2, <6>1
        <5>6. f[i] \in Int /\ F[(s \ {i}) \ {j}] \in Int
          BY <5>5
        <5> DEFINE rest == F[(s \ {i}) \ {j}]
        <5>7. F[s \ {j}] = f[i] + rest /\ F[s \ {i}] = f[j] + rest
          BY <5>2, <5>3, <5>4
        <5>8. rest \in Int /\ f[j] \in Int /\ f[i] \in Int
          BY <3>1, <5>6
        <5> HIDE DEF rest
        <5> QED
          BY <3>3, <5>7, <5>8
      <4> QED
        BY <4>1, <4>2
    <3>5. F[s] \in Int
      BY <3>1, <3>2, <3>3
    <3> QED
      BY <3>4, <3>5
  <2> QED
    BY <2>1, <2>2
<1>3. SUBSET I \subseteq G
  <2> HIDE DEF G
  <2> QED
    BY <1>2, SubsetInduction
<1> QED
  BY <1>3 DEF F

LEMMA TakenFirst ==
    ASSUME NEW I, IsFiniteSet(I), NEW f \in [I -> Int], NEW i \in I
    PROVE  Sums(f, I)[I] = f[i] + Sums(f, I)[I \ {i}]
<1> DEFINE F == Sums(f, I)
<1>1. \A s \in SUBSET I : F[s] \in Int /\ \A j \in s : F[s] = f[j] + F[s \ {j}]
  BY AnyElementFirst
<1> HIDE DEF F
<1>2. F[I] = f[i] + F[I \ {i}]
  BY <1>1
<1> QED
  BY <1>2 DEF F

\* One element more adds its value to the sum.
LEMMA SumExtended ==
    ASSUME NEW I, IsFiniteSet(I), NEW x, x \notin I,
           NEW f \in [I -> Int], NEW h \in [I \cup {x} -> Int],
           \A i \in I : h[i] = f[i]
    PROVE  SumFunction(h) = SumFunction(f) + h[x] /\ SumFunction(f) \in Int
<1> DEFINE J == I \cup {x}
           F == Sums(f, I)
           H == Sums(h, J)
           G == {s \in SUBSET I : H[s] = F[s]}
<1>1. IsFiniteSet(J)
  BY FS_AddElement
<1>2. /\ \A s \in SUBSET I : F[s] = Step(F, f, s)
      /\ \A s \in SUBSET J : H[s] = Step(H, h, s)
      /\ SumFunction(f) = F[I] /\ SumFunction(h) = H[J]
  BY <1>1, SumsAre
<1>3. H[J] = h[x] + H[J \ {x}]
  <2>1. x \in J /\ h \in [J -> Int]
    OBVIOUS
  <2> HIDE DEF J
  <2> QED
    BY <1>1, <2>1, TakenFirst
<1>4. F[I] \in Int
  BY AnyElementFirst
<1> HIDE DEF F, H
<1>5. ASSUME NEW s \in SUBSET I, \A t \in SUBSET s : t # s => t \in G
      PROVE  s \in G
  <2>1. s \in SUBSET J
    OBVIOUS
  <2>2. CASE s = {}
    BY <1>2, <2>1, <2>2 DEF Step
  <2>3. CASE s # {}
    <3> DEFINE j == Pick(s)
               t == s \ {j}
    <3>1. j \in I /\ t \in G
      BY <1>5, <2>3, PickIn
    <3>2. F[s] = f[j] + F[t] /\ H[s] = h[j] + H[t]
      BY <1>2, <2>1, <2>3 DEF Step
    <3> HIDE DEF j, t
    <3> QED
      BY <3>1, <3>2
  <2> QED
    BY <2>2, <2>3
<1>6. SUBSET I \subseteq G
  <2> HIDE DEF G
  <2> QED
    BY <1>5, SubsetInduction
<1>7. J \ {x} = I
  OBVIOUS
<1>8. H[I] = F[I]
  BY <1>6
<1>9. SumFunction(h) = h[x] + F[I] /\ h[x] \in Int
  BY <1>2, <1>3, <1>7, <1>8
<1> QED
  BY <1>2, <1>4, <1>9

LEMMA SumIsInt ==
    ASSUME NEW I, IsFiniteSet(I), NEW f \in [I -> Int]
    PROVE  SumFunction(f) \in Int
BY SumsAre, AnyElementFirst

=============================================================================
