--------------------------- MODULE SortingProofs ---------------------------
(***************************************************************************)
(* Facts about all finite sets that the other proofs cite: least members,  *)
(* for proofs by a least counterexample, and what Sorted returns.          *)
(***************************************************************************)
EXTENDS Sorting, SequencesExt, FiniteSetTheorems, WellFoundedInduction, SequenceTheorems, TLAPS

\* A set of numbers has a least one.
LEMMA LeastNumber ==
  ASSUME NEW S \in SUBSET Nat, S # {}
  PROVE  \E m \in S : \A n \in S : m <= n
<1>1. PICK m \in S : \A n \in S : ~(<<n, m>> \in OpToRel(<, Nat))
  BY NatLessThanWellFounded, WFMin, Zenon
<1>2. ASSUME NEW n \in S PROVE m <= n
  <2>1. m \in Nat /\ n \in Nat
    OBVIOUS
  <2>2. n < m => <<n, m>> \in OpToRel(<, Nat)
    BY <2>1 DEF OpToRel
  <2>3. ~(n < m)
    BY <1>1, <2>2, Zenon
  <2> QED BY <2>1, <2>3
<1> QED BY <1>2

\* A set of subsets of a finite set has a least member.
LEMMA LeastSet ==
  ASSUME NEW S, IsFiniteSet(S), NEW B, B \subseteq SUBSET S, B # {}
  PROVE  \E m \in B : IsFiniteSet(m) /\ \A t \in B : t \subseteq m => t = m
<1>1. B \subseteq FiniteSubsetsOf(S)
  BY FS_Subset DEF FiniteSubsetsOf
<1>2. \E m \in B : \A t \in B : ~(<<t, m>> \in StrictSubsetOrdering(S))
  BY <1>1, FS_StrictSubsetOrderingWellFounded, WFMin, Zenon
<1>3. PICK m \in B : \A t \in B : ~(<<t, m>> \in StrictSubsetOrdering(S))
  BY <1>2
<1>4. \A t \in B : t \subseteq m => t = m
  BY <1>3 DEF StrictSubsetOrdering
<1> QED BY <1>1, <1>4 DEF FiniteSubsetsOf

-----------------------------------------------------------------------------
\* A function on 1..n is a sequence.
LEMMA IsSequence ==
  ASSUME NEW T, NEW n \in Nat, NEW t, DOMAIN t = 1..n, t = [i \in 1..n |-> t[i]],
         \A i \in 1..n : t[i] \in T
  PROVE  t \in Seq(T)
<1>1. t \in [1..n -> T]
  OBVIOUS
<1>2. t \in UNION {[1..m -> T] : m \in Nat}
  BY <1>1
<1> QED BY <1>2, SeqDef

\* R orders S strictly and totally.
IsOrder(S, R) ==
  /\ \A x \in S : <<x, x>> \notin R
  /\ \A x, y, z \in S : <<x, y>> \in R /\ <<y, z>> \in R => <<x, z>> \in R
  /\ \A x, y \in S : x # y => <<x, y>> \in R \/ <<y, x>> \in R

\* How many come before x.
Place(S, R, x) == Cardinality({y \in S : <<y, x>> \in R})

\* The places of a finite ordered set are 0, 1 and so on, one for each.
LEMMA PlaceFacts ==
  ASSUME NEW S, IsFiniteSet(S), NEW R, IsOrder(S, R), NEW x \in S
  PROVE  /\ Place(S, R, x) \in Nat /\ Place(S, R, x) < Cardinality(S)
         /\ \A y \in S : Place(S, R, x) = Place(S, R, y) => x = y
         /\ \A y \in S : <<x, y>> \in R => Place(S, R, x) < Place(S, R, y)
<1> DEFINE A(z) == {y \in S : <<y, z>> \in R}
<1>1. \A z \in S : A(z) \in SUBSET S
  OBVIOUS
<1>2. \A z \in S : IsFiniteSet(A(z)) /\ Cardinality(A(z)) \in Nat
  BY <1>1, FS_Subset, FS_CardinalityType
<1>3. ASSUME NEW y \in S, NEW z \in S, <<y, z>> \in R
      PROVE  Cardinality(A(y)) < Cardinality(A(z))
  <2>1. A(y) \cup {y} \in SUBSET A(z)
    BY <1>3 DEF IsOrder
  <2>2. y \notin A(y)
    BY DEF IsOrder
  <2> HIDE DEF A
  <2>3. Cardinality(A(y) \cup {y}) = Cardinality(A(y)) + 1
    BY <1>2, <2>2, FS_AddElement
  <2>4. Cardinality(A(y) \cup {y}) <= Cardinality(A(z))
    BY <1>2, <2>1, FS_Subset
  <2> QED BY <1>2, <2>3, <2>4
<1>4. Cardinality(A(x)) < Cardinality(S)
  <2>1. A(x) \in SUBSET (S \ {x})
    BY DEF IsOrder
  <2>2. IsFiniteSet(S \ {x}) /\ Cardinality(S \ {x}) = Cardinality(S) - 1 /\ Cardinality(S) \in Nat
    BY FS_RemoveElement, FS_CardinalityType
  <2> HIDE DEF A
  <2>3. Cardinality(A(x)) <= Cardinality(S \ {x})
    BY <2>1, <2>2, FS_Subset
  <2> QED BY <1>2, <2>2, <2>3
<1>5. ASSUME NEW y \in S, Cardinality(A(x)) = Cardinality(A(y)) PROVE x = y
  <2> SUFFICES ASSUME x # y PROVE FALSE
    OBVIOUS
  <2>1. <<x, y>> \in R \/ <<y, x>> \in R
    BY DEF IsOrder
  <2>2. Cardinality(A(x)) < Cardinality(A(y)) \/ Cardinality(A(y)) < Cardinality(A(x))
    BY <1>3, <2>1
  <2> HIDE DEF A
  <2> QED BY <1>2, <1>5, <2>2
<1> QED BY <1>2, <1>3, <1>4, <1>5 DEF Place

\* Sorting loses nothing, repeats nothing and orders what it is given.
LEMMA SortedFacts ==
  ASSUME NEW S, IsFiniteSet(S), NEW R, IsOrder(S, R)
  PROVE  LET s == Sorted(S, R)
         IN  /\ s \in Seq(S) /\ Len(s) = Cardinality(S) /\ DOMAIN s = 1..Cardinality(S)
             /\ Range(s) = S /\ IsInjective(s)
             /\ \A i, j \in DOMAIN s : i < j => <<s[i], s[j]>> \in R
<1> DEFINE n == Cardinality(S)
           s == Sorted(S, R)
           r == [x \in S |-> Place(S, R, x) + 1]
<1>1. n \in Nat
  BY FS_CardinalityType
<1>2. IsFiniteSet(1..n) /\ Cardinality(1..n) = n
  BY <1>1, FS_Interval
<1> HIDE DEF n
<1>3. \A x \in S : Place(S, R, x) + 1 \in 1..n
  BY <1>1, PlaceFacts DEF n
<1>4. \A x, y \in S : Place(S, R, x) + 1 = Place(S, R, y) + 1 => x = y
  BY PlaceFacts
<1>5. r \in Injection(S, 1..n)
  BY <1>3, <1>4 DEF Injection, IsInjective
<1> HIDE DEF r
<1>6. r \in Surjection(S, 1..n)
  BY <1>2, <1>5, FS_Injection DEF n
<1>7. \A i \in 1..n : \E x \in S : Place(S, R, x) = i - 1
  <2> SUFFICES ASSUME NEW i \in 1..n PROVE \E x \in S : Place(S, R, x) = i - 1
    OBVIOUS
  <2>1. PICK x \in S : r[x] = i
    BY <1>6 DEF Surjection
  <2>2. Place(S, R, x) + 1 = i /\ Place(S, R, x) \in Nat
    BY <2>1, PlaceFacts DEF r
  <2> QED BY <2>2
<1>8. s = [i \in 1..n |-> CHOOSE x \in S : Place(S, R, x) = i - 1]
  BY DEF Sorted, Place, n
<1> HIDE DEF s
<1>9. \A i \in 1..n : s[i] \in S /\ Place(S, R, s[i]) = i - 1
  BY <1>7, <1>8
<1>10. DOMAIN s = 1..n /\ s = [i \in 1..n |-> s[i]]
  BY <1>8
<1>11. s \in Seq(S)
  BY <1>1, <1>9, <1>10, IsSequence
<1>12. Len(s) = n
  BY <1>1, <1>10, <1>11
<1>13. IsInjective(s)
  <2> SUFFICES ASSUME NEW i \in 1..n, NEW j \in 1..n, s[i] = s[j] PROVE i = j
    BY <1>10 DEF IsInjective
  <2>1. i - 1 = j - 1
    BY <1>9
  <2> QED BY <2>1
<1>14. Range(s) = S
  <2>1. Range(s) \subseteq S
    BY <1>9, <1>10 DEF Range
  <2>2. ASSUME NEW x \in S PROVE x \in Range(s)
    <3>1. Place(S, R, x) + 1 \in 1..n /\ Place(S, R, x) \in Nat
      BY <1>3, PlaceFacts
    <3> DEFINE i == Place(S, R, x) + 1
    <3>2. s[i] \in S /\ Place(S, R, s[i]) = Place(S, R, x)
      BY <1>9, <3>1
    <3>3. s[i] = x
      BY <3>2, PlaceFacts
    <3> QED BY <1>10, <3>1, <3>3 DEF Range
  <2> QED BY <2>1, <2>2
<1>15. ASSUME NEW i \in 1..n, NEW j \in 1..n, i < j PROVE <<s[i], s[j]>> \in R
  <2>1. s[i] \in S /\ s[j] \in S /\ Place(S, R, s[i]) = i - 1 /\ Place(S, R, s[j]) = j - 1
    BY <1>9
  <2>2. Place(S, R, s[i]) < Place(S, R, s[j]) /\ ~(Place(S, R, s[j]) < Place(S, R, s[i]))
    BY <1>15, <2>1
  <2>3. s[i] # s[j] /\ <<s[j], s[i]>> \notin R
    BY <2>1, <2>2, PlaceFacts
  <2> QED BY <2>1, <2>3 DEF IsOrder
<1> QED BY <1>10, <1>11, <1>12, <1>13, <1>14, <1>15 DEF n, s
=============================================================================
