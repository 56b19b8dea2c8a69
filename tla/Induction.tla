------------------------------ MODULE Induction ------------------------------
(***************************************************************************)
(* Induction, stated of sets: the library states it of predicates, which    *)
(* the provers cannot be given.  And what the operators of Ordering return. *)
(***************************************************************************)
EXTENDS Integers, Ordering, WellFoundedInduction, FiniteSetTheorems, TLAPS

\* A set with 0, and with the successor of each number in it, has every number.
LEMMA NatSetInduction ==
  ASSUME NEW S, 0 \in S, \A n \in Nat : n \in S => n + 1 \in S
  PROVE  Nat \subseteq S
<1> DEFINE R == OpToRel(<, Nat)
           T == Nat \ S
<1>1. IsWellFoundedOn(R, Nat)
  BY NatLessThanWellFounded, Zenon
<1>2. ASSUME NEW x \in Nat, NEW y \in Nat, y < x PROVE <<y, x>> \in R
  BY <1>2 DEF OpToRel
<1> HIDE DEF R
<1>3. SUFFICES ASSUME T # {} PROVE FALSE
  OBVIOUS
<1>4. \E x \in T : \A y \in T : ~(<<y, x>> \in R)
  <2>1. T \subseteq Nat
    OBVIOUS
  <2> HIDE DEF T
  <2> QED
    BY <2>1, <1>1, <1>3, WFMin
<1>5. PICK x \in T : \A y \in T : ~(<<y, x>> \in R)
  BY <1>4
<1>6. x \in Nat /\ x # 0 /\ x - 1 \in Nat /\ x - 1 < x
  OBVIOUS
<1>7. x - 1 \in S
  BY <1>2, <1>5, <1>6
<1> QED
  BY <1>6, <1>7

\* A bounded set of numbers has a greatest.
LEMMA GreatestIs ==
  ASSUME NEW n \in Nat, NEW S, S \subseteq 0 .. n, S # {}
  PROVE  \E m \in S : \A k \in S : k <= m
<1> DEFINE Bounds == {k \in Nat : \A i \in S : i <= k}
           R == OpToRel(<, Nat)
<1>1. IsWellFoundedOn(R, Nat)
  BY NatLessThanWellFounded, Zenon
<1>2. \A x, y \in Nat : y < x => <<y, x>> \in R
  BY DEF OpToRel
<1> HIDE DEF R
<1>3. n \in Bounds /\ Bounds \subseteq Nat
  OBVIOUS
<1>4. PICK m \in Bounds : \A j \in Bounds : ~(<<j, m>> \in R)
  <2> HIDE DEF Bounds
  <2> QED
    BY <1>1, <1>3, WFMin
<1>5. m \in Nat /\ \A k \in S : k <= m
  BY <1>3, <1>4
<1>6. m \in S
  <2> SUFFICES ASSUME m \notin S PROVE FALSE
    OBVIOUS
  <2>1. \A k \in S : k \in Nat /\ k <= m - 1
    BY <1>5
  <2>2. m - 1 \in Bounds /\ m - 1 < m /\ m - 1 \in Nat
    <3>1. PICK k \in S : TRUE
      OBVIOUS
    <3>2. k \in Nat /\ k <= m - 1
      BY <2>1
    <3>3. m - 1 \in Nat
      BY <1>5, <3>2
    <3> QED
      BY <1>5, <2>1, <3>3
  <2>3. <<m - 1, m>> \in R
    BY <1>2, <1>5, <2>2
  <2> QED
    BY <1>4, <2>2, <2>3
<1> QED
  BY <1>5, <1>6

\* A set of numbers has a least.
LEMMA LeastIs ==
  ASSUME NEW S \in SUBSET Nat, S # {}
  PROVE  \E m \in S : \A k \in S : m <= k
<1> DEFINE R == OpToRel(<, Nat)
<1>1. IsWellFoundedOn(R, Nat)
  BY NatLessThanWellFounded, Zenon
<1>2. \A x, y \in Nat : y < x => <<y, x>> \in R
  BY DEF OpToRel
<1> HIDE DEF R
<1>3. PICK m \in S : \A k \in S : ~(<<k, m>> \in R)
  BY <1>1, WFMin
<1>4. ASSUME NEW k \in S PROVE m <= k
  <2>1. k \in Nat /\ m \in Nat
    OBVIOUS
  <2>2. ~(k < m)
    BY <1>2, <1>3, <2>1
  <2> QED
    BY <2>1, <2>2
<1> QED
  BY <1>4

\* A set of sets with the empty one, and with every finite set that is in it once
\* an element is taken out, has every finite subset.
LEMMA FiniteSetInduction ==
  ASSUME NEW S, IsFiniteSet(S), NEW P,
         {} \in P,
         \A s \in SUBSET S : (\A x \in s : s \ {x} \in P) /\ s # {} => s \in P
  PROVE  SUBSET S \subseteq P
<1> DEFINE N == {n \in Nat : \A s \in SUBSET S : Cardinality(s) = n => s \in P}
<1>1. \A s \in SUBSET S : IsFiniteSet(s) /\ Cardinality(s) \in Nat
  BY FS_Subset, FS_CardinalityType
<1>2. 0 \in N
  BY <1>1, FS_EmptySet
<1>3. ASSUME NEW n \in Nat, n \in N PROVE n + 1 \in N
  <2> SUFFICES ASSUME NEW s \in SUBSET S, Cardinality(s) = n + 1 PROVE s \in P
    OBVIOUS
  <2>1. s # {}
    <3>1. Cardinality({}) = 0
      BY FS_EmptySet
    <3> QED
      BY <3>1
  <2>2. ASSUME NEW x \in s PROVE s \ {x} \in P
    <3>1. Cardinality(s \ {x}) = n
      BY <1>1, FS_RemoveElement
    <3> QED
      BY <3>1, <1>3
  <2> QED
    BY <2>1, <2>2
<1>4. Nat \subseteq N
  <2> HIDE DEF N
  <2> QED
    BY <1>2, <1>3, NatSetInduction
<1> QED
  BY <1>1, <1>4

\* f is the fold of `next` over the subsets of S, taking out of each what `take`
\* says: next[x][v] is what x makes of v, which the rest has come to.
IsFold(f, S, base, take, next) ==
    f = [s \in SUBSET S |-> IF s = {} THEN base ELSE next[take[s]][f[s \ {take[s]}]]]

\* A fold over a finite set is defined.
LEMMA FoldDefined ==
  ASSUME NEW S, IsFiniteSet(S), NEW V, NEW base \in V, NEW take, NEW next,
         \A s \in SUBSET S : s # {} => take[s] \in s,
         \A x \in S, v \in V : next[x][v] \in V
  PROVE  \E f \in [SUBSET S -> V] : IsFold(f, S, base, take, next)
<1> DEFINE Def(f, s) == IF s = {} THEN base ELSE next[take[s]][f[s \ {take[s]}]]
           N == {n \in Nat : \E f \in [SUBSET S -> V] :
                  \A s \in SUBSET S : Cardinality(s) <= n => f[s] = Def(f, s)}
<1>1. \A s \in SUBSET S : IsFiniteSet(s) /\ Cardinality(s) \in Nat
  BY FS_Subset, FS_CardinalityType
<1>2. 0 \in N
  <2>1. [s \in SUBSET S |-> base] \in [SUBSET S -> V]
    OBVIOUS
  <2>2. ASSUME NEW s \in SUBSET S, Cardinality(s) <= 0 PROVE s = {}
    <3>1. IsFiniteSet(s) /\ Cardinality(s) = 0
      BY <1>1, <2>2
    <3> QED
      BY <3>1, FS_EmptySet, Zenon
  <2> QED
    BY <2>1, <2>2
<1>3. ASSUME NEW n \in Nat, n \in N PROVE n + 1 \in N
  <2>1. PICK f \in [SUBSET S -> V] :
          \A s \in SUBSET S : Cardinality(s) <= n => f[s] = Def(f, s)
    BY <1>3
  <2> DEFINE g == [s \in SUBSET S |-> Def(f, s)]
  <2>2. g \in [SUBSET S -> V]
    OBVIOUS
  <2>3. ASSUME NEW s \in SUBSET S, Cardinality(s) <= n + 1 PROVE g[s] = Def(g, s)
    <3>1. CASE s = {}
      BY <3>1
    <3>2. CASE s # {}
      <4> DEFINE r == s \ {take[s]}
      <4>1. r \in SUBSET S /\ take[s] \in s
        BY <3>2
      <4>2. Cardinality(r) = Cardinality(s) - 1
        BY <1>1, <4>1, FS_RemoveElement
      <4>3. Cardinality(r) <= n
        BY <1>1, <2>3, <4>2
      <4>4. g[r] = f[r]
        BY <2>1, <4>1, <4>3
      <4> QED
        BY <3>2, <4>4
    <3> QED
      BY <3>1, <3>2
  <2> HIDE DEF g, Def
  <2> QED
    BY <2>2, <2>3
<1>4. Nat \subseteq N
  <2> HIDE DEF N
  <2> QED
    BY <1>2, <1>3, NatSetInduction
<1>5. PICK f \in [SUBSET S -> V] :
        \A s \in SUBSET S : Cardinality(s) <= Cardinality(S) => f[s] = Def(f, s)
  BY <1>1, <1>4
<1>6. \A s \in SUBSET S : f[s] = Def(f, s)
  BY <1>5, <1>1, FS_Subset
<1>7. f = [s \in SUBSET S |-> Def(f, s)]
  <2> HIDE DEF Def
  <2> QED
    BY <1>6
<1> QED
  BY <1>7, Zenon DEF IsFold

-----------------------------------------------------------------------------
(* What the operators of Ordering return.                                 *)

Elements(line) == {line[i] : i \in DOMAIN line}
Distinct(ids) == \A i, j \in DOMAIN ids : ids[i] = ids[j] => i = j
Below(numbers, n) == {m \in numbers : m < n}

\* How many are below tells a number of the set from the others.
LEMMA RankIs ==
  ASSUME NEW S \in SUBSET Nat, IsFiniteSet(S)
  PROVE  /\ Cardinality(S) \in Nat
         /\ \A n \in S : Cardinality(Below(S, n)) \in 0 .. Cardinality(S) - 1
         /\ \A k, n \in S : Cardinality(Below(S, k)) = Cardinality(Below(S, n)) => k = n
<1>1. ASSUME NEW n \in S
      PROVE  /\ IsFiniteSet(Below(S, n)) /\ Cardinality(Below(S, n)) \in Nat
             /\ Cardinality(Below(S, n)) < Cardinality(S) /\ Cardinality(S) \in Nat
  <2>1. Below(S, n) \in SUBSET S /\ n \notin Below(S, n)
    BY DEF Below
  <2>2. IsFiniteSet(Below(S, n)) /\ Cardinality(Below(S, n)) <= Cardinality(S)
          /\ Cardinality(S) # Cardinality(Below(S, n))
    BY <2>1, FS_Subset
  <2> QED
    BY <2>2, FS_CardinalityType
<1>2. ASSUME NEW k \in S, NEW n \in S, k < n
      PROVE  Cardinality(Below(S, k)) < Cardinality(Below(S, n))
  <2>1. Below(S, k) \in SUBSET Below(S, n) /\ k \in Below(S, n) /\ k \notin Below(S, k)
    <3>1. \A m \in S : m \in Nat
      OBVIOUS
    <3>2. k \in Nat /\ n \in Nat
      OBVIOUS
    <3>3. \A m \in S : m < k => m < n
      <4> SUFFICES ASSUME NEW m \in S, m < k PROVE m < n
        OBVIOUS
      <4>1. m \in Nat
        BY <3>1
      <4> QED
        BY <1>2, <3>2, <4>1
    <3>4. ~(k < k)
      BY <3>2
    <3> QED
      BY <1>2, <3>3, <3>4, Zenon DEF Below
  <2>2. Cardinality(Below(S, k)) <= Cardinality(Below(S, n))
          /\ Cardinality(Below(S, k)) # Cardinality(Below(S, n))
    BY <1>1, <2>1, FS_Subset
  <2> QED
    BY <1>1, <2>2
<1>3. Cardinality(S) \in Nat
  BY FS_CardinalityType
<1>4. ASSUME NEW k \in S, NEW n \in S, Cardinality(Below(S, k)) = Cardinality(Below(S, n))
      PROVE  k = n
  <2>1. k \in Nat /\ n \in Nat
    OBVIOUS
  <2>2. ~(k < n) /\ ~(n < k)
    BY <1>1, <1>2, <1>4
  <2> QED
    BY <2>1, <2>2
<1> QED
  BY <1>1, <1>3, <1>4

\* The numbers of a set in order: each of them, once.
LEMMA InOrderIs ==
  ASSUME NEW S \in SUBSET Nat, IsFiniteSet(S)
  PROVE  /\ InOrder(S) \in Seq(S) /\ Distinct(InOrder(S)) /\ Elements(InOrder(S)) = S
<1> DEFINE n == Cardinality(S)
           rank == [k \in S |-> Cardinality(Below(S, k)) + 1]
           Nth(i) == CHOOSE k \in S : Cardinality({m \in S : m < k}) = i - 1
<1>1. n \in Nat /\ \A k \in S : rank[k] \in 1 .. n
  BY RankIs
<1>2. \A k, l \in S : rank[k] = rank[l] => k = l
  BY RankIs
<1>3. rank \in Injection(S, 1 .. n)
  BY <1>1, <1>2 DEF Injection, IsInjective
<1>4. IsFiniteSet(1 .. n) /\ Cardinality(1 .. n) = n
  <2>1. /\ IsFiniteSet(1 .. n)
        /\ Cardinality(1 .. n) = IF 1 > n THEN 0 ELSE n - 1 + 1
    BY <1>1, FS_Interval
  <2> QED
    BY <1>1, <2>1
<1>5. rank \in Surjection(S, 1 .. n)
  <2> HIDE DEF rank
  <2> QED
    BY <1>3, <1>4, FS_Injection
<1>6. \A i \in 1 .. n : \E k \in S : rank[k] = i
  BY <1>5 DEF Surjection
<1>7. ASSUME NEW i \in 1 .. n PROVE Nth(i) \in S /\ rank[Nth(i)] = i
  <2>1. PICK k \in S : rank[k] = i
    BY <1>6
  <2>2. Cardinality({m \in S : m < k}) = i - 1
    BY <2>1, RankIs DEF Below
  <2>3. Nth(i) \in S /\ Cardinality({m \in S : m < Nth(i)}) = i - 1
    BY <2>2
  <2> HIDE DEF Nth
  <2> QED
    BY <2>3 DEF Below
<1>8. InOrder(S) = [i \in 1 .. n |-> Nth(i)]
  BY DEF InOrder
<1> HIDE DEF n, rank, Nth
<1>9. InOrder(S) \in Seq(S) /\ DOMAIN InOrder(S) = 1 .. n
  BY <1>1, <1>7, <1>8
<1>10. \A i \in 1 .. n : InOrder(S)[i] \in S /\ rank[InOrder(S)[i]] = i
  BY <1>7, <1>8
<1>11. \A k \in S : rank[k] \in 1 .. n /\ InOrder(S)[rank[k]] = k
  BY <1>1, <1>2, <1>10
<1>12. Distinct(InOrder(S))
  BY <1>9, <1>10 DEF Distinct
<1>13. Elements(InOrder(S)) = S
  BY <1>9, <1>10, <1>11 DEF Elements
<1> QED
  BY <1>9, <1>12, <1>13

\* What is picked out, once each if the sequence has them once each.
LEMMA OnlyIs ==
  ASSUME NEW ids, NEW D, ids \in Seq(D), NEW kept
  PROVE  /\ Only(kept, ids) \in Seq(D)
         /\ Distinct(ids) => Distinct(Only(kept, ids))
         /\ Elements(Only(kept, ids)) = Elements(ids) \cap kept
<1> DEFINE S == {i \in DOMAIN ids : ids[i] \in kept}
           at == InOrder(S)
<1>1. S \in SUBSET Nat /\ IsFiniteSet(S)
  <2>1. DOMAIN ids = 1 .. Len(ids) /\ Len(ids) \in Nat
    OBVIOUS
  <2>2. IsFiniteSet(1 .. Len(ids))
    BY <2>1, FS_Interval
  <2>3. S \in SUBSET (1 .. Len(ids))
    BY <2>1
  <2> QED
    BY <2>1, <2>2, <2>3, FS_Subset
<1>2. Only(kept, ids) = [i \in DOMAIN at |-> ids[at[i]]]
  BY DEF Only
<1>3. at \in Seq(S) /\ Distinct(at) /\ Elements(at) = S
  <2> HIDE DEF S
  <2> QED
    BY <1>1, InOrderIs
<1>4. \A i \in S : i \in DOMAIN ids /\ ids[i] \in D /\ ids[i] \in kept
  OBVIOUS
<1>5. \A i \in DOMAIN ids : ids[i] \notin kept \/ i \in S
  OBVIOUS
<1> HIDE DEF S, at
<1>6. \E n \in Nat : DOMAIN at = 1 .. n
  BY <1>3
<1>7. Only(kept, ids) \in Seq(D)
  BY <1>2, <1>3, <1>4, <1>6
<1>8. Distinct(ids) => Distinct(Only(kept, ids))
  BY <1>2, <1>3, <1>4 DEF Distinct
<1>9. Elements(Only(kept, ids)) = Elements(ids) \cap kept
  <2>1. \A i \in DOMAIN at : at[i] \in S
    BY <1>3
  <2>2. \A j \in S : \E i \in DOMAIN at : at[i] = j
    BY <1>3 DEF Elements
  <2>3. ASSUME NEW id \in Elements(ids) \cap kept PROVE id \in Elements(Only(kept, ids))
    <3>1. PICK j \in DOMAIN ids : id = ids[j]
      BY DEF Elements
    <3>2. PICK i \in DOMAIN at : at[i] = j
      BY <1>5, <2>2, <3>1
    <3> QED
      BY <1>2, <3>1, <3>2 DEF Elements
  <2>4. ASSUME NEW id \in Elements(Only(kept, ids)) PROVE id \in Elements(ids) \cap kept
    BY <1>2, <1>4, <2>1 DEF Elements
  <2> QED
    BY <2>3, <2>4
<1> QED
  BY <1>7, <1>8, <1>9
=============================================================================
