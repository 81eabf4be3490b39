----------------------------- MODULE OrderLemmas -----------------------------
(***************************************************************************)
(* What the proofs need of orders: the least and the greatest element of a *)
(* set of natural numbers, which FiniteSetsExt defines with CHOOSE, and    *)
(* the order of transactions that TxOrder defines.                         *)
(***************************************************************************)
EXTENDS TxOrder, Sequences, FiniteSetTheorems, TLAPS

-----------------------------------------------------------------------------
\* A nonempty set of natural numbers has a least element, and Min is it.
LEMMA MinOfNat ==
  ASSUME NEW S \in SUBSET Nat, S # {}
  PROVE  Min(S) \in S /\ \A y \in S : Min(S) <= y
<1>1. PICK m \in S : \A k \in S : ~ (<<k, m>> \in OpToRel(<, Nat))
  BY NatLessThanWellFounded, WFMin
<1>2. \A k \in S : m <= k
  <2>1. SUFFICES ASSUME NEW k \in S, k < m
                 PROVE  FALSE
    OBVIOUS
  <2>2. <<k, m>> \in {p \in Nat \X Nat : p[1] < p[2]}
    BY <2>1
  <2>3. <<k, m>> \in OpToRel(<, Nat)
    BY <2>2 DEF OpToRel
  <2> QED BY <1>1, <2>3
<1> QED BY <1>2 DEF Min

\* A nonempty set of natural numbers below a bound has a greatest element, and
\* Max is it.
LEMMA MaxOfBounded ==
  ASSUME NEW n \in Nat, NEW S \in SUBSET (0..n), S # {}
  PROVE  Max(S) \in S /\ \A y \in S : Max(S) >= y
<1> DEFINE T == {n - x : x \in S}
<1>1. T \in SUBSET Nat /\ T # {}
  <2>1. \A x \in S : n - x \in Nat
    OBVIOUS
  <2>2. PICK x \in S : TRUE
    OBVIOUS
  <2>3. n - x \in T
    OBVIOUS
  <2> QED BY <2>1, <2>3
<1>2. Min(T) \in T /\ \A y \in T : Min(T) <= y
  BY <1>1, MinOfNat
<1>3. PICK x \in S : Min(T) = n - x
  BY <1>2
<1>4. \A y \in S : Min(T) <= n - y
  BY <1>2
<1> HIDE DEF T
<1>5. \A y \in S : x >= y
  BY <1>3, <1>4
<1> QED BY <1>5 DEF Max

-----------------------------------------------------------------------------
\* The highest height of a set of transactions.
LEMMA MaxOfHeights ==
  ASSUME NEW n \in Nat, NEW s \in SUBSET ((0..n) \X Nat), s # {}
  PROVE  /\ Max(HeightsOf(s)) \in 0..n
         /\ \E x \in s : x[1] = Max(HeightsOf(s))
         /\ \A x \in s : x[1] <= Max(HeightsOf(s))
<1>1. HeightsOf(s) \in SUBSET (0..n) /\ HeightsOf(s) # {}
  BY DEF HeightsOf
<1>2. Max(HeightsOf(s)) \in HeightsOf(s) /\ \A h \in HeightsOf(s) : Max(HeightsOf(s)) >= h
  BY <1>1, MaxOfBounded
<1> HIDE DEF Max
<1>3. \E x \in s : x[1] = Max(HeightsOf(s))
  BY <1>2 DEF HeightsOf
<1>4. \A x \in s : x[1] \in HeightsOf(s) /\ x[1] \in Int
  BY DEF HeightsOf
<1>5. Max(HeightsOf(s)) \in 0..n
  BY <1>1, <1>2
<1>6. \A x \in s : x[1] <= Max(HeightsOf(s))
  BY <1>2, <1>4, <1>5
<1> QED BY <1>3, <1>5, <1>6

\* The order of transactions is a strict total order.
LEMMA PrecedesOrder ==
  ASSUME NEW s \in SUBSET (Nat \X Nat)
  PROVE  /\ \A x \in s : ~ Precedes(x, x)
         /\ \A x, y \in s : x = y \/ Precedes(x, y) \/ Precedes(y, x)
         /\ \A x, y, z \in s : Precedes(x, y) /\ Precedes(y, z) => Precedes(x, z)
BY DEF Precedes

\* The rank of a transaction counts the ones before it, so it grows along the
\* order and stays below the number of all.
LEMMA RankGrows ==
  ASSUME NEW s \in SUBSET (Nat \X Nat), IsFiniteSet(s)
  PROVE  /\ \A x \in s : Rank(s, x) \in Nat /\ Rank(s, x) < Cardinality(s)
         /\ \A x, y \in s : Precedes(y, x) => Rank(s, y) < Rank(s, x)
<1> DEFINE Below(x) == {y \in s : Precedes(y, x)}
<1>1. \A x \in s : IsFiniteSet(Below(x)) /\ Rank(s, x) = Cardinality(Below(x))
  BY FS_Subset DEF Rank
<1>2. \A x \in s : Cardinality(Below(x)) \in Nat
  BY <1>1, FS_CardinalityType
<1>3. \A x \in s : Cardinality(Below(x)) < Cardinality(s)
  <2>1. TAKE x \in s
  <2>2. Below(x) \subseteq s /\ x \notin Below(x)
    BY PrecedesOrder
  <2>3. Cardinality(Below(x)) <= Cardinality(s) /\ Cardinality(Below(x)) # Cardinality(s)
    BY <2>2, FS_Subset
  <2> QED BY <1>2, <2>3, FS_CardinalityType
<1>4. ASSUME NEW x \in s, NEW y \in s, Precedes(y, x)
      PROVE  Cardinality(Below(y)) < Cardinality(Below(x))
  <2>1. Below(y) \subseteq Below(x)
    BY <1>4, PrecedesOrder
  <2>2. y \in Below(x) /\ y \notin Below(y)
    BY <1>4, PrecedesOrder
  <2>3. Cardinality(Below(y)) <= Cardinality(Below(x)) /\ Cardinality(Below(y)) # Cardinality(Below(x))
    BY <1>1, <2>1, <2>2, FS_Subset
  <2> QED BY <1>2, <2>3
<1> QED BY <1>1, <1>2, <1>3, <1>4

\* A cut leaves nothing out below what it keeps.
LEMMA FirstOfClosed ==
  ASSUME NEW s \in SUBSET (Nat \X Nat), IsFiniteSet(s), NEW n \in Int
  PROVE  /\ FirstOf(n, s) \subseteq s
         /\ \A x \in FirstOf(n, s), y \in s : y[1] < x[1] => y \in FirstOf(n, s)
<1>1. ASSUME NEW x \in FirstOf(n, s), NEW y \in s, y[1] < x[1]
      PROVE  y \in FirstOf(n, s)
  <2>1. x \in s /\ Precedes(y, x)
    BY <1>1 DEF FirstOf, Precedes
  <2>2. Rank(s, y) < Rank(s, x) /\ Rank(s, x) < n /\ Rank(s, x) \in Nat /\ Rank(s, y) \in Nat
    BY <2>1, RankGrows DEF FirstOf
  <2> QED BY <2>2 DEF FirstOf
<1> QED BY <1>1 DEF FirstOf

\* A cap that nothing exceeds cuts nothing.
LEMMA FirstOfAll ==
  ASSUME NEW s \in SUBSET (Nat \X Nat), IsFiniteSet(s), NEW n \in Int, Cardinality(s) <= n
  PROVE  FirstOf(n, s) = s
<1>1. \A x \in s : Rank(s, x) < n
  BY RankGrows, FS_CardinalityType
<1> QED BY <1>1 DEF FirstOf

\* A cut that gives up its last block keeps whole blocks, and every one of them
\* up to the last it keeps.
LEMMA CutIsWhole ==
  ASSUME NEW top \in Nat, NEW s \in SUBSET ((0..top) \X Nat), IsFiniteSet(s), NEW n \in Int,
         DropTrailingHeight(FirstOf(n, s)) # {}
  PROVE  /\ DropTrailingHeight(FirstOf(n, s)) \subseteq s
         /\ \A x \in s : x[1] <= Max(HeightsOf(DropTrailingHeight(FirstOf(n, s)))) =>
              x \in DropTrailingHeight(FirstOf(n, s))
<1> DEFINE first == FirstOf(n, s)
           got == DropTrailingHeight(first)
           last == Max(HeightsOf(first))
           m == Max(HeightsOf(got))
<1>1. first \subseteq s /\ \A x \in first, y \in s : y[1] < x[1] => y \in first
  BY FirstOfClosed
<1>2. got = {x \in first : x[1] # last} /\ got # {} /\ got \subseteq first
  BY DEF DropTrailingHeight
<1> HIDE DEF got
<1>3. m \in 0..top /\ \E y \in got : y[1] = m
  BY <1>1, <1>2, MaxOfHeights
<1>4. last \in 0..top /\ (\E z \in first : z[1] = last) /\ \A y \in first : y[1] <= last
  BY <1>1, <1>2, MaxOfHeights
<1>5. PICK y \in got : y[1] = m
  BY <1>3
<1>6. PICK z \in first : z[1] = last
  BY <1>4
<1>7. y \in first /\ y[1] # last /\ y[1] <= last
  BY <1>2, <1>4
<1>8. m < z[1]
  <2> HIDE DEF last, m, first
  <2> QED BY <1>3, <1>4, <1>5, <1>6, <1>7
<1>9. ASSUME NEW x \in s, x[1] <= m
      PROVE  x \in got
  <2>1. x[1] < z[1]
    <3> HIDE DEF m, first
    <3>1. x[1] \in Nat /\ m \in Nat /\ z[1] \in Nat
      BY <1>1, <1>3, <1>6
    <3> QED BY <1>8, <1>9, <3>1
  <2>2. x \in first
    BY <1>1, <2>1
  <2>3. x[1] # last
    <3> HIDE DEF last, first
    <3>1. x[1] \in Nat
      OBVIOUS
    <3> QED BY <1>6, <2>1, <3>1
  <2> QED BY <1>2, <2>2, <2>3
<1> QED BY <1>1, <1>2, <1>9 DEF got

\* A nonempty set of transactions has an earliest one.
LEMMA EarliestOf ==
  ASSUME NEW s \in SUBSET (Nat \X Nat), s # {}
  PROVE  Earliest(s) \in s /\ \A x \in s \ {Earliest(s)} : Precedes(Earliest(s), x)
<1> DEFINE H == {x[1] : x \in s}
           h == Min(H)
           I == {x[2] : x \in {y \in s : y[1] = h}}
           i == Min(I)
<1>1. h \in H /\ \A k \in H : h <= k
  <2>1. H \in SUBSET Nat /\ H # {}
    OBVIOUS
  <2> QED BY <2>1, MinOfNat
<1>2. i \in I /\ \A k \in I : i <= k
  <2>1. I \in SUBSET Nat /\ I # {}
    BY <1>1
  <2> QED BY <2>1, MinOfNat
<1>3. PICK e \in s : e[1] = h /\ e[2] = i
  BY <1>2
<1> HIDE DEF H, h, I, i
<1>4. \A x \in s \ {e} : Precedes(e, x)
  <2>1. TAKE x \in s \ {e}
  <2>2. x[1] \in Nat /\ x[2] \in Nat /\ e[1] \in Nat /\ e[2] \in Nat /\ x # e
    OBVIOUS
  <2>3. h <= x[1]
    BY <1>1 DEF H
  <2>4. x[1] = h => i <= x[2]
    BY <1>2 DEF I
  <2>5. x = <<x[1], x[2]>> /\ e = <<e[1], e[2]>>
    OBVIOUS
  <2>6. x[1] # e[1] \/ x[2] # e[2]
    BY <2>2, <2>5
  <2> QED BY <1>3, <2>2, <2>3, <2>4, <2>6 DEF Precedes
<1> QED BY <1>4 DEF Earliest
\* The order lists every transaction of a finite set, and nothing else.
LEMMA InOrderOf ==
  ASSUME NEW s \in SUBSET (Nat \X Nat), IsFiniteSet(s)
  PROVE  /\ InOrder(s) \in Seq(s) /\ Len(InOrder(s)) = Cardinality(s)
         /\ \A x \in s : \E i \in 1..Len(InOrder(s)) : InOrder(s)[i] = x
<1> DEFINE n == Cardinality(s)
           R == [x \in s |-> Rank(s, x)]
           T == 0..(n - 1)
<1>1. n \in Nat
  BY FS_CardinalityType
<1>2. \A x \in s : Rank(s, x) \in T
  BY <1>1, RankGrows
<1>3. \A x, y \in s : Rank(s, x) = Rank(s, y) => x = y
  BY PrecedesOrder, RankGrows
<1>4. IsFiniteSet(T) /\ Cardinality(T) = n
  <2> HIDE DEF n
  <2>1. 0 \in Int /\ n - 1 \in Int
    BY <1>1
  <2>2. /\ IsFiniteSet(0..(n - 1))
        /\ Cardinality(0..(n - 1)) = IF 0 > n - 1 THEN 0 ELSE (n - 1) - 0 + 1
    BY <2>1, FS_Interval, Zenon
  <2> QED BY <1>1, <2>2
<1> HIDE DEF n, T
<1>5. R \in Injection(s, T)
  <2>1. R \in [s -> T]
    BY <1>2
  <2>2. \A a, b \in DOMAIN R : R[a] = R[b] => a = b
    BY <1>3
  <2> HIDE DEF R
  <2> QED BY <2>1, <2>2 DEF Injection, IsInjective
<1>6. R \in Surjection(s, T)
  BY <1>4, <1>5, FS_Injection DEF n
<1>7. \A k \in T : \E x \in s : Rank(s, x) = k
  BY <1>6 DEF Surjection
<1>8. \A i \in 1..n : i - 1 \in T
  BY <1>1 DEF T
<1>9. \A i \in 1..n : InOrder(s)[i] \in s /\ Rank(s, InOrder(s)[i]) = i - 1
  <2>1. TAKE i \in 1..n
  <2>2. InOrder(s)[i] = CHOOSE x \in s : Rank(s, x) = i - 1
    BY DEF InOrder, n
  <2>3. \E x \in s : Rank(s, x) = i - 1
    BY <1>7, <1>8
  <2> QED BY <2>2, <2>3
<1>10. InOrder(s) = [i \in 1..n |-> InOrder(s)[i]]
  BY DEF InOrder, n
<1>11. InOrder(s) \in Seq(s) /\ Len(InOrder(s)) = n
  BY <1>1, <1>9, <1>10
<1>12. ASSUME NEW x \in s
       PROVE  \E i \in 1..n : InOrder(s)[i] = x
  <2>1. Rank(s, x) + 1 \in 1..n /\ Rank(s, x) \in Int
    BY <1>1, <1>2 DEF T
  <2>2. InOrder(s)[Rank(s, x) + 1] \in s /\ Rank(s, InOrder(s)[Rank(s, x) + 1]) = Rank(s, x)
    BY <1>9, <2>1
  <2> QED BY <1>3, <2>1, <2>2
<1> QED BY <1>11, <1>12 DEF n
=============================================================================
