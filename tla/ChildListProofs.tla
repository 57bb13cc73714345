------------------------- MODULE ChildListProofs -------------------------
(* What list::remove returns, for lists of any length: the facts about     *)
(* ChildList that the proofs about the scene graph rest on.                *)
EXTENDS ChildList, Integers, FiniteSetTheorems, WellFoundedInduction, TLAPS

\* Every non-empty set of naturals has a least element, so a property that
\* fails somewhere fails first somewhere.
LEMMA LeastNatural ==
    ASSUME NEW T \in SUBSET Nat, T # {}
    PROVE  \E x \in T : \A y \in T : x <= y
<1>1. PICK x \in T : \A y \in T : ~(<<y, x>> \in OpToRel(<, Nat))
    BY NatLessThanWellFounded, WFMin
<1>2. \A y \in T : ~(y < x)
    BY <1>1 DEF OpToRel
<1> QED BY <1>2

\* A set of positions of a list can be enumerated in increasing order.
LEMMA EnumerationExists ==
    ASSUME NEW n \in Nat, NEW P \in SUBSET (1..n)
    PROVE  \E f : Increasing(f, P)
<1> DEFINE Bad == {m \in Nat : \E Q \in SUBSET (1..m) : \A f : ~Increasing(f, Q)}
<1>1. SUFFICES Bad = {}
    OBVIOUS
<1>2. SUFFICES ASSUME Bad # {} PROVE FALSE
    OBVIOUS
<1>3. PICK m \in Bad : \A k \in Bad : m <= k
    BY <1>2, LeastNatural
<1>4. m \in Nat /\ m - 1 \notin Bad
    BY <1>3
<1>5. PICK Q \in SUBSET (1..m) : \A f : ~Increasing(f, Q)
    BY <1>3
<1>6. IsFiniteSet(Q) /\ Cardinality(Q) \in Nat
    <2>1. IsFiniteSet(1..m) BY <1>4, FS_Interval
    <2>2. IsFiniteSet(Q) BY <2>1, FS_Subset
    <2> QED BY <2>2, FS_CardinalityType
<1>7. CASE m \notin Q
    <2>1. Q \in SUBSET (1..(m-1)) BY <1>4, <1>7
    <2>2. m # 0
        <3>1. SUFFICES ASSUME m = 0 PROVE FALSE OBVIOUS
        <3>2. Q = {} BY <3>1
        <3>3. Cardinality(Q) = 0 BY <3>2, FS_EmptySet
        <3>4. Increasing([k \in {} |-> 0], Q) BY <3>2, <3>3 DEF Increasing
        <3> QED BY <3>4, <1>5
    <2> QED BY <1>4, <1>5, <2>1, <2>2
<1>8. CASE m \in Q
    <2> DEFINE R == Q \ {m}
               c == Cardinality(Q)
    <2>1. R \in SUBSET (1..(m-1)) /\ m - 1 \in Nat BY <1>4, <1>8
    <2>2. PICK f : Increasing(f, R) BY <1>4, <2>1
    <2>3. Cardinality(R) = c - 1 BY <1>6, <1>8, FS_RemoveElement
    <2>4. c # 0 BY <1>6, <1>8, FS_EmptySet
    <2> DEFINE g == [k \in 1..c |-> IF k = c THEN m ELSE f[k]]
    <2>5. \A k \in 1..c : k # c => k \in 1..Cardinality(R) /\ f[k] \in R
        <3>1. f \in [1..(c - 1) -> R] BY <2>2, <2>3 DEF Increasing
        <3> QED BY <3>1, <2>3, <1>6
    <2>6. g \in [1..c -> Q] BY <1>8, <2>5
    <2>7. \A j, k \in 1..c : j < k => g[j] < g[k]
        <3>1. SUFFICES ASSUME NEW j \in 1..c, NEW k \in 1..c, j < k
                       PROVE  g[j] < g[k]
            OBVIOUS
        <3>2. j # c /\ g[j] = f[j] /\ f[j] \in 1..(m-1)
            <4>1. j # c BY <3>1, <1>6
            <4>2. f[j] \in R BY <4>1, <2>5
            <4> HIDE DEF c, R
            <4>3. g[j] = f[j] BY <4>1
            <4> QED BY <4>1, <4>2, <4>3, <2>1
        <3>3. CASE k = c BY <3>2, <3>3, <1>4
        <3>4. CASE k # c BY <3>1, <3>2, <3>4, <2>2, <2>5 DEF Increasing
        <3> QED BY <3>3, <3>4
    <2>8. Increasing(g, Q) BY <2>6, <2>7 DEF Increasing
    <2> QED BY <2>8, <1>5
<1> QED BY <1>7, <1>8

\* list::remove(x): a list over the same set, without x, with everything
\* else, and with no pointer twice if there was none before.
LEMMA WithoutProperties ==
    ASSUME NEW S, NEW s \in Seq(S), NEW x
    PROVE  /\ Without(s, x) \in Seq(S)
           /\ \A i \in DOMAIN Without(s, x) :
                 Without(s, x)[i] # x /\ \E j \in DOMAIN s : s[j] = Without(s, x)[i]
           /\ \A j \in DOMAIN s : s[j] # x =>
                 \E i \in DOMAIN Without(s, x) : Without(s, x)[i] = s[j]
           /\ NoDuplicates(s) => NoDuplicates(Without(s, x))
<1> DEFINE kept == KeptPositions(s, x)
           n == Cardinality(kept)
           at == CHOOSE f \in [1..n -> kept] : Increasing(f, kept)
<1>1. kept \in SUBSET (1..Len(s)) /\ Len(s) \in Nat BY DEF KeptPositions
<1>2. IsFiniteSet(kept) /\ n \in Nat
    <2>1. IsFiniteSet(1..Len(s)) BY <1>1, FS_Interval
    <2>2. IsFiniteSet(kept) BY <1>1, <2>1, FS_Subset
    <2> QED BY <2>2, FS_CardinalityType
<1>3. Increasing(at, kept)
    <2>1. \E f \in [1..n -> kept] : Increasing(f, kept)
        BY <1>1, EnumerationExists DEF Increasing
    <2> QED BY <2>1
<1>4. Without(s, x) = [k \in 1..n |-> s[at[k]]] BY DEF Without
<1>5. \A k \in 1..n : at[k] \in DOMAIN s /\ s[at[k]] # x
    BY <1>3 DEF Increasing, KeptPositions
<1>6. Without(s, x) \in Seq(S) /\ DOMAIN Without(s, x) = 1..n
    <2>1. \A k \in 1..n : s[at[k]] \in S BY <1>5
    <2> HIDE DEF n, at
    <2>2. Without(s, x) \in [1..n -> S] BY <1>4, <2>1
    <2> QED BY <1>2, <2>2
<1>7. \A i \in 1..n : Without(s, x)[i] # x /\ \E j \in DOMAIN s : s[j] = Without(s, x)[i]
    BY <1>4, <1>5
<1>8. ASSUME NoDuplicates(s) PROVE NoDuplicates(Without(s, x))
    <2>1. SUFFICES ASSUME NEW i \in 1..n, NEW j \in 1..n, s[at[i]] = s[at[j]]
                   PROVE  i = j
        BY <1>4, <1>6 DEF NoDuplicates
    <2>2. at[i] = at[j] BY <2>1, <1>5, <1>8 DEF NoDuplicates
    <2>3. at[i] \in Nat /\ at[j] \in Nat BY <1>1, <1>5
    <2>4. \A j1, j2 \in 1..n : j1 < j2 => at[j1] < at[j2] BY <1>3 DEF Increasing
    <2> HIDE DEF n, at
    <2> QED BY <2>2, <2>3, <2>4, <1>2
<1>9. \A j \in DOMAIN s : s[j] # x => \E i \in 1..n : Without(s, x)[i] = s[j]
    <2>1. at \in [1..n -> kept] /\ \A j, k \in 1..n : j < k => at[j] < at[k]
        BY <1>3 DEF Increasing
    <2>2. \A j, k \in 1..n : at[j] = at[k] => j = k
        <3>1. \A k \in 1..n : at[k] \in Nat BY <1>1, <2>1
        <3> HIDE DEF n, at, kept
        <3> QED BY <2>1, <3>1, <1>2
    <2>3. at \in Injection(1..n, kept) BY <2>1, <2>2 DEF Injection, IsInjective
    <2>4. Cardinality(1..n) = n /\ IsFiniteSet(1..n) BY <1>2, FS_Interval
    <2>5. at \in Surjection(1..n, kept) BY <1>2, <2>3, <2>4, FS_Injection
    <2>6. \A j \in kept : \E i \in 1..n : at[i] = j BY <2>5 DEF Surjection
    <2>7. SUFFICES ASSUME NEW j \in DOMAIN s, s[j] # x
                   PROVE  \E i \in 1..n : Without(s, x)[i] = s[j]
        OBVIOUS
    <2>8. j \in kept BY <2>7 DEF KeptPositions
    <2>9. PICK i \in 1..n : at[i] = j BY <2>6, <2>8
    <2> HIDE DEF n, at, kept
    <2>10. Without(s, x)[i] = s[at[i]] BY <1>4
    <2> QED BY <2>9, <2>10
<1> QED BY <1>6, <1>7, <1>8, <1>9

\* list::remove of a pointer that is not there leaves the list as it is.
LEMMA WithoutAbsent ==
    ASSUME NEW S, NEW s \in Seq(S), NEW x, \A i \in DOMAIN s : s[i] # x
    PROVE  Without(s, x) = s
<1> DEFINE kept == KeptPositions(s, x)
           n == Cardinality(kept)
           at == CHOOSE f \in [1..n -> kept] : Increasing(f, kept)
<1>1. kept = 1..Len(s) /\ n = Len(s) /\ n \in Nat /\ DOMAIN s = 1..n
    <2>1. kept = 1..Len(s) /\ Len(s) \in Nat BY DEF KeptPositions
    <2> HIDE DEF kept
    <2>2. n = Len(s) BY <2>1, FS_Interval
    <2> QED BY <2>1, <2>2
<1>2. Without(s, x) = [k \in 1..n |-> s[at[k]]] BY DEF Without
<1>3. Increasing(at, kept)
    <2>1. \E f : Increasing(f, kept) BY <1>1, EnumerationExists
    <2>2. \E f \in [1..n -> kept] : Increasing(f, kept) BY <2>1 DEF Increasing
    <2> QED BY <2>2
<1>4. at \in [1..n -> kept] /\ \A j, k \in 1..n : j < k => at[j] < at[k]
    BY <1>3 DEF Increasing
<1> HIDE DEF n, at, kept
<1>5. at \in [1..n -> 1..n] /\ \A j, k \in 1..n : j < k => at[j] < at[k]
    BY <1>1, <1>4
<1>6. \A k \in 1..n : at[k] >= k
    <2> DEFINE Bad == {k \in 1..n : at[k] < k}
    <2>1. SUFFICES ASSUME Bad # {} PROVE FALSE
        BY <1>1, <1>5
    <2>2. PICK k \in Bad : \A j \in Bad : k <= j
        <3>1. Bad \in SUBSET Nat BY <1>1
        <3> HIDE DEF Bad
        <3> QED BY <2>1, <3>1, LeastNatural
    <2>3. k \in 1..n /\ at[k] < k /\ at[k] \in 1..n BY <1>5
    <2>4. k - 1 \in 1..n /\ k - 1 < k BY <1>1, <2>3
    <2>5. at[k-1] < at[k] /\ at[k-1] \in 1..n BY <1>5, <2>3, <2>4
    <2>6. ~(at[k-1] < k - 1) BY <1>1, <2>2, <2>3, <2>4
    <2> QED BY <1>1, <2>3, <2>4, <2>5, <2>6
<1>7. \A k \in 1..n : at[k] <= k
    <2> DEFINE Bad == {b \in 0..n : \E k \in 1..n : b = n - k /\ at[k] > k}
    <2>1. SUFFICES ASSUME NEW m \in 1..n, at[m] > m PROVE FALSE
        BY <1>1, <1>5
    <2>2. PICK b \in Bad : \A c \in Bad : b <= c
        <3>1. Bad \in SUBSET Nat /\ n - m \in Bad BY <1>1, <2>1
        <3> HIDE DEF Bad
        <3> QED BY <3>1, LeastNatural
    <2>3. PICK k \in 1..n : b = n - k /\ at[k] > k BY <2>2
    <2>4. at[k] \in 1..n /\ k + 1 \in 1..n BY <1>1, <1>5, <2>3
    <2>5. at[k] < at[k+1] /\ at[k+1] \in 1..n BY <1>1, <1>5, <2>4
    <2>6. ~(at[k+1] > k + 1)
        <3>1. n - (k + 1) \notin Bad
            <4>1. ~(n - k <= n - (k + 1)) BY <1>1
            <4> HIDE DEF Bad
            <4> QED BY <2>2, <2>3, <4>1
        <3>2. n - (k + 1) \in 0..n BY <1>1, <2>4
        <3> QED BY <2>4, <3>1, <3>2
    <2> QED BY <1>1, <2>3, <2>4, <2>5, <2>6
<1>8. \A k \in 1..n : at[k] = k BY <1>1, <1>5, <1>6, <1>7
<1>9. Without(s, x) = [k \in 1..n |-> s[k]] BY <1>2, <1>8
<1> QED BY <1>1, <1>9

\* list::remove of a pointer that is there leaves a shorter list.
LEMMA WithoutShrinks ==
    ASSUME NEW S, NEW s \in Seq(S), NEW x, NEW i \in DOMAIN s, s[i] = x
    PROVE  Len(Without(s, x)) < Len(s)
<1> DEFINE kept == KeptPositions(s, x)
           n == Cardinality(kept)
<1>1. /\ kept \in SUBSET (1..Len(s)) /\ kept # 1..Len(s) /\ Len(s) \in Nat
    BY DEF KeptPositions
<1>2. IsFiniteSet(1..Len(s)) /\ Cardinality(1..Len(s)) = Len(s)
    <2>1. ASSUME NEW m \in Nat PROVE IsFiniteSet(1..m) /\ Cardinality(1..m) = m
        BY FS_Interval
    <2>2. Len(s) \in Nat OBVIOUS
    <2> QED BY <2>1, <2>2
<1>3. n \in Nat /\ n < Len(s)
    <2>1. IsFiniteSet(kept) /\ n \in Nat BY <1>1, <1>2, FS_Subset, FS_CardinalityType
    <2>2. n <= Len(s) /\ n # Len(s) BY <1>1, <1>2, FS_Subset
    <2> QED BY <1>1, <2>1, <2>2
<1>4. DOMAIN Without(s, x) = 1..n BY DEF Without
<1>5. Without(s, x) \in Seq(S) BY WithoutProperties
<1> HIDE DEF n, kept
<1>6. Len(Without(s, x)) = n BY <1>3, <1>4, <1>5
<1> QED BY <1>3, <1>6
===========================================================================
