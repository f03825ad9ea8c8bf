---------------------------- MODULE RankTheorems ----------------------------
(***************************************************************************)
(* Facts about Ranks, and the least-number principle in the form the other *)
(* proofs use it: for a set of naturals instead of a predicate.            *)
(***************************************************************************)
EXTENDS Ranks, FunctionTheorems, FiniteSetTheorems, WellFoundedInduction, TLAPS

\* A non-empty set of naturals has a least element.
LEMMA LeastNat ==
  ASSUME NEW T, T \subseteq Nat, T # {}
  PROVE  \E m \in T : \A n \in T : m <= n
<1> DEFINE R == {ss \in Nat \X Nat : ss[1] < ss[2]}
<1>1. IsWellFoundedOn(R, Nat)
  BY NatLessThanWellFounded DEF OpToRel
<1>2. \A y, x \in T : y < x => <<y, x>> \in R
  OBVIOUS
<1> HIDE DEF R
<1>3. PICK x \in T : \A y \in T : ~ (<<y, x>> \in R)
  BY <1>1, WFMin
<1>4. ASSUME NEW y \in T PROVE x <= y
  <2>1. ~(y < x)
    BY <1>2, <1>3, Zenon
  <2>2. x \in Nat /\ y \in Nat
    OBVIOUS
  <2> QED
    BY <2>1, <2>2
<1> QED
  BY <1>4

\* Induction over the naturals: a set that holds 0 and, with each element, the
\* next one, holds them all.
LEMMA SetInduction ==
  ASSUME NEW S, 0 \in S, \A n \in Nat : n \in S => n + 1 \in S
  PROVE  Nat \subseteq S
<1> SUFFICES ASSUME Nat \ S # {} PROVE FALSE
  OBVIOUS
<1>1. PICK m \in Nat \ S : \A n \in Nat \ S : m <= n
  BY LeastNat
<1>2. m # 0 /\ m - 1 \in Nat /\ m - 1 \in S
  BY <1>1
<1> QED
  BY <1>2

\* An interval, and its size.
LEMMA IntervalSize ==
  ASSUME NEW a \in Nat, NEW b \in Nat, a <= b
  PROVE  IsFiniteSet(a .. b - 1) /\ Cardinality(a .. b - 1) = b - a
<1> DEFINE d == b - 1
<1>1. a \in Int /\ d \in Int /\ (IF a > d THEN 0 ELSE d - a + 1) = b - a
  OBVIOUS
<1> HIDE DEF d
<1>2. IsFiniteSet(a .. d) /\ Cardinality(a .. d) = IF a > d THEN 0 ELSE d - a + 1
  BY <1>1, FS_Interval
<1> QED
  BY <1>1, <1>2 DEF d

\* The first n numbers are n.
LEMMA FirstNumbers ==
  ASSUME NEW n \in Nat
  PROVE  IsFiniteSet(0 .. n - 1) /\ Cardinality(0 .. n - 1) = n
BY FS_Interval

\* More of the same makes more.
LEMMA MoreTimes ==
  ASSUME NEW a \in Nat, NEW b \in Nat, a <= b, NEW x \in Nat
  PROVE  a * x \in Nat /\ b * x \in Nat /\ a * x <= b * x
<1>1. b * x = a * x + (b - a) * x
  OBVIOUS
<1>2. \A m, n \in Nat : m * n \in Nat
  OBVIOUS
<1>3. a * x \in Nat /\ (b - a) * x \in Nat /\ b * x \in Nat
  BY <1>2
<1> QED
  BY <1>1, <1>3

-----------------------------------------------------------------------------
\* A rank counts at most the set, and fewer when it is an element's.
LEMMA RankRange ==
  ASSUME NEW S, S \subseteq Int, IsFiniteSet(S), NEW i \in Int
  PROVE  /\ Rank(S, i) \in 0 .. Cardinality(S)
         /\ i \in S => Rank(S, i) \in 0 .. Cardinality(S) - 1
<1> DEFINE B == {j \in S : j < i}
<1>1. IsFiniteSet(B) /\ Cardinality(B) \in Nat /\ Cardinality(B) <= Cardinality(S)
  BY FS_Subset, FS_CardinalityType
<1>2. Cardinality(S) \in Nat
  BY FS_CardinalityType
<1>3. ASSUME i \in S PROVE Cardinality(B) # Cardinality(S)
  <2>1. B # S /\ B \in SUBSET S
    BY <1>3
  <2> QED
    BY <2>1, FS_Subset
<1> QED
  BY <1>1, <1>2, <1>3 DEF Rank

\* Ranks grow with the elements they are taken of.
LEMMA RankGrows ==
  ASSUME NEW S, S \subseteq Int, IsFiniteSet(S), NEW i \in S, NEW j \in Int, i < j
  PROVE  Rank(S, i) < Rank(S, j)
<1> DEFINE A == {k \in S : k < i}
           B == {k \in S : k < j}
<1>1. IsFiniteSet(A) /\ IsFiniteSet(B) /\ Cardinality(A) \in Nat /\ Cardinality(B) \in Nat
  BY FS_Subset, FS_CardinalityType
<1>2. i \in Int
  OBVIOUS
<1>3. A \subseteq B /\ i \in B /\ i \notin A
  <2>1. \A k \in S : k \in Int /\ (k < i => k < j)
    BY <1>2
  <2>2. A \subseteq B
    BY <2>1
  <2>3. i \in B
    OBVIOUS
  <2>4. i \notin A
    BY <1>2
  <2> QED
    BY <2>2, <2>3, <2>4
<1>4. Cardinality(A) <= Cardinality(B) /\ Cardinality(A) # Cardinality(B)
  <2>1. A \in SUBSET B /\ A # B
    BY <1>3
  <2> HIDE DEF A, B
  <2> QED
    BY <1>1, <2>1, FS_Subset
<1> QED
  BY <1>1, <1>4 DEF Rank

\* Every number below the cardinality is the rank of an element: Rank is an
\* injection of S into as many numbers as S has elements.
LEMMA NthWorks ==
  ASSUME NEW S, S \subseteq Int, IsFiniteSet(S), NEW k \in 0 .. Cardinality(S) - 1
  PROVE  Nth(S, k) \in S /\ Rank(S, Nth(S, k)) = k
<1> DEFINE f == [i \in S |-> Rank(S, i)]
           T == 0 .. Cardinality(S) - 1
<1>1. Cardinality(S) \in Nat
  BY FS_CardinalityType
<1>2. f \in [S -> T]
  BY RankRange
<1>3. ASSUME NEW i \in S, NEW j \in S, f[i] = f[j] PROVE i = j
  <2>1. i \in Int /\ j \in Int
    OBVIOUS
  <2>0. Rank(S, i) \in Int /\ Rank(S, i) = Rank(S, j)
    <3>1. Rank(S, i) = Rank(S, j)
      BY <1>3
    <3>2. Rank(S, i) \in 0 .. Cardinality(S)
      BY <2>1, RankRange
    <3> QED
      BY <1>1, <3>1, <3>2
  <2>2. ~(i < j)
    <3> SUFFICES ASSUME i < j PROVE FALSE
      OBVIOUS
    <3>1. Rank(S, i) < Rank(S, j)
      BY <2>1, RankGrows
    <3> QED
      BY <2>0, <3>1
  <2>3. ~(j < i)
    <3> SUFFICES ASSUME j < i PROVE FALSE
      OBVIOUS
    <3>1. Rank(S, j) < Rank(S, i)
      BY <2>1, RankGrows
    <3> QED
      BY <2>0, <3>1
  <2> QED
    BY <2>1, <2>2, <2>3
<1>4. IsFiniteSet(T) /\ Cardinality(T) = Cardinality(S)
  BY <1>1, FS_Interval
<1> HIDE DEF f, T
<1>5. f \in Injection(S, T)
  BY <1>2, <1>3, Fun_IsInj
<1>6. f \in Surjection(S, T)
  BY <1>4, <1>5, FS_Injection
<1>7. \E i \in S : f[i] = k
  <2>1. k \in T
    BY DEF T
  <2>2. \A t \in T : \E s \in S : f[s] = t
    BY <1>6, Fun_SurjectionProperties
  <2> QED
    BY <2>1, <2>2
<1>8. \E i \in S : Rank(S, i) = k
  BY <1>7 DEF f
<1> HIDE DEF Rank
<1> QED
  BY <1>8 DEF Nth

\* Nth and Rank are inverse to each other.
LEMMA NthOfRank ==
  ASSUME NEW S, S \subseteq Int, IsFiniteSet(S), NEW i \in S
  PROVE  Nth(S, Rank(S, i)) = i
<1> DEFINE k == Rank(S, i)
           j == Nth(S, k)
<1>1. i \in Int /\ Cardinality(S) \in Nat
  BY FS_CardinalityType
<1>2. k \in 0 .. Cardinality(S) - 1
  BY <1>1, RankRange
<1> HIDE DEF k
<1>3. j \in S /\ Rank(S, j) = k /\ k \in Int
  <2>1. Nth(S, k) \in S /\ Rank(S, Nth(S, k)) = k
    BY <1>2, NthWorks
  <2>2. k \in Int
    BY <1>1, <1>2
  <2> QED
    BY <2>1, <2>2
<1>4. j \in Int /\ Rank(S, i) = k
  BY <1>3 DEF k
<1> HIDE DEF j
<1>5. ~(i < j)
  <2> SUFFICES ASSUME i < j PROVE FALSE
    OBVIOUS
  <2>1. Rank(S, i) < Rank(S, j)
    BY <1>4, RankGrows
  <2> QED
    BY <1>3, <1>4, <2>1
<1>6. ~(j < i)
  <2> SUFFICES ASSUME j < i PROVE FALSE
    OBVIOUS
  <2>1. Rank(S, j) < Rank(S, i)
    BY <1>1, <1>3, RankGrows
  <2> QED
    BY <1>3, <1>4, <2>1
<1>7. j = i
  BY <1>1, <1>4, <1>5, <1>6
<1> QED
  BY <1>7 DEF j, k

\* Nth ascends.
LEMMA NthGrows ==
  ASSUME NEW S, S \subseteq Int, IsFiniteSet(S),
         NEW k \in 0 .. Cardinality(S) - 1, NEW l \in 0 .. Cardinality(S) - 1, k < l
  PROVE  Nth(S, k) < Nth(S, l)
<1>1. /\ Nth(S, k) \in S /\ Nth(S, l) \in S
      /\ Rank(S, Nth(S, k)) = k /\ Rank(S, Nth(S, l)) = l
  BY NthWorks
<1>c. Cardinality(S) \in Nat
  BY FS_CardinalityType
<1>2. Nth(S, k) \in Int /\ Nth(S, l) \in Int /\ k \in Int /\ l \in Int
  <2>1. Nth(S, k) \in Int /\ Nth(S, l) \in Int
    BY <1>1, Zenon
  <2>2. k \in Int /\ l \in Int
    BY <1>c
  <2> QED
    BY <2>1, <2>2
<1>3. Nth(S, k) # Nth(S, l)
  BY <1>1, <1>2
<1>4. ~(Nth(S, l) < Nth(S, k))
  <2> SUFFICES ASSUME Nth(S, l) < Nth(S, k) PROVE FALSE
    OBVIOUS
  <2>1. Rank(S, Nth(S, l)) < Rank(S, Nth(S, k))
    BY <1>1, <1>2, RankGrows
  <2> QED
    BY <1>1, <1>2, <2>1
<1> QED
  BY <1>2, <1>3, <1>4

\* A set of naturals that has the first n of them numbers those by themselves.
LEMMA RankOfFirst ==
  ASSUME NEW S, S \subseteq Nat, IsFiniteSet(S), NEW n \in Nat, 0 .. n - 1 \subseteq S,
         NEW i \in 0 .. n
  PROVE  Rank(S, i) = i
<1>1. {j \in S : j < i} = 0 .. i - 1
  <2>1. \A j \in S : j < i => j \in 0 .. i - 1
    OBVIOUS
  <2>2. \A j \in 0 .. i - 1 : j \in S /\ j < i
    <3>1. \A j \in 0 .. i - 1 : j \in 0 .. n - 1 /\ j < i
      OBVIOUS
    <3> QED
      BY <3>1
  <2> QED
    BY <2>1, <2>2
<1>2. Cardinality(0 .. i - 1) = i
  BY FS_Interval
<1> QED
  BY <1>1, <1>2 DEF Rank

\* In a set that begins 0, 1, ... n-1, the i-th number is i.
LEMMA NthOfFirst ==
  ASSUME NEW S, S \subseteq Nat, IsFiniteSet(S), NEW n \in Nat, 0 .. n - 1 \subseteq S,
         NEW i \in 0 .. n - 1
  PROVE  Nth(S, i) = i
<1>1. i \in S /\ S \subseteq Int /\ i \in 0 .. n
  OBVIOUS
<1>2. Rank(S, i) = i
  BY <1>1, RankOfFirst
<1>3. Nth(S, Rank(S, i)) = i
  BY <1>1, NthOfRank
<1> QED
  BY <1>2, <1>3
-----------------------------------------------------------------------------
\* In a finite set with a strict total order, exactly n elements have fewer than n
\* ahead of them: what a partial sort cut at n leaves.
Leading(D, R, n) == {i \in D : Cardinality({j \in D : <<j, i>> \in R}) < n}

\* Leading(D, R, n) has n elements.
LEMMA CountAhead ==
  ASSUME NEW D, IsFiniteSet(D), NEW R,
         \A i \in D : <<i, i>> \notin R,
         \A i, j, k \in D : <<i, j>> \in R /\ <<j, k>> \in R => <<i, k>> \in R,
         \A i, j \in D : i # j => <<i, j>> \in R \/ <<j, i>> \in R,
         NEW n \in 0 .. Cardinality(D)
  PROVE  IsFiniteSet(Leading(D, R, n)) /\ Cardinality(Leading(D, R, n)) = n
<1> DEFINE A(i) == {j \in D : <<j, i>> \in R}
           f == [i \in D |-> Cardinality(A(i))]
           N == Cardinality(D)
           T == 0 .. N - 1
           K == {i \in D : Cardinality(A(i)) < n}
<1>1. N \in Nat /\ n \in Nat /\ n <= N
  <2>1. N \in Nat
    BY FS_CardinalityType
  <2> QED
    BY <2>1
<1>2. ASSUME NEW i \in D
      PROVE  IsFiniteSet(A(i)) /\ Cardinality(A(i)) \in T
  <2>1. A(i) \in SUBSET D /\ A(i) # D
    OBVIOUS
  <2> HIDE DEF A
  <2>2. IsFiniteSet(A(i)) /\ Cardinality(A(i)) <= N /\ Cardinality(A(i)) # N
    BY <2>1, FS_Subset
  <2>3. Cardinality(A(i)) \in Nat
    BY <2>2, FS_CardinalityType
  <2> QED
    BY <1>1, <2>2, <2>3
<1>3. ASSUME NEW i \in D, NEW j \in D, <<i, j>> \in R
      PROVE  Cardinality(A(i)) < Cardinality(A(j))
  <2>1. A(i) \in SUBSET A(j) /\ A(i) # A(j)
    BY <1>3
  <2>2. IsFiniteSet(A(i)) /\ IsFiniteSet(A(j)) /\ Cardinality(A(i)) \in Nat /\ Cardinality(A(j)) \in Nat
    BY <1>2, SMTT(30)
  <2> HIDE DEF A
  <2>3. Cardinality(A(i)) <= Cardinality(A(j)) /\ Cardinality(A(i)) # Cardinality(A(j))
    BY <2>1, <2>2, FS_Subset
  <2> QED
    BY <2>2, <2>3
<1> HIDE DEF A
<1>4. f \in [D -> T]
  BY <1>2
<1>5. ASSUME NEW i \in D, NEW j \in D, f[i] = f[j] PROVE i = j
  <2>1. Cardinality(A(i)) \in Nat /\ Cardinality(A(i)) = Cardinality(A(j))
    BY <1>2, <1>5
  <2>2. ~(<<i, j>> \in R)
    BY <1>3, <2>1
  <2>3. ~(<<j, i>> \in R)
    BY <1>3, <2>1
  <2> QED
    BY <2>2, <2>3
<1>6. IsFiniteSet(T) /\ Cardinality(T) = N
  BY <1>1, FirstNumbers
<1>7. f \in Surjection(D, T)
  <2> HIDE DEF f, T
  <2>1. f \in Injection(D, T)
    BY <1>4, <1>5, Fun_IsInj
  <2> QED
    BY <1>6, <2>1, FS_Injection
<1>8. \A v \in T : \E i \in D : Cardinality(A(i)) = v
  <2>1. \A v \in T : \E i \in D : f[i] = v
    <3> HIDE DEF f, T
    <3> QED
      BY <1>7, Fun_SurjectionProperties
  <2> QED
    BY <2>1
<1> DEFINE g == [i \in K |-> Cardinality(A(i))]
           U == 0 .. n - 1
<1>9. g \in [K -> U]
  <2>1. \A i \in K : Cardinality(A(i)) \in U
    BY <1>1, <1>2
  <2> QED
    BY <2>1
<1>10. \A i, j \in K : g[i] = g[j] => i = j
  <2>1. \A i \in K : g[i] = f[i] /\ i \in D
    OBVIOUS
  <2> HIDE DEF g, f, K
  <2> QED
    BY <1>5, <2>1
<1>11. \A v \in U : \E i \in K : g[i] = v
  <2> SUFFICES ASSUME NEW v \in U PROVE \E i \in K : g[i] = v
    OBVIOUS
  <2>1. v \in T /\ v < n
    BY <1>1
  <2>2. PICK i \in D : Cardinality(A(i)) = v
    BY <1>8, <2>1
  <2> QED
    BY <2>1, <2>2
<1>12. IsFiniteSet(K)
  <2>1. K \in SUBSET D
    OBVIOUS
  <2> QED
    BY <2>1, FS_Subset
<1>13. IsFiniteSet(U) /\ Cardinality(U) = n
  BY <1>1, FirstNumbers
<1>14. Cardinality(K) = Cardinality(U)
  <2> HIDE DEF K, U, g
  <2>1. g \in Bijection(K, U)
    BY <1>9, <1>10, <1>11, Fun_IsBij
  <2> QED
    BY <1>12, <2>1, FS_Bijection DEF ExistsBijection
<1> QED
  BY <1>12, <1>13, <1>14 DEF A, Leading

=============================================================================
