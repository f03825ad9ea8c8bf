-------------------------- MODULE TopKSelectProofs --------------------------
(***************************************************************************)
(* Proofs that the scoring of a row returns its k best tokens on every     *)
(* path: a heap per chunk, scanned one or four ids at a time, and merged;  *)
(* and what the backend and the fallback put in order.                     *)
(***************************************************************************)
EXTENDS TopKSelect, RankTheorems, SequenceTheorems

-----------------------------------------------------------------------------
(* The order of the tokens *)

\* A logit for every token.
RowOk == row \in [Ids -> {NegInf} \cup (0 .. Top)]

\* The tokens of S that come before v, and the first n of S.
Ahead(S, v) == {u \in S : HeapLess(u, v)}
First(S, n) == {v \in S : Cardinality(Ahead(S, v)) < n}

\* HeapLess is a strict total order: a tie goes to the lower id.
LEMMA HeapOrder ==
  ASSUME RowOk
  PROVE  /\ \A u \in Ids : ~HeapLess(u, u) /\ u \in Nat /\ row[u] \in Int
         /\ \A u, v, w \in Ids : HeapLess(u, v) /\ HeapLess(v, w) => HeapLess(u, w)
         /\ \A u, v \in Ids : u # v => HeapLess(u, v) \/ HeapLess(v, u)
         /\ \A u, v \in Ids : HeapLess(u, v) => row[u] >= row[v]
<1>1. \A u \in Ids : u \in Nat /\ row[u] \in Int
  BY TopKAssumption DEF Ids, RowOk, NegInf
<1> QED
  BY <1>1 DEF HeapLess

\* There are N tokens.
LEMMA IdSets ==
  ASSUME NEW S, S \subseteq Ids
  PROVE  /\ IsFiniteSet(S) /\ Cardinality(S) \in Nat /\ Cardinality(S) <= N
         /\ IsFiniteSet(Ids) /\ Cardinality(Ids) = N /\ N \in Nat
<1>1. N \in Nat
  BY TopKAssumption
<1>2. IsFiniteSet(Ids) /\ Cardinality(Ids) = N
  BY <1>1, FirstNumbers DEF Ids
<1>3. IsFiniteSet(S) /\ Cardinality(S) <= N
  BY <1>2, FS_Subset
<1> QED
  BY <1>1, <1>2, <1>3, FS_CardinalityType

\* Every place of a set is taken, by one token; the first n are n.
LEMMA Places ==
  ASSUME RowOk, NEW S, S \subseteq Ids
  PROVE  /\ \A v \in S : Cardinality(Ahead(S, v)) \in 0 .. Cardinality(S) - 1
         /\ \A u, v \in S : HeapLess(u, v) => Cardinality(Ahead(S, u)) < Cardinality(Ahead(S, v))
         /\ \A u, v \in S : Cardinality(Ahead(S, u)) = Cardinality(Ahead(S, v)) => u = v
         /\ \A n \in 0 .. Cardinality(S) : IsFiniteSet(First(S, n)) /\ Cardinality(First(S, n)) = n
         /\ \A j \in 0 .. Cardinality(S) - 1 : \E v \in S : Cardinality(Ahead(S, v)) = j
<1> DEFINE c(v) == Cardinality(Ahead(S, v))
           m == Cardinality(S)
           R == {p \in S \X S : HeapLess(p[1], p[2])}
<1>1. IsFiniteSet(S) /\ m \in Nat
  BY IdSets
<1>2. /\ \A u \in S : ~HeapLess(u, u)
      /\ \A u, v, w \in S : HeapLess(u, v) /\ HeapLess(v, w) => HeapLess(u, w)
      /\ \A u, v \in S : u # v => HeapLess(u, v) \/ HeapLess(v, u)
  BY HeapOrder
<1>3. ASSUME NEW v \in S
      PROVE  IsFiniteSet(Ahead(S, v)) /\ c(v) \in Nat /\ c(v) < m
  <2>1. Ahead(S, v) \subseteq S /\ v \notin Ahead(S, v)
    BY <1>2 DEF Ahead
  <2>2. IsFiniteSet(Ahead(S, v)) /\ c(v) <= m /\ c(v) # m
    BY <1>1, <2>1, FS_Subset
  <2>3. c(v) \in Nat
    BY <2>2, FS_CardinalityType
  <2> HIDE DEF c, m
  <2> QED
    BY <1>1, <2>2, <2>3
<1>4. ASSUME NEW u \in S, NEW v \in S, HeapLess(u, v) PROVE c(u) < c(v)
  <2>1. Ahead(S, u) \subseteq Ahead(S, v)
    BY <1>2, <1>4 DEF Ahead
  <2>2. u \in Ahead(S, v) /\ u \notin Ahead(S, u)
    BY <1>2, <1>4 DEF Ahead
  <2>3. IsFiniteSet(Ahead(S, v)) /\ c(u) \in Nat /\ c(v) \in Nat
    BY <1>3
  <2>4. c(u) <= c(v) /\ c(u) # c(v)
    BY <2>1, <2>2, <2>3, FS_Subset
  <2> HIDE DEF c
  <2> QED
    BY <2>3, <2>4
<1>5. ASSUME NEW u \in S, NEW v \in S, c(u) = c(v) PROVE u = v
  <2>1. ~HeapLess(u, v) /\ ~HeapLess(v, u)
    <3>1. c(u) \in Nat /\ ~(c(u) < c(v)) /\ ~(c(v) < c(u))
      BY <1>3, <1>5
    <3> HIDE DEF c
    <3> QED
      BY <1>4, <3>1
  <2> QED
    BY <1>2, <2>1
<1>6. ASSUME NEW n \in 0 .. m PROVE IsFiniteSet(First(S, n)) /\ Cardinality(First(S, n)) = n
  <2>1. \A u, v \in S : <<u, v>> \in R <=> HeapLess(u, v)
    OBVIOUS
  <2> HIDE DEF R
  <2>2. First(S, n) = Leading(S, R, n)
    <3>1. \A v \in S : Ahead(S, v) = {u \in S : <<u, v>> \in R}
      BY <2>1 DEF Ahead
    <3> QED
      BY <3>1 DEF First, Leading
  <2>3. /\ \A u \in S : <<u, u>> \notin R
        /\ \A u, v, w \in S : <<u, v>> \in R /\ <<v, w>> \in R => <<u, w>> \in R
        /\ \A u, v \in S : u # v => <<u, v>> \in R \/ <<v, u>> \in R
    BY <1>2, <2>1
  <2>4. IsFiniteSet(Leading(S, R, n)) /\ Cardinality(Leading(S, R, n)) = n
    BY <1>1, <2>3, CountAhead
  <2> QED
    BY <2>2, <2>4
<1>7. ASSUME NEW j \in 0 .. m - 1 PROVE \E v \in S : c(v) = j
  <2>1. j \in 0 .. m /\ j + 1 \in 0 .. m /\ j # j + 1
    BY <1>1
  <2>2. Cardinality(First(S, j)) = j /\ Cardinality(First(S, j + 1)) = j + 1
    BY <1>6, <2>1
  <2>3. First(S, j) # First(S, j + 1)
    BY <2>1, <2>2
  <2>4. PICK v : ~(v \in First(S, j) <=> v \in First(S, j + 1))
    BY <2>3
  <2>5. v \in S /\ ~(c(v) < j <=> c(v) < j + 1)
    BY <2>4 DEF First
  <2>6. c(v) \in Nat
    BY <1>3, <2>5
  <2> HIDE DEF c
  <2> QED
    BY <2>5, <2>6
<1>8. \A v \in S : c(v) \in 0 .. m - 1
  BY <1>1, <1>3
<1> QED
  BY <1>4, <1>5, <1>6, <1>7, <1>8

-----------------------------------------------------------------------------
(* The heap *)

\* The job.k best of the ids S, or all of them when there are fewer.
Best(top, S) ==
  /\ top \subseteq S
  /\ Cardinality(top) = IF Cardinality(S) < job.k THEN Cardinality(S) ELSE job.k
  /\ \A a \in top, b \in S \ top : HeapLess(a, b)

\* What a partial knows once the ids S have been scanned: the best of them and
\* their maximum.
Holds(p, S) ==
  /\ p \in [top : SUBSET Ids, max : Int, sum : {0}]
  /\ Best(p.top, S)
  /\ p.max >= NegInf
  /\ \A v \in S : row[v] <= p.max
  /\ p.max # NegInf => \E v \in S : row[v] = p.max

\* The front of a heap is the token all others come before.
LEMMA WeakestLast ==
  ASSUME RowOk, NEW S, S \subseteq Ids, S # {}
  PROVE  Weakest(S) \in S /\ \A a \in S \ {Weakest(S)} : HeapLess(a, Weakest(S))
<1> DEFINE m == Cardinality(S)
<1>1. IsFiniteSet(S) /\ m \in Nat /\ m # 0
  BY IdSets, FS_EmptySet
<1>2. PICK b \in S : Cardinality(Ahead(S, b)) = m - 1
  <2>1. m - 1 \in 0 .. m - 1
    BY <1>1
  <2> QED
    BY <2>1, Places
<1>3. ASSUME NEW a \in S \ {b} PROVE HeapLess(a, b)
  <2>1. Cardinality(Ahead(S, a)) \in 0 .. m - 1
    BY Places
  <2>2. Cardinality(Ahead(S, a)) # m - 1
    BY <1>2, Places
  <2>3. ~(m - 1 < Cardinality(Ahead(S, a)))
    BY <1>1, <2>1
  <2>4. ~HeapLess(b, a)
    BY <1>2, <2>3, Places
  <2> QED
    BY <2>4, HeapOrder
<1>4. \E x \in S : \A a \in S \ {x} : HeapLess(a, x)
  BY <1>3
<1> QED
  BY <1>4 DEF Weakest

\* A token that does not beat the front of a full heap is behind the whole of it.
LEMMA Beaten ==
  ASSUME RowOk, job.k \in 1 .. N, NEW S, S \subseteq Ids, NEW v \in Ids, \A u \in S : u < v,
         NEW top, top \subseteq S, Cardinality(top) = job.k, ~(row[v] > row[Weakest(top)])
  PROVE  \A a \in top : HeapLess(a, v)
<1>1. top # {} /\ top \subseteq Ids
  BY FS_EmptySet, TopKAssumption
<1>2. /\ Weakest(top) \in top /\ \A a \in top \ {Weakest(top)} : HeapLess(a, Weakest(top))
  BY <1>1, WeakestLast
<1>3. ASSUME NEW a \in top PROVE HeapLess(a, v)
  <2>1. a \in Ids /\ Weakest(top) \in Ids /\ a < v
    BY <1>1, <1>2
  <2>2. row[a] \in Int /\ row[v] \in Int /\ row[Weakest(top)] \in Int
    BY <2>1, HeapOrder
  <2>3. row[a] >= row[Weakest(top)]
    <3>1. CASE a = Weakest(top)
      BY <2>2, <3>1
    <3>2. CASE a # Weakest(top)
      BY <1>2, <2>1, <3>2, HeapOrder
    <3> QED
      BY <3>1, <3>2
  <2> QED
    BY <2>1, <2>2, <2>3 DEF HeapLess
<1> QED
  BY <1>3

\* scalar_step keeps the k best: a tie is won by the id that was there first.
LEMMA StepHolds ==
  ASSUME RowOk, job.k \in 1 .. N, NEW S, S \subseteq Ids, NEW v \in Ids, \A u \in S : u < v,
         NEW p, Holds(p, S)
  PROVE  Holds(ScalarStep(p, v), S \cup {v})
<1> DEFINE k == job.k
           q == ScalarStep(p, v)
           w == Weakest(p.top)
           S2 == S \cup {v}
<1>1. /\ p \in [top : SUBSET Ids, max : Int, sum : {0}] /\ p.top \subseteq S
      /\ Cardinality(p.top) = IF Cardinality(S) < k THEN Cardinality(S) ELSE k
      /\ \A a \in p.top, b \in S \ p.top : HeapLess(a, b)
      /\ p.max >= NegInf /\ \A u \in S : row[u] <= p.max
      /\ p.max # NegInf => \E u \in S : row[u] = p.max
  BY DEF Holds, Best
<1> DEFINE top2 == IF Cardinality(p.top) < k THEN p.top \cup {v}
                   ELSE IF row[v] > row[w] THEN (p.top \ {w}) \cup {v} ELSE p.top
<1>2. q \in [top : SUBSET S2, max : {Larger(p.max, row[v])}, sum : {0}] /\ q.top = top2
      /\ q.max = Larger(p.max, row[v]) /\ q.sum = 0
  <2>1. w \in p.top \/ w \notin p.top
    OBVIOUS
  <2>2. top2 \subseteq S2
    BY <1>1
  <2>3. q = [p EXCEPT !.max = Larger(p.max, row[v]), !.top = top2]
    BY <1>1 DEF ScalarStep
  <2> HIDE DEF q, top2, w
  <2> QED
    BY <1>1, <2>2, <2>3
<1> HIDE DEF q
<1>3. v \notin S /\ v \in Int /\ \A u \in S : u \in Int
  BY TopKAssumption DEF Ids
<1>4. /\ IsFiniteSet(S) /\ Cardinality(S) \in Nat /\ k \in Nat /\ k >= 1
      /\ Cardinality(S2) = Cardinality(S) + 1
  <2>1. IsFiniteSet(S) /\ Cardinality(S) \in Nat
    BY IdSets
  <2>2. Cardinality(S2) = Cardinality(S) + 1
    BY <1>3, <2>1, FS_AddElement
  <2> QED
    BY <2>1, <2>2, TopKAssumption
<1>5. IsFiniteSet(p.top) /\ Cardinality(p.top) \in Nat
  BY <1>1, <1>4, FS_Subset, FS_CardinalityType
<1>6. /\ q.max \in Int /\ q.max >= NegInf /\ \A u \in S2 : row[u] <= q.max
      /\ q.max # NegInf => \E u \in S2 : row[u] = q.max
  <2>1. /\ row[v] \in Int /\ p.max \in Int /\ NegInf \in Int /\ row[v] >= NegInf
        /\ \A u \in S : row[u] \in Int
    BY <1>1, TopKAssumption DEF RowOk, NegInf
  <2> QED
    BY <1>1, <1>2, <2>1 DEF Larger
<1>7. /\ Cardinality(top2) = IF Cardinality(S2) < k THEN Cardinality(S2) ELSE k
      /\ \A a \in top2, b \in S2 \ top2 : HeapLess(a, b)
  <2>1. CASE Cardinality(p.top) < k
    <3>1. Cardinality(p.top) = Cardinality(S)
      BY <1>1, <1>4, <2>1
    <3>2. p.top = S
      BY <1>1, <1>4, <3>1, FS_Subset
    <3>3. top2 = S2
      BY <2>1, <3>2
    <3>4. Cardinality(top2) = IF Cardinality(S2) < k THEN Cardinality(S2) ELSE k
      <4>1. Cardinality(S) < k /\ Cardinality(top2) = Cardinality(S2)
        BY <2>1, <3>1, <3>3
      <4> HIDE DEF top2, S2, k
      <4> QED
        BY <1>4, <4>1
    <3> QED
      BY <3>3, <3>4
  <2>2. CASE ~(Cardinality(p.top) < k)
    <3>1. Cardinality(p.top) = k /\ ~(Cardinality(S2) < k)
      <4> HIDE DEF S2, k
      <4> QED
        BY <1>1, <1>4, <1>5, <2>2
    <3>2. p.top # {} /\ p.top \subseteq Ids
      <4>1. Cardinality({}) = 0
        BY FS_EmptySet
      <4>2. ASSUME p.top = {} PROVE FALSE
        <5>1. Cardinality(p.top) = 0
          BY <4>1, <4>2
        <5>2. Cardinality(p.top) >= 1
          BY <1>4, <3>1
        <5> QED
          BY <5>1, <5>2
      <4> QED
        BY <1>1, <4>2
    <3>3. w \in p.top /\ \A a \in p.top \ {w} : HeapLess(a, w)
      BY <3>2, WeakestLast
    <3>4. CASE row[v] > row[w]
      <4>1. top2 = (p.top \ {w}) \cup {v}
        BY <2>2, <3>4
      <4>2. Cardinality(top2) = k
        <5>1. IsFiniteSet(p.top \ {w}) /\ Cardinality(p.top \ {w}) = k - 1
          BY <1>5, <3>1, <3>3, FS_RemoveElement
        <5>2. v \notin p.top \ {w}
          BY <1>1, <1>3
        <5>3. Cardinality((p.top \ {w}) \cup {v}) = (k - 1) + 1
          BY <5>1, <5>2, FS_AddElement
        <5> QED
          BY <1>4, <4>1, <5>3
      <4>3. ASSUME NEW a \in top2, NEW b \in S2 \ top2 PROVE HeapLess(a, b)
        <5>1. b \in S /\ (b = w \/ b \notin p.top)
          BY <4>1, <4>3
        <5>2. w \in Ids /\ b \in Ids /\ w \in S
          BY <1>1, <3>3, <5>1
        <5>3. b = w \/ HeapLess(w, b)
          BY <1>1, <3>3, <5>1
        <5>4. CASE a = v
          <6>1. row[w] >= row[b]
            <7>1. CASE b = w
              BY <5>2, <7>1, HeapOrder
            <7>2. CASE b # w
              BY <5>2, <5>3, <7>2, HeapOrder
            <7> QED
              BY <7>1, <7>2
          <6>2. row[v] \in Int /\ row[w] \in Int /\ row[b] \in Int
            BY <5>2, HeapOrder
          <6> QED
            BY <3>4, <5>4, <6>1, <6>2 DEF HeapLess
        <5>5. CASE a # v
          <6>1. a \in p.top \ {w} /\ a \in Ids
            BY <3>2, <4>1, <4>3, <5>5
          <6>2. HeapLess(a, w)
            BY <3>3, <6>1
          <6> QED
            BY <5>2, <5>3, <6>1, <6>2, HeapOrder
        <5> QED
          BY <5>4, <5>5
      <4> QED
        BY <3>1, <4>2, <4>3
    <3>5. CASE ~(row[v] > row[w])
      <4>1. top2 = p.top
        BY <2>2, <3>5
      <4>2. \A a \in p.top : HeapLess(a, v)
        BY <1>1, <3>1, <3>5, Beaten
      <4>3. \A b \in S2 \ p.top : b = v \/ b \in S \ p.top
        OBVIOUS
      <4> QED
        BY <1>1, <3>1, <4>1, <4>2, <4>3
    <3> QED
      BY <3>4, <3>5
  <2> QED
    BY <2>1, <2>2
<1>8. q \in [top : SUBSET Ids, max : Int, sum : {0}] /\ q.top \subseteq S2
  <2>1. S2 \subseteq Ids
    OBVIOUS
  <2> QED
    BY <1>2, <1>6, <2>1
<1> HIDE DEF top2, S2
<1>9. Holds(q, S2)
  BY <1>2, <1>6, <1>7, <1>8 DEF Holds, Best
<1> QED
  BY <1>9 DEF q, S2

-----------------------------------------------------------------------------
(* The chunks *)

\* The chunks follow each other from the first token to the last; the last ones
\* may be empty.
LEMMA Chunks ==
  ASSUME job.threads \in Nat \ {0}
  PROVE  /\ Begin(0) = 0 /\ Begin(job.threads) = N
         /\ \A c \in Nat : Begin(c) \in 0 .. N /\ Begin(c) <= Begin(c + 1)
<1> DEFINE m == job.threads
           s == (N + m - 1) \div m
<1>1. N \in Nat /\ N >= 1 /\ m \in Nat /\ m >= 1
  BY TopKAssumption
<1>2. s \in Nat /\ m * s >= N
  <2>1. (N + m - 1) \in Nat
    BY <1>1
  <2> DEFINE x == N + m - 1
  <2>2. x = m * (x \div m) + (x % m) /\ x % m \in 0 .. m - 1 /\ x \div m \in Nat
    BY <1>1, <2>1
  <2> DEFINE y == m * (x \div m)
  <2>3. y \in Int
    BY <1>1, <2>2
  <2>4. y >= N
    <3>1. x = y + (x % m) /\ x = N + m - 1
      BY <2>2
    <3> HIDE DEF y, x
    <3> QED
      BY <1>1, <2>2, <2>3, <3>1
  <2> QED
    BY <2>2, <2>4
<1>3. \A c : Begin(c) = IF c * s < N THEN c * s ELSE N
  BY DEF Begin
<1> HIDE DEF s, m
<1>4. Begin(0) = 0
  <2>1. 0 * s = 0
    BY <1>2
  <2> QED
    BY <1>1, <1>3, <2>1
<1>5. Begin(m) = N
  <2> DEFINE y == m * s
  <2>1. y \in Nat /\ y >= N
    BY <1>1, <1>2
  <2>2. Begin(m) = IF y < N THEN y ELSE N
    BY <1>3
  <2> HIDE DEF y
  <2> QED
    BY <1>1, <2>1, <2>2
<1>6. ASSUME NEW c \in Nat PROVE Begin(c) \in 0 .. N /\ Begin(c) <= Begin(c + 1)
  <2> DEFINE y == c * s
             x == (c + 1) * s
  <2>1. y \in Nat /\ x \in Nat /\ y <= x
    BY <1>2, MoreTimes
  <2>2. Begin(c) = (IF y < N THEN y ELSE N) /\ Begin(c + 1) = IF x < N THEN x ELSE N
    BY <1>3
  <2> HIDE DEF x, y
  <2> QED
    BY <1>1, <2>1, <2>2
<1> QED
  BY <1>4, <1>5, <1>6 DEF m

\* Every token is in some chunk.
LEMMA ChunksCover ==
  ASSUME job.threads \in Nat \ {0}, NEW v \in Ids
  PROVE  \E c \in 1 .. job.threads : v \in Begin(c - 1) .. Begin(c) - 1
<1> DEFINE T == {c \in Nat : v < Begin(c)}
<1>1. /\ Begin(0) = 0 /\ Begin(job.threads) = N
      /\ \A c \in Nat : Begin(c) \in 0 .. N /\ Begin(c) <= Begin(c + 1)
  BY Chunks
<1>2. v \in Nat /\ v < N /\ N \in Nat
  BY TopKAssumption DEF Ids
<1>3. job.threads \in T
  BY <1>1, <1>2
<1>4. PICK c \in T : \A d \in T : c <= d
  BY <1>3, LeastNat
<1>5. c \in Nat /\ c # 0 /\ v < Begin(c)
  BY <1>1, <1>2, <1>4
<1>6. c <= job.threads
  BY <1>3, <1>4
<1>7. c - 1 \in Nat /\ ~(c <= c - 1)
  BY <1>5
<1>8. ~(v < Begin(c - 1))
  BY <1>4, <1>7
<1>9. Begin(c) \in Nat /\ Begin(c - 1) \in Nat
  BY <1>1, <1>5, <1>7
<1>10. v \in Begin(c - 1) .. Begin(c) - 1
  BY <1>2, <1>5, <1>8, <1>9
<1>11. c \in 1 .. job.threads
  BY <1>5, <1>6
<1> QED
  BY <1>10, <1>11

-----------------------------------------------------------------------------
(* The merge *)

\* BestOf lists the first n of S, each at its place.
LEMMA Listed ==
  ASSUME RowOk, NEW S, S \subseteq Ids, NEW n \in 0 .. Cardinality(S)
  PROVE  /\ BestOf(S, n) = [j \in 1 .. n |-> BestOf(S, n)[j]]
         /\ \A j \in 1 .. n : /\ BestOf(S, n)[j] \in S
                              /\ Cardinality(Ahead(S, BestOf(S, n)[j])) = j - 1
         /\ \A v \in First(S, n) : \E j \in 1 .. n : BestOf(S, n)[j] = v
<1> DEFINE s == BestOf(S, n)
<1>1. Cardinality(S) \in Nat /\ n \in Nat /\ n <= Cardinality(S)
  BY IdSets
<1>2. s = [j \in 1 .. n |-> CHOOSE v \in S : Cardinality(Ahead(S, v)) = j - 1]
  BY DEF BestOf, Ahead
<1> HIDE DEF s
<1>3. ASSUME NEW j \in 1 .. n PROVE s[j] \in S /\ Cardinality(Ahead(S, s[j])) = j - 1
  <2>1. j - 1 \in 0 .. Cardinality(S) - 1
    BY <1>1
  <2>2. \E v \in S : Cardinality(Ahead(S, v)) = j - 1
    BY <2>1, Places
  <2>3. s[j] = CHOOSE v \in S : Cardinality(Ahead(S, v)) = j - 1
    BY <1>2
  <2> QED
    BY <2>2, <2>3
<1>4. ASSUME NEW v \in First(S, n) PROVE \E j \in 1 .. n : s[j] = v
  <2>1. v \in S /\ Cardinality(Ahead(S, v)) < n
    BY DEF First
  <2>2. Cardinality(Ahead(S, v)) \in 0 .. Cardinality(S) - 1
    BY <2>1, Places
  <2> DEFINE j == Cardinality(Ahead(S, v)) + 1
  <2>3. j \in 1 .. n /\ j - 1 = Cardinality(Ahead(S, v))
    BY <1>1, <2>1, <2>2
  <2> HIDE DEF j
  <2>4. s[j] \in S /\ Cardinality(Ahead(S, s[j])) = Cardinality(Ahead(S, v))
    BY <1>3, <2>3
  <2>5. s[j] = v
    BY <2>1, <2>4, Places
  <2> QED
    BY <2>3, <2>5
<1>5. s = [j \in 1 .. n |-> s[j]]
  BY <1>2
<1> QED
  BY <1>3, <1>4, <1>5 DEF s

\* What a heap holds are the first of what it has seen.
LEMMA BestIsFirst ==
  ASSUME RowOk, job.k \in 1 .. N, NEW S, S \subseteq Ids, NEW top, Best(top, S)
  PROVE  /\ Cardinality(top) \in 0 .. Cardinality(S)
         /\ top = First(S, Cardinality(top))
<1> DEFINE n == Cardinality(top)
<1>1. /\ top \subseteq S /\ n = IF Cardinality(S) < job.k THEN Cardinality(S) ELSE job.k
      /\ \A a \in top, b \in S \ top : HeapLess(a, b)
  BY DEF Best
<1>2. IsFiniteSet(S) /\ Cardinality(S) \in Nat /\ IsFiniteSet(top) /\ n \in Nat /\ n <= Cardinality(S)
  <2>1. IsFiniteSet(S) /\ Cardinality(S) \in Nat
    BY IdSets
  <2>2. top \subseteq Ids
    BY <1>1
  <2>3. IsFiniteSet(top) /\ n \in Nat
    BY <2>2, IdSets
  <2> QED
    BY <1>1, <2>1, <2>3, FS_Subset
<1>3. ASSUME NEW v \in top PROVE v \in First(S, n)
  <2>1. Ahead(S, v) \subseteq top \ {v}
    <3> SUFFICES ASSUME NEW u \in Ahead(S, v) PROVE u \in top \ {v}
      OBVIOUS
    <3>1. u \in S /\ HeapLess(u, v) /\ u \in Ids /\ v \in Ids /\ v \in S
      BY <1>1 DEF Ahead
    <3>2. u # v /\ ~HeapLess(v, u)
      BY <3>1, HeapOrder
    <3> QED
      BY <1>1, <3>1, <3>2
  <2>2. IsFiniteSet(top \ {v}) /\ Cardinality(top \ {v}) = n - 1
    BY <1>2, FS_RemoveElement
  <2>3. Cardinality(Ahead(S, v)) <= n - 1
    BY <2>1, <2>2, FS_Subset
  <2>4. Cardinality(Ahead(S, v)) \in 0 .. Cardinality(S) - 1
    BY <1>1, Places
  <2>5. Cardinality(Ahead(S, v)) < n
    BY <1>2, <2>3, <2>4
  <2> QED
    BY <1>1, <2>5 DEF First
<1>4. n \in 0 .. Cardinality(S)
  BY <1>2
<1>5. IsFiniteSet(First(S, n)) /\ Cardinality(First(S, n)) = n
  BY <1>4, Places
<1>6. top \subseteq First(S, n)
  BY <1>3
<1>7. top = First(S, n)
  BY <1>5, <1>6, FS_Subset
<1> QED
  BY <1>4, <1>7

\* The first k of the whole row are among the best of the chunks.
LEMMA NoneLost ==
  ASSUME RowOk, job.k \in 1 .. N, job.threads \in Nat \ {0}, NEW tops,
         \A c \in 1 .. job.threads : Best(tops[c], Begin(c - 1) .. Begin(c) - 1)
  PROVE  /\ UNION {tops[c] : c \in 1 .. job.threads} \subseteq Ids
         /\ First(Ids, job.k) \subseteq UNION {tops[c] : c \in 1 .. job.threads}
<1> DEFINE m == job.threads
           k == job.k
           chunk(c) == Begin(c - 1) .. Begin(c) - 1
<1>1. ASSUME NEW c \in 1 .. m PROVE chunk(c) \subseteq Ids
  <2>1. c \in Nat /\ c - 1 \in Nat
    BY <1>1
  <2>2. Begin(c - 1) \in 0 .. N /\ Begin(c) \in 0 .. N
    BY <2>1, Chunks
  <2> QED
    BY <2>2, TopKAssumption DEF Ids
<1>2. ASSUME NEW c \in 1 .. m PROVE tops[c] \subseteq chunk(c)
  BY <1>2 DEF Best
<1>3. ASSUME NEW v \in First(Ids, k) PROVE \E c \in 1 .. m : v \in tops[c]
  <2>1. v \in Ids /\ Cardinality(Ahead(Ids, v)) < k
    BY DEF First
  <2>2. PICK c \in 1 .. m : v \in chunk(c)
    BY <2>1, ChunksCover
  <2> DEFINE S == chunk(c)
             top == tops[c]
  <2>3. /\ top \subseteq S /\ Cardinality(top) = IF Cardinality(S) < k THEN Cardinality(S) ELSE k
        /\ \A a \in top, b \in S \ top : HeapLess(a, b)
    BY <2>2 DEF Best
  <2>4. S \subseteq Ids
    BY <1>1, <2>2
  <2>5. v \in S
    BY <2>2
  <2> HIDE DEF S, top
  <2>6. IsFiniteSet(S) /\ Cardinality(S) \in Nat
    BY <2>4, IdSets
  <2>7. ASSUME v \notin top PROVE FALSE
    <3>1. top # S
      BY <2>5, <2>7
    <3>2. Cardinality(top) # Cardinality(S)
      BY <2>3, <2>6, <3>1, FS_Subset
    <3>3. Cardinality(top) = k
      BY <2>3, <3>2
    <3>4. top \subseteq Ahead(Ids, v)
      BY <2>3, <2>4, <2>5, <2>7 DEF Ahead
    <3>5. IsFiniteSet(Ahead(Ids, v)) /\ Cardinality(Ahead(Ids, v)) \in Nat
      <4>1. Ahead(Ids, v) \subseteq Ids
        BY DEF Ahead
      <4> QED
        BY <4>1, IdSets
    <3>6. Cardinality(top) <= Cardinality(Ahead(Ids, v))
      BY <3>4, <3>5, FS_Subset
    <3>7. k \in Nat
      BY TopKAssumption
    <3> QED
      BY <2>1, <3>3, <3>5, <3>6, <3>7
  <2> QED
    BY <2>7 DEF top
<1>4. UNION {tops[c] : c \in 1 .. m} \subseteq Ids
  BY <1>1, <1>2
<1>5. First(Ids, k) \subseteq UNION {tops[c] : c \in 1 .. m}
  BY <1>3
<1> QED
  BY <1>4, <1>5

\* Tokens behind the first n do not change which are first.
LEMMA MergedBest ==
  ASSUME RowOk, NEW n \in 0 .. N, NEW U, U \subseteq Ids, First(Ids, n) \subseteq U
  PROVE  BestOf(U, n) = BestOf(Ids, n)
<1>1. /\ N \in Nat /\ n \in Nat /\ n <= N /\ Cardinality(Ids) = N /\ IsFiniteSet(U) /\ Ids \subseteq Ids
  BY IdSets
<1>2. ASSUME NEW v \in Ids, NEW u \in Ids, HeapLess(u, v), Cardinality(Ahead(Ids, v)) < n
      PROVE  u \in U
  <2>1. Cardinality(Ahead(Ids, u)) < Cardinality(Ahead(Ids, v))
    BY <1>1, <1>2, Places
  <2>2. Cardinality(Ahead(Ids, u)) \in Nat /\ Cardinality(Ahead(Ids, v)) \in Nat
    <3>1. Ahead(Ids, u) \subseteq Ids /\ Ahead(Ids, v) \subseteq Ids
      BY DEF Ahead
    <3> QED
      BY <3>1, IdSets
  <2>3. u \in First(Ids, n)
    BY <1>1, <1>2, <2>1, <2>2 DEF First
  <2> QED
    BY <2>3
<1>3. ASSUME NEW j \in 1 .. n
      PROVE  (CHOOSE v \in U : Cardinality(Ahead(U, v)) = j - 1)
               = CHOOSE v \in Ids : Cardinality(Ahead(Ids, v)) = j - 1
  <2>1. j - 1 \in 0 .. N - 1 /\ j - 1 < n
    BY <1>1
  <2>2. PICK w \in Ids : Cardinality(Ahead(Ids, w)) = j - 1
    BY <1>1, <2>1, Places
  <2>3. w \in U
    BY <2>1, <2>2 DEF First
  <2>4. Ahead(U, w) = Ahead(Ids, w)
    BY <1>2, <2>1, <2>2 DEF Ahead
  <2>5. \A v \in Ids : Cardinality(Ahead(Ids, v)) = j - 1 => v = w
    BY <1>1, <2>2, Places
  <2>6. \A v \in U : Cardinality(Ahead(U, v)) = j - 1 => v = w
    BY <2>2, <2>3, <2>4, Places
  <2>7. (CHOOSE v \in Ids : Cardinality(Ahead(Ids, v)) = j - 1) = w
    BY <2>2, <2>5
  <2>8. (CHOOSE v \in U : Cardinality(Ahead(U, v)) = j - 1) = w
    BY <2>2, <2>3, <2>4, <2>6
  <2> QED
    BY <2>7, <2>8
<1>4. /\ BestOf(U, n) = [j \in 1 .. n |-> CHOOSE v \in U : Cardinality(Ahead(U, v)) = j - 1]
      /\ BestOf(Ids, n) = [j \in 1 .. n |-> CHOOSE v \in Ids : Cardinality(Ahead(Ids, v)) = j - 1]
  BY DEF BestOf, Ahead
<1> QED
  BY <1>3, <1>4

\* A list of the first n of S is best first.
LEMMA ListedInOrder ==
  ASSUME RowOk, NEW S, S \subseteq Ids, NEW n \in 0 .. Cardinality(S), NEW s, s = BestOf(S, n),
         NEW w \in 1 .. n, NEW x \in 1 .. w, NEW b \in S, b \notin {s[j] : j \in 1 .. w}
  PROVE  s[x] \in S /\ row[s[x]] >= row[b]
<1>1. n \in Nat /\ w \in Nat /\ x \in 1 .. n /\ Cardinality(S) \in Nat /\ w <= n /\ n <= Cardinality(S)
  BY IdSets
<1>2. /\ \A j \in 1 .. n : s[j] \in S /\ Cardinality(Ahead(S, s[j])) = j - 1
      /\ \A m \in 0 .. Cardinality(S) : \A v \in First(S, m) : \E j \in 1 .. m : BestOf(S, m)[j] = v
  BY Listed
<1>3. Cardinality(Ahead(S, b)) \in 0 .. Cardinality(S) - 1
  BY Places
<1>4. ~(Cardinality(Ahead(S, b)) < w)
  <2> SUFFICES ASSUME Cardinality(Ahead(S, b)) < w PROVE FALSE
    OBVIOUS
  <2> DEFINE j == Cardinality(Ahead(S, b)) + 1
  <2>1. j \in 1 .. w /\ j \in 1 .. n /\ j - 1 = Cardinality(Ahead(S, b))
    BY <1>1, <1>3
  <2> HIDE DEF j
  <2>2. s[j] \in S /\ Cardinality(Ahead(S, s[j])) = Cardinality(Ahead(S, b))
    BY <1>2, <2>1
  <2>3. s[j] = b
    BY <2>2, Places
  <2> QED
    BY <2>1, <2>3
<1>5. s[x] \in S /\ Cardinality(Ahead(S, s[x])) = x - 1
  BY <1>1, <1>2
<1>6. ~(Cardinality(Ahead(S, b)) < Cardinality(Ahead(S, s[x])))
  BY <1>1, <1>3, <1>4, <1>5
<1>7. ~HeapLess(b, s[x])
  BY <1>5, <1>6, Places
<1>8. s[x] # b
  BY <1>1
<1>9. HeapLess(s[x], b)
  BY <1>5, <1>7, <1>8, HeapOrder
<1> QED
  BY <1>5, <1>9, HeapOrder

-----------------------------------------------------------------------------
(* The inductive invariant *)

\* The configuration of the scoring, and the steps its path can be at.
JobOk ==
  /\ RowOk
  /\ job.path \in {"host", "backend", "fallback"}
  /\ job.k \in 1 .. N
  /\ job.threads \in Nat \ {0}
  /\ pc \in {"scan", "merge"} => job.path = "host"
  /\ pc \in {"select", "readback"} => job.path # "host"

\* The chunk being scanned.
Scanning ==
  pc = "scan" =>
    /\ t \in 0 .. job.threads - 1
    /\ i \in Begin(t) .. End(t)
    /\ Holds(part, Begin(t) .. i - 1)

\* The chunks already scanned.
Scanned ==
  pc \in {"scan", "merge"} =>
    /\ t \in Nat
    /\ parts = [c \in 1 .. t |-> parts[c]]
    /\ \A c \in 1 .. t : Best(parts[c].top, Begin(c - 1) .. Begin(c) - 1)
    /\ pc = "merge" => t = job.threads

\* What the backend chose, in some order.
Chosen == pc = "readback" => \E S \in LargestSets(job.k) : cand \in SetToSeqs(S)

TInv == JobOk /\ Scanning /\ Scanned /\ Chosen /\ HostIsExact /\ PrefixesAreBest

\* Where a chunk's scan stands.
LEMMA Seen ==
  ASSUME job.threads \in Nat \ {0}, NEW c \in Nat, NEW v \in Begin(c) .. End(c)
  PROVE  /\ Begin(c) \in Nat /\ End(c) \in Nat /\ v \in Nat /\ End(c) <= N /\ Begin(c) <= End(c)
         /\ Begin(c) .. v - 1 \subseteq Ids
<1>1. Begin(c) \in 0 .. N /\ Begin(c) <= Begin(c + 1) /\ c + 1 \in Nat
  BY Chunks
<1>2. End(c) \in 0 .. N
  BY <1>1, Chunks DEF End
<1>3. N \in Nat /\ Ids = 0 .. N - 1 /\ Begin(c) <= End(c)
  BY <1>1, TopKAssumption DEF Ids, End
<1> QED
  BY <1>1, <1>2, <1>3

\* A heap that has seen nothing is empty.
LEMMA NothingHeld ==
  ASSUME RowOk, job.k \in 1 .. N
  PROVE  Holds(NoPart, {})
<1>1. Cardinality({}) = 0 /\ 0 < job.k
  BY FS_EmptySet
<1> QED
  BY <1>1 DEF Holds, Best, NoPart, NegInf

\* Four steps keep the best of four more ids.
LEMMA FourHold ==
  ASSUME RowOk, job.k \in 1 .. N, NEW a \in Nat, NEW v \in Nat, v + 3 < N,
         NEW p, Holds(p, a .. v - 1), a <= v
  PROVE  Holds(FourSteps(p, v), a .. (v + 4) - 1)
<1>1. N \in Nat
  BY TopKAssumption
<1>2. ASSUME NEW u \in Nat, u < N, a <= u, NEW q, Holds(q, a .. u - 1)
      PROVE  Holds(ScalarStep(q, u), a .. (u + 1) - 1)
  <2>1. a .. u - 1 \subseteq Ids /\ u \in Ids /\ \A x \in a .. u - 1 : x < u
    BY <1>1, <1>2 DEF Ids
  <2>2. (a .. u - 1) \cup {u} = a .. (u + 1) - 1
    BY <1>2
  <2>3. Holds(ScalarStep(q, u), (a .. u - 1) \cup {u})
    BY <1>2, <2>1, StepHolds
  <2> QED
    BY <2>2, <2>3
<1> DEFINE q1 == ScalarStep(p, v)
           q2 == ScalarStep(q1, v + 1)
           q3 == ScalarStep(q2, v + 2)
           q4 == ScalarStep(q3, v + 3)
<1>3. Holds(q1, a .. (v + 1) - 1)
  BY <1>1, <1>2
<1>4. Holds(q2, a .. ((v + 1) + 1) - 1)
  <2> HIDE DEF q1
  <2>1. v + 1 \in Nat /\ v + 1 < N /\ a <= v + 1
    BY <1>1
  <2> QED
    BY <1>2, <1>3, <2>1 DEF q2
<1>5. Holds(q3, a .. ((v + 2) + 1) - 1)
  <2> HIDE DEF q2
  <2>1. v + 2 \in Nat /\ v + 2 < N /\ a <= v + 2 /\ (v + 1) + 1 = v + 2
    BY <1>1
  <2> QED
    BY <1>2, <1>4, <2>1 DEF q3
<1>6. Holds(q4, a .. ((v + 3) + 1) - 1)
  <2> HIDE DEF q3
  <2>1. v + 3 \in Nat /\ v + 3 < N /\ a <= v + 3 /\ (v + 2) + 1 = v + 3
    BY <1>1
  <2> QED
    BY <1>2, <1>5, <2>1 DEF q4
<1>7. (v + 3) + 1 = v + 4
  OBVIOUS
<1>8. q4 = FourSteps(p, v)
  BY DEF FourSteps
<1> QED
  BY <1>6, <1>7, <1>8

\* A group none of whose lanes beats the front of a full heap: one maximum is
\* taken instead of four.
LEMMA LanesSkipped ==
  ASSUME RowOk, NEW v \in Nat, v + 3 < N, NEW p, p \in [top : SUBSET Ids, max : Int, sum : {0}],
         Cardinality(p.top) = job.k, job.k \in 1 .. N,
         \A u \in v .. v + 3 : ~(row[u] > row[Weakest(p.top)])
  PROVE  [p EXCEPT !.max = Larger(@, Max({row[u] : u \in v .. v + 3}))] = FourSteps(p, v)
<1> DEFINE R == {row[u] : u \in v .. v + 3}
           r0 == row[v]
           r1 == row[v + 1]
           r2 == row[v + 2]
           r3 == row[v + 3]
<1>1. N \in Nat /\ v .. v + 3 = {v, v + 1, v + 2, v + 3}
  BY TopKAssumption
<1>2. r0 \in Int /\ r1 \in Int /\ r2 \in Int /\ r3 \in Int /\ R = {r0, r1, r2, r3}
  <2>1. v \in Ids /\ v + 1 \in Ids /\ v + 2 \in Ids /\ v + 3 \in Ids
    BY <1>1 DEF Ids
  <2>2. r0 \in Int /\ r1 \in Int /\ r2 \in Int /\ r3 \in Int
    BY <2>1, HeapOrder
  <2>3. R = {r0, r1, r2, r3}
    BY <1>1
  <2> QED
    BY <2>2, <2>3
<1>3. ~(r0 > row[Weakest(p.top)]) /\ ~(r1 > row[Weakest(p.top)])
      /\ ~(r2 > row[Weakest(p.top)]) /\ ~(r3 > row[Weakest(p.top)])
  BY <1>1
<1> HIDE DEF R, r0, r1, r2, r3
<1>4. Max(R) \in {r0, r1, r2, r3} /\ Max(R) >= r0 /\ Max(R) >= r1 /\ Max(R) >= r2 /\ Max(R) >= r3
  <2>1. \E x \in R : \A y \in R : x >= y
    BY <1>2
  <2>2. Max(R) \in R /\ \A y \in R : Max(R) >= y
    BY <2>1 DEF Max
  <2> QED
    BY <1>2, <2>2
<1>5. p.max \in Int /\ ~(Cardinality(p.top) < job.k)
  BY TopKAssumption
<1>6. ASSUME NEW m, NEW u, ~(row[u] > row[Weakest(p.top)])
      PROVE  ScalarStep([p EXCEPT !.max = m], u) = [p EXCEPT !.max = Larger(m, row[u])]
  <2> DEFINE q == [p EXCEPT !.max = m]
             x == Larger(m, row[u])
  <2>1. q.top = p.top /\ q.max = m
    OBVIOUS
  <2>2. ScalarStep(q, u) = [q EXCEPT !.max = x, !.top = p.top]
    <3> HIDE DEF q
    <3> QED
      BY <1>5, <1>6, <2>1 DEF ScalarStep
  <2> HIDE DEF x
  <2>3. [q EXCEPT !.max = x, !.top = p.top] = [p EXCEPT !.max = x]
    OBVIOUS
  <2> QED
    BY <2>2, <2>3 DEF x
<1> DEFINE m1 == Larger(p.max, r0)
           m2 == Larger(m1, r1)
           m3 == Larger(m2, r2)
           m4 == Larger(m3, r3)
<1>7. FourSteps(p, v) = [p EXCEPT !.max = m4]
  <2>1. ScalarStep(p, v) = [p EXCEPT !.max = m1]
    <3>1. p = [p EXCEPT !.max = p.max]
      OBVIOUS
    <3> QED
      BY <1>3, <1>6, <3>1 DEF r0
  <2> HIDE DEF m1
  <2>2. ScalarStep(ScalarStep(p, v), v + 1) = [p EXCEPT !.max = m2]
    BY <1>3, <1>6, <2>1 DEF r1
  <2> HIDE DEF m2
  <2>3. ScalarStep(ScalarStep(ScalarStep(p, v), v + 1), v + 2) = [p EXCEPT !.max = m3]
    BY <1>3, <1>6, <2>2 DEF r2
  <2> HIDE DEF m3
  <2>4. FourSteps(p, v) = [p EXCEPT !.max = m4]
    BY <1>3, <1>6, <2>3 DEF r3, FourSteps
  <2> QED
    BY <2>4
<1>8. Larger(p.max, Max(R)) = m4
  BY <1>2, <1>4, <1>5 DEF Larger
<1> QED
  BY <1>7, <1>8 DEF R

-----------------------------------------------------------------------------
(* The steps *)

\* Nothing is scanned at first.
LEMMA TInvInit == Init => TInv
<1> SUFFICES ASSUME Init PROVE TInv
  OBVIOUS
<1>1. /\ row \in [Ids -> {NegInf} \cup (0 .. Top)]
      /\ job \in [path : {"host"}, k : Ks, threads : Threads, neon : BOOLEAN, cols : {1}]
            \cup [path : {"backend"}, k : Ks, threads : {1}, neon : {FALSE}, cols : ColLimits]
            \cup [path : {"fallback"}, k : Ks, threads : {1}, neon : {FALSE}, cols : {1}]
      /\ pc = IF job.path = "host" THEN "scan" ELSE "select"
      /\ t = 0 /\ i = 0 /\ part = NoPart /\ parts = <<>>
  BY DEF Init
<1>2. /\ job.path \in {"host", "backend", "fallback"} /\ job.k \in Ks
      /\ job.threads \in Threads \cup {1}
  BY <1>1
<1>3. JobOk
  <2>1. job.k \in 1 .. N /\ job.threads \in Nat \ {0}
    <3>1. Ks \subseteq 1 .. N /\ Threads \subseteq Nat \ {0}
      BY TopKAssumption
    <3>2. job.k \in 1 .. N
      BY <1>2, <3>1
    <3>3. job.threads \in Threads \/ job.threads = 1
      BY <1>2
    <3>4. 1 \in Nat \ {0}
      OBVIOUS
    <3>5. job.threads \in Nat \ {0}
      BY <3>1, <3>3, <3>4, Zenon
    <3> QED
      BY <3>2, <3>5
  <2>2. /\ pc \in {"scan", "merge"} => job.path = "host"
        /\ pc \in {"select", "readback"} => job.path # "host"
    BY <1>1
  <2> QED
    BY <1>1, <1>2, <2>1, <2>2 DEF JobOk, RowOk
<1>4. RowOk /\ job.k \in 1 .. N /\ job.threads \in Nat \ {0}
  BY <1>3 DEF JobOk
<1>5. Begin(0) = 0 /\ Begin(0) \in 0 .. N /\ Begin(0) <= Begin(0 + 1) /\ Begin(0 + 1) \in 0 .. N
  <2>1. 0 \in Nat /\ 0 + 1 \in Nat
    OBVIOUS
  <2> QED
    BY <1>4, <2>1, Chunks
<1>6. Begin(0) .. 0 - 1 = {}
  BY <1>5
<1>7. Scanning
  <2>1. t \in 0 .. job.threads - 1
    BY <1>1, <1>4
  <2>2. i \in Begin(t) .. End(t)
    BY <1>1, <1>5 DEF End
  <2>3. Holds(part, Begin(t) .. i - 1)
    BY <1>1, <1>4, <1>6, NothingHeld
  <2> QED
    BY <2>1, <2>2, <2>3 DEF Scanning
<1>8. Scanned
  <2>1. 1 .. 0 = {} /\ t \in Nat /\ 1 .. t = {}
    BY <1>1
  <2>2. parts = [c \in 1 .. t |-> parts[c]]
    BY <1>1, <2>1
  <2>3. pc # "merge"
    BY <1>1
  <2> QED
    BY <2>1, <2>2, <2>3 DEF Scanned
<1>9. pc # "readback" /\ pc # "done"
  BY <1>1
<1> QED
  BY <1>3, <1>7, <1>8, <1>9 DEF TInv, Chosen, HostIsExact, PrefixesAreBest

\* Scanning one id, or four, keeps the heap.
LEMMA ScanKept ==
  ASSUME TInv, ScanOne \/ ScanFour
  PROVE  TInv'
<1>1. /\ JobOk /\ Scanning /\ Scanned /\ RowOk /\ job.k \in 1 .. N /\ job.threads \in Nat \ {0}
  BY DEF TInv, JobOk
<1>2. pc = "scan" /\ UNCHANGED <<row, job, pc, t, parts, cand, z>>
  BY DEF ScanOne, ScanFour
<1>3. t \in 0 .. job.threads - 1 /\ i \in Begin(t) .. End(t) /\ Holds(part, Begin(t) .. i - 1) /\ t \in Nat
  BY <1>1, <1>2 DEF Scanning
<1>4. /\ Begin(t) \in Nat /\ End(t) \in Nat /\ i \in Nat /\ End(t) <= N /\ Begin(t) <= i /\ i <= End(t)
      /\ Begin(t) .. i - 1 \subseteq Ids /\ N \in Nat
  BY <1>1, <1>3, Seen, TopKAssumption
<1>5. i' \in Begin(t) .. End(t) /\ Holds(part', Begin(t) .. i' - 1)
  <2>1. CASE ScanOne
    <3>1. i < End(t) /\ part' = ScalarStep(part, i) /\ i' = i + 1
      BY <2>1 DEF ScanOne
    <3>2. i \in Ids /\ \A u \in Begin(t) .. i - 1 : u < i
      BY <1>4, <3>1 DEF Ids
    <3>3. (Begin(t) .. i - 1) \cup {i} = Begin(t) .. (i + 1) - 1
      BY <1>4
    <3>4. Holds(part', (Begin(t) .. i - 1) \cup {i})
      BY <1>1, <1>3, <1>4, <3>1, <3>2, StepHolds
    <3>5. i' \in Begin(t) .. End(t)
      BY <1>4, <3>1
    <3> QED
      BY <3>1, <3>3, <3>4, <3>5
  <2>2. CASE ScanFour
    <3>1. Cardinality(part.top) = job.k /\ i + 3 < End(t) /\ i' = i + 4
      BY <2>2 DEF ScanFour, Grouped
    <3>2. part' = FourSteps(part, i)
      <4>1. CASE \E v \in i .. i + 3 : row[v] > row[Weakest(part.top)]
        BY <2>2, <4>1 DEF ScanFour
      <4>2. CASE ~\E v \in i .. i + 3 : row[v] > row[Weakest(part.top)]
        <5>1. part' = [part EXCEPT !.max = Larger(@, Max({row[v] : v \in i .. i + 3}))]
          BY <2>2, <4>2 DEF ScanFour
        <5>2. part \in [top : SUBSET Ids, max : Int, sum : {0}]
          BY <1>3 DEF Holds
        <5>3. i + 3 < N
          BY <1>4, <3>1
        <5>4. \A u \in i .. i + 3 : ~(row[u] > row[Weakest(part.top)])
          BY <4>2
        <5>5. [part EXCEPT !.max = Larger(@, Max({row[u] : u \in i .. i + 3}))] = FourSteps(part, i)
          BY <1>1, <1>4, <3>1, <5>2, <5>3, <5>4, LanesSkipped
        <5> QED
          BY <5>1, <5>5
      <4> QED
        BY <4>1, <4>2
    <3>3. i + 3 < N
      BY <1>4, <3>1
    <3>4. Holds(FourSteps(part, i), Begin(t) .. (i + 4) - 1)
      BY <1>1, <1>3, <1>4, <3>3, FourHold
    <3>5. i' \in Begin(t) .. End(t)
      BY <1>4, <3>1
    <3> QED
      BY <3>1, <3>2, <3>4, <3>5
  <2> QED
    BY <2>1, <2>2
<1>6. JobOk'
  BY <1>1, <1>2 DEF JobOk, RowOk
<1>7. Scanning'
  BY <1>2, <1>3, <1>5 DEF Scanning, Holds, Best, HeapLess, Begin, End
<1>8. Scanned'
  BY <1>1, <1>2 DEF Scanned, Best, HeapLess, Begin
<1>9. pc' # "readback" /\ pc' # "done"
  BY <1>2
<1> QED
  BY <1>6, <1>7, <1>8, <1>9 DEF TInv, Chosen, HostIsExact, PrefixesAreBest

\* A chunk scanned to its end is put with the others.
LEMMA SumKept ==
  ASSUME TInv, SumChunk
  PROVE  TInv'
<1>1. /\ JobOk /\ Scanning /\ Scanned /\ RowOk /\ job.k \in 1 .. N /\ job.threads \in Nat \ {0}
  BY DEF TInv, JobOk
<1>2. /\ pc = "scan" /\ i = End(t) /\ part' = NoPart /\ t' = t + 1 /\ i' = Begin(t + 1)
      /\ parts' = Append(parts, [part EXCEPT !.sum = ChunkSum])
      /\ pc' = (IF t' = job.threads THEN "merge" ELSE "scan")
      /\ row' = row /\ job' = job
  BY DEF SumChunk
<1>3. t \in 0 .. job.threads - 1 /\ Holds(part, Begin(t) .. i - 1) /\ t \in Nat
  BY <1>1, <1>2 DEF Scanning
<1>4. /\ parts = [c \in 1 .. t |-> parts[c]]
      /\ \A c \in 1 .. t : Best(parts[c].top, Begin(c - 1) .. Begin(c) - 1)
  BY <1>1, <1>2 DEF Scanned
<1>5. Begin(t + 1) \in 0 .. N /\ Begin(t + 1) <= Begin((t + 1) + 1)
  <2>1. t + 1 \in Nat
    BY <1>3
  <2> QED
    BY <1>1, <2>1, Chunks
<1>6. JobOk'
  BY <1>1, <1>2 DEF JobOk, RowOk
<1>7. Scanning'
  <2> SUFFICES ASSUME pc' = "scan" PROVE Scanning'
    BY DEF Scanning
  <2>1. t' # job.threads /\ t' \in 0 .. job.threads - 1
    BY <1>1, <1>2, <1>3
  <2>2. i' \in Begin(t') .. End(t')
    <3>1. Begin(t + 1) \in Nat /\ Begin((t + 1) + 1) \in Nat
      <4>1. t + 1 \in Nat /\ (t + 1) + 1 \in Nat
        BY <1>3
      <4>2. N \in Nat
        BY TopKAssumption
      <4> QED
        BY <1>1, <4>1, <4>2, Chunks
    <3> QED
      BY <1>2, <1>5, <3>1 DEF End
  <2>3. Holds(part', Begin(t') .. i' - 1)
    <3>1. Begin(t + 1) .. Begin(t + 1) - 1 = {}
      BY <1>5
    <3> QED
      BY <1>1, <1>2, <3>1, NothingHeld
  <2> QED
    BY <1>2, <2>1, <2>2, <2>3 DEF Scanning, Holds, Best, HeapLess, Begin, End
<1>8. Scanned'
  <2> DEFINE e == [part EXCEPT !.sum = ChunkSum]
             X == {parts[c] : c \in 1 .. t} \cup {e}
  <2>1. e.top = part.top
    <3>1. part \in [top : SUBSET Ids, max : Int, sum : {0}]
      BY <1>3 DEF Holds
    <3> QED
      BY <3>1
  <2>2. parts' = Append(parts, e)
    BY <1>2
  <2> HIDE DEF e
  <2>3. parts \in Seq(X) /\ Len(parts) = t /\ e \in X
    <3>1. parts \in [1 .. t -> X]
      BY <1>4
    <3> HIDE DEF X
    <3>2. parts \in Seq(X) /\ Len(parts) = t
      BY <1>3, <3>1
    <3> QED
      BY <3>2 DEF X
  <2> HIDE DEF X
  <2>4. /\ parts' \in Seq(X) /\ Len(parts') = t + 1
        /\ \A c \in 1 .. t : parts'[c] = parts[c]
        /\ parts'[t + 1] = e
    BY <2>2, <2>3, AppendProperties
  <2>5. parts' = [c \in 1 .. t + 1 |-> parts'[c]]
    BY <2>4
  <2>6. ASSUME NEW c \in 1 .. t + 1
        PROVE  Best(parts'[c].top, Begin(c - 1) .. Begin(c) - 1)
    <3>1. CASE c \in 1 .. t
      BY <1>4, <2>4, <3>1
    <3>2. CASE c = t + 1
      <4>1. Best(part.top, Begin(t) .. Begin(t + 1) - 1)
        BY <1>2, <1>3 DEF Holds, End
      <4>2. parts'[c].top = part.top /\ c - 1 = t
        BY <1>3, <2>1, <2>4, <3>2
      <4> QED
        BY <3>2, <4>1, <4>2
    <3> QED
      BY <1>3, <3>1, <3>2
  <2>7. t' \in Nat /\ (pc' = "merge" => t' = job'.threads)
    BY <1>2, <1>3
  <2> QED
    BY <1>2, <2>5, <2>6, <2>7 DEF Scanned, Best, HeapLess, Begin
<1>9. pc' # "readback" /\ pc' # "done"
  BY <1>2
<1> QED
  BY <1>6, <1>7, <1>8, <1>9 DEF TInv, Chosen, HostIsExact, PrefixesAreBest

\* A list of a chosen set has all of it.
LEMMA ListsAll ==
  ASSUME job.k \in 1 .. N, NEW S \in LargestSets(job.k), NEW s \in SetToSeqs(S)
  PROVE  /\ S \subseteq Ids /\ Cardinality(S) = job.k
         /\ \A a \in S, b \in Ids \ S : row[a] >= row[b]
         /\ DOMAIN s = 1 .. job.k /\ \A j \in 1 .. job.k : s[j] \in S
         /\ \A v \in S : \E j \in 1 .. job.k : s[j] = v
         /\ ToSet(s) = S
<1> DEFINE k == job.k
<1>1. S \subseteq Ids /\ Cardinality(S) = k /\ \A a \in S, b \in Ids \ S : row[a] >= row[b]
  BY DEF LargestSets, kSubset
<1>2. s \in [1 .. k -> S] /\ \A x, y \in 1 .. k : x # y => s[x] # s[y]
  BY <1>1 DEF SetToSeqs
<1> HIDE DEF k
<1>3. s \in Injection(1 .. k, S)
  BY <1>2, Zenon DEF Injection, IsInjective
<1>4. IsFiniteSet(S) /\ Cardinality(1 .. k) = Cardinality(S)
  <2>1. k \in Nat
    BY TopKAssumption DEF k
  <2> QED
    BY <1>1, <2>1, IdSets, FS_Interval
<1>5. s \in Surjection(1 .. k, S)
  BY <1>3, <1>4, FS_Injection
<1>6. \A v \in S : \E j \in 1 .. k : s[j] = v
  BY <1>5 DEF Surjection
<1>7. DOMAIN s = 1 .. k /\ \A j \in 1 .. k : s[j] \in S
  BY <1>2
<1>8. ToSet(s) = S
  BY <1>6, <1>7, Zenon DEF ToSet
<1> QED
  BY <1>1, <1>6, <1>7, <1>8 DEF k

\* The first w of the best are w best tokens, when the set they are the best of
\* has no worse token than any other.
LEMMA BestPrefixes ==
  ASSUME RowOk, job.k \in 1 .. N, NEW S, S \subseteq Ids, job.k <= Cardinality(S),
         \A a \in S, b \in Ids \ S : row[a] >= row[b], NEW s, s = BestOf(S, job.k)
  PROVE  \A w \in 1 .. job.k :
           \A a \in {s[j] : j \in 1 .. w}, b \in Ids \ {s[j] : j \in 1 .. w} : row[a] >= row[b]
<1> SUFFICES ASSUME NEW w \in 1 .. job.k, NEW x \in 1 .. w, NEW b \in Ids,
                    b \notin {s[j] : j \in 1 .. w}
             PROVE  row[s[x]] >= row[b]
  OBVIOUS
<1>1. job.k \in 0 .. Cardinality(S) /\ x \in 1 .. job.k
  <2>1. Cardinality(S) \in Nat
    BY IdSets
  <2> QED
    BY <2>1, TopKAssumption
<1>2. CASE b \in S
  BY <1>1, <1>2, ListedInOrder
<1>3. CASE b \notin S
  <2>1. s[x] \in S
    BY <1>1, Listed
  <2> QED
    BY <1>3, <2>1
<1> QED
  BY <1>2, <1>3

\* The best of a row are the same as long as the row is.
LEMMA SameBest ==
  ASSUME UNCHANGED <<row, job>>
  PROVE  BestOf(Ids, job.k)' = BestOf(Ids, job.k)
<1> DEFINE B(r, k) == [j \in 1 .. k |-> CHOOSE v \in Ids :
                         Cardinality({u \in Ids : r[u] > r[v] \/ (r[u] = r[v] /\ u < v)}) = j - 1]
<1>1. BestOf(Ids, job.k) = B(row, job.k)
  BY DEF BestOf, HeapLess
<1>2. BestOf(Ids, job.k)' = B(row', job'.k)
  BY DEF BestOf, HeapLess
<1> HIDE DEF B
<1> QED
  BY <1>1, <1>2

\* Merging the chunks' heaps gives the best of the row.
LEMMA MergeKept ==
  ASSUME TInv, Merge
  PROVE  TInv'
<1>1. /\ JobOk /\ Scanned /\ RowOk /\ job.k \in 1 .. N /\ job.threads \in Nat \ {0}
  BY DEF TInv, JobOk
<1>2. /\ pc = "merge" /\ cand' = BestOf(UNION {parts[c].top : c \in DOMAIN parts}, job.k)
      /\ pc' = "done" /\ UNCHANGED <<row, job, t, i, part, parts>>
  BY DEF Merge
<1>3. /\ parts = [c \in 1 .. job.threads |-> parts[c]]
      /\ \A c \in 1 .. job.threads : Best(parts[c].top, Begin(c - 1) .. Begin(c) - 1)
  BY <1>1, <1>2 DEF Scanned
<1> DEFINE tops == [c \in 1 .. job.threads |-> parts[c].top]
           U == UNION {tops[c] : c \in 1 .. job.threads}
<1>4. \A c \in 1 .. job.threads : Best(tops[c], Begin(c - 1) .. Begin(c) - 1)
  BY <1>3
<1>5. UNION {parts[c].top : c \in DOMAIN parts} = U
  <2>1. DOMAIN parts = 1 .. job.threads
    BY <1>3
  <2> QED
    BY <2>1
<1> HIDE DEF tops
<1>6. U \subseteq Ids /\ First(Ids, job.k) \subseteq U
  BY <1>1, <1>4, NoneLost
<1>7. job.k \in 0 .. N /\ N \in Nat /\ Cardinality(Ids) = N /\ job.k <= N
  BY <1>1, TopKAssumption, IdSets
<1>8. cand' = BestOf(Ids, job.k)
  <2>1. BestOf(U, job.k) = BestOf(Ids, job.k)
    BY <1>1, <1>6, <1>7, MergedBest
  <2> QED
    BY <1>2, <1>5, <2>1
<1>9. \A w \in 1 .. job.k :
        \A a \in {cand'[j] : j \in 1 .. w}, b \in Ids \ {cand'[j] : j \in 1 .. w} : row[a] >= row[b]
  <2>1. Ids \subseteq Ids /\ Ids \ Ids = {} /\ job.k <= Cardinality(Ids)
    BY <1>7
  <2> QED
    BY <1>1, <1>8, <2>1, BestPrefixes
<1>10. HostIsExact'
  <2>1. BestOf(Ids, job.k)' = BestOf(Ids, job.k)
    BY <1>2, SameBest
  <2> QED
    BY <1>8, <2>1 DEF HostIsExact
<1>11. PrefixesAreBest'
  BY <1>2, <1>9, Zenon DEF PrefixesAreBest
<1>12. JobOk'
  BY <1>1, <1>2 DEF JobOk, RowOk
<1> QED
  BY <1>2, <1>10, <1>11, <1>12 DEF TInv, Scanning, Scanned, Chosen

\* The backend chooses a set, the read-back puts it in order; the fallback does
\* both at once.
LEMMA SelectKept ==
  ASSUME TInv, BackendApply \/ Readback \/ SamplerApply
  PROVE  TInv'
<1>1. /\ JobOk /\ Chosen /\ RowOk /\ job.k \in 1 .. N
  BY DEF TInv, JobOk
<1>2. UNCHANGED <<row, job>> /\ pc \in {"select", "readback"} /\ job.path # "host"
  BY <1>1 DEF BackendApply, Readback, SamplerApply, JobOk
<1>3. CASE BackendApply
  <2>1. pc' = "readback" /\ \E S \in LargestSets(job.k) : cand' \in SetToSeqs(S)
    BY <1>3 DEF BackendApply
  <2>2. Chosen'
    BY <1>2, <2>1 DEF Chosen, LargestSets
  <2>3. JobOk'
    BY <1>1, <1>2, <2>1 DEF JobOk, RowOk
  <2> QED
    BY <2>1, <2>2, <2>3 DEF TInv, Scanning, Scanned, HostIsExact, PrefixesAreBest
<1>4. CASE Readback
  <2>1. pc = "readback" /\ pc' = "done" /\ cand' = BestOf(ToSet(cand), job.k)
    BY <1>4 DEF Readback, ReadSorted
  <2>2. PICK S \in LargestSets(job.k) : cand \in SetToSeqs(S)
    BY <1>1, <2>1 DEF Chosen
  <2>3. /\ S \subseteq Ids /\ Cardinality(S) = job.k /\ ToSet(cand) = S
        /\ \A a \in S, b \in Ids \ S : row[a] >= row[b]
    BY <1>1, <2>2, ListsAll
  <2>4. job.k <= Cardinality(S) /\ cand' = BestOf(S, job.k)
    BY <1>1, <2>1, <2>3, TopKAssumption
  <2>5. \A w \in 1 .. job.k :
          \A a \in {cand'[j] : j \in 1 .. w}, b \in Ids \ {cand'[j] : j \in 1 .. w} : row[a] >= row[b]
    BY <1>1, <2>3, <2>4, BestPrefixes
  <2>6. PrefixesAreBest'
    BY <1>2, <2>5, Zenon DEF PrefixesAreBest
  <2>7. JobOk'
    BY <1>1, <1>2, <2>1 DEF JobOk, RowOk
  <2> QED
    BY <1>2, <2>1, <2>6, <2>7 DEF TInv, Scanning, Scanned, Chosen, HostIsExact
<1>5. CASE SamplerApply
  <2>1. pc' = "done"
    BY <1>5 DEF SamplerApply
  <2>2. PICK S \in LargestSets(job.k) :
          cand' \in {s \in SetToSeqs(S) : \A a, b \in DOMAIN s : a < b => row[s[a]] >= row[s[b]]}
    BY <1>5 DEF SamplerApply
  <2> DEFINE s == cand'
  <2>3. s \in SetToSeqs(S) /\ \A x, y \in DOMAIN s : x < y => row[s[x]] >= row[s[y]]
    BY <2>2
  <2> HIDE DEF s
  <2>4. /\ \A a \in S, b \in Ids \ S : row[a] >= row[b]
        /\ DOMAIN s = 1 .. job.k /\ \A j \in 1 .. job.k : s[j] \in S
        /\ \A v \in S : \E j \in 1 .. job.k : s[j] = v
    BY <1>1, <2>3, ListsAll
  <2>5. ASSUME NEW w \in 1 .. job.k, NEW x \in 1 .. w, NEW b \in Ids,
               b \notin {s[j] : j \in 1 .. w}
        PROVE  row[s[x]] >= row[b]
    <3>1. job.k \in Nat /\ x \in 1 .. job.k
      BY <1>1, TopKAssumption
    <3>2. CASE b \in S
      <4>1. PICK y \in 1 .. job.k : s[y] = b
        BY <2>4, <3>2
      <4>2. y \notin 1 .. w
        BY <2>5, <4>1
      <4>3. x < y
        BY <3>1, <4>2
      <4> QED
        BY <2>3, <2>4, <3>1, <4>1, <4>3
    <3>3. CASE b \notin S
      BY <2>4, <3>1, <3>3
    <3> QED
      BY <3>2, <3>3
  <2>6. \A w \in 1 .. job.k :
          \A a \in {s[j] : j \in 1 .. w}, b \in Ids \ {s[j] : j \in 1 .. w} : row[a] >= row[b]
    BY <2>5
  <2>7. PrefixesAreBest'
    BY <1>2, <2>6, Zenon DEF PrefixesAreBest, s
  <2>8. JobOk'
    BY <1>1, <1>2, <2>1 DEF JobOk, RowOk
  <2> QED
    BY <1>2, <2>1, <2>7, <2>8 DEF TInv, Scanning, Scanned, Chosen, HostIsExact
<1> QED
  BY <1>3, <1>4, <1>5

-----------------------------------------------------------------------------
(* The theorems *)

\* The invariant of the scoring, on every path: what is scanned is held, the
\* chunks scanned are their best, and what is returned is in order.
THEOREM AlwaysBest == Spec => []TInv
<1>1. Init => TInv
  BY TInvInit
<1>2. TInv /\ [Next]_vars => TInv'
  <2> SUFFICES ASSUME TInv, [Next]_vars PROVE TInv'
    OBVIOUS
  <2>1. CASE ScanOne \/ ScanFour
    BY <2>1, ScanKept
  <2>2. CASE SumChunk
    BY <2>2, SumKept
  <2>3. CASE Merge
    BY <2>3, MergeKept
  <2>4. CASE BackendApply \/ Readback \/ SamplerApply
    BY <2>4, SelectKept
  <2>5. CASE Done \/ UNCHANGED vars
    <3>1. UNCHANGED <<row, job, pc, t, i, part, parts, cand>>
      BY <2>5 DEF Done, vars
    <3>2. JobOk' /\ Scanned' /\ PrefixesAreBest'
      BY <3>1 DEF TInv, JobOk, RowOk, Scanned, PrefixesAreBest, Best, HeapLess, Begin
    <3>3. Scanning'
      BY <3>1 DEF TInv, Scanning, Holds, Best, HeapLess, Begin, End
    <3>4. Chosen'
      BY <3>1 DEF TInv, Chosen, LargestSets
    <3>5. HostIsExact'
      <4>1. BestOf(Ids, job.k)' = BestOf(Ids, job.k)
        BY <3>1, SameBest
      <4> QED
        BY <3>1, <4>1 DEF TInv, HostIsExact
    <3> QED
      BY <3>2, <3>3, <3>4, <3>5 DEF TInv
  <2> QED
    BY <2>1, <2>2, <2>3, <2>4, <2>5 DEF Next
<1> QED
  BY <1>1, <1>2, PTL DEF Spec

\* HostIsExact for every vocabulary, k and number of threads: the host path
\* returns the k best of the row in order, ties by the lower id, whatever chunks
\* the threads were given and whether ids were taken one or four at a time.
THEOREM HostReturnsBest == Spec => []HostIsExact
<1>1. TInv => HostIsExact
  BY DEF TInv
<1> QED
  BY <1>1, AlwaysBest, PTL

\* PrefixesAreBest on every path: the first w entries of the row are w best
\* tokens, whichever of them the backend's top-k or the partial sort chose among
\* equals.
THEOREM EveryPathBestFirst == Spec => []PrefixesAreBest
<1>1. TInv => PrefixesAreBest
  BY DEF TInv
<1> QED
  BY <1>1, AlwaysBest, PTL

\* HeapHoldsBest: a chunk's heap is the first of the ids it has seen, and its
\* maximum is theirs, at every step of every scan.
THEOREM HeapIsFirst == Spec => []HeapHoldsBest
<1>1. TInv => HeapHoldsBest
  <2> SUFFICES ASSUME TInv, pc = "scan"
               PROVE  LET seen == Begin(t) .. i - 1
                          n    == IF Cardinality(seen) < job.k THEN Cardinality(seen) ELSE job.k
                      IN /\ part.top = ToSet(BestOf(seen, n))
                         /\ part.max = Max({row[v] : v \in seen} \cup {NegInf})
    BY DEF HeapHoldsBest
  <2> DEFINE seen == Begin(t) .. i - 1
             n == IF Cardinality(seen) < job.k THEN Cardinality(seen) ELSE job.k
  <2>1. RowOk /\ job.k \in 1 .. N /\ job.threads \in Nat \ {0} /\ t \in Nat
        /\ i \in Begin(t) .. End(t) /\ Holds(part, seen)
    BY DEF TInv, JobOk, Scanning
  <2>2. seen \subseteq Ids
    BY <2>1, Seen
  <2> HIDE DEF seen
  <2>3. Best(part.top, seen) /\ Cardinality(part.top) = n
    BY <2>1 DEF Holds, Best
  <2> HIDE DEF n
  <2>4. n \in 0 .. Cardinality(seen) /\ part.top = First(seen, n)
    BY <2>1, <2>2, <2>3, BestIsFirst
  <2>5. part.top = ToSet(BestOf(seen, n))
    <3> DEFINE s == BestOf(seen, n)
    <3>1. /\ s = [j \in 1 .. n |-> s[j]]
          /\ \A j \in 1 .. n : s[j] \in seen /\ Cardinality(Ahead(seen, s[j])) = j - 1
          /\ \A v \in First(seen, n) : \E j \in 1 .. n : s[j] = v
      BY <2>1, <2>2, <2>4, Listed
    <3> HIDE DEF s
    <3>2. n \in Nat
      BY <2>2, <2>4, IdSets
    <3>3. ASSUME NEW j \in 1 .. n PROVE s[j] \in First(seen, n)
      BY <3>1, <3>2 DEF First
    <3>4. DOMAIN s = 1 .. n
      BY <3>1
    <3>5. ToSet(s) = {s[j] : j \in 1 .. n}
      BY <3>4 DEF ToSet
    <3>6. {s[j] : j \in 1 .. n} = First(seen, n)
      BY <3>1, <3>3, Zenon
    <3> QED
      BY <2>4, <3>5, <3>6 DEF s
  <2>6. part.max = Max({row[v] : v \in seen} \cup {NegInf})
    <3> DEFINE R == {row[v] : v \in seen} \cup {NegInf}
    <3>1. /\ part.max \in Int /\ part.max >= NegInf /\ \A v \in seen : row[v] <= part.max
          /\ part.max # NegInf => \E v \in seen : row[v] = part.max
      BY <2>1 DEF Holds
    <3>2. \A v \in seen : row[v] \in Int
      BY <2>1, <2>2, HeapOrder
    <3>3. part.max \in R /\ \A y \in R : part.max >= y /\ y \in Int
      <4>1. part.max \in R
        BY <3>1
      <4>2. \A y \in R : part.max >= y /\ y \in Int
        BY <3>1, <3>2 DEF NegInf
      <4> QED
        BY <4>1, <4>2
    <3> HIDE DEF R
    <3>4. Max(R) \in R /\ \A y \in R : Max(R) >= y
      BY <3>3 DEF Max
    <3> QED
      BY <3>1, <3>3, <3>4 DEF R
  <2> QED
    BY <2>5, <2>6 DEF seen, n
<1> QED
  BY <1>1, AlwaysBest, PTL

=============================================================================
