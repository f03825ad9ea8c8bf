----------------------------- MODULE CacheProofs -----------------------------
(***************************************************************************)
(* Proofs about the draft engine's cache and the pool of sequence ids: what*)
(* each sequence tags is the path of the nodes that use it, across forks,  *)
(* trims, bets, splices and collapses.                                     *)
(***************************************************************************)
EXTENDS SpecExecProofs

-----------------------------------------------------------------------------
(* The invariant *)

\* The cells of node i's sequence: its own root path below its position, its own
\* cell at it once it is marked decoded.
Holds(t, q, i) ==
  /\ {c \in q[t.node[i].seq] : c[1] < t.node[i].pos} = PathTo(t, i)
  /\ t.node[i].st \in {kProcessed, kPostProcessed} =>
       {c \in q[t.node[i].seq] : c[1] = t.node[i].pos} = {Cell(t.node[i].pos, t.node[i].tok)}

\* Nothing lies where node i is to be decoded, or behind it.
Fresh(t, q, i) == \A c \in q[t.node[i].seq] : c[1] < t.node[i].pos

\* A cache behind a tree of c committed slots whose round ends at r and whose
\* bet, if any, ends at e: what the nodes' sequences hold; undecoded nodes, but
\* for the root of a bet, can be decoded; two nodes share a sequence only along
\* a path; the pool knows of every sequence in use, and the free ones are empty.
Backed(t, q, po, c, r, e) ==
  /\ \A i \in c - 1 .. e - 1 : Holds(t, q, i)
  /\ \A i \in c - 1 .. e - 1 :
       t.node[i].st \in {kCandidate, kPostCandidate} /\ i # r => Fresh(t, q, i)
  /\ \A i, j \in c - 1 .. e - 1 :
       t.node[i].seq = t.node[j].seq => i \in t.mask[j] \/ j \in t.mask[i]
  /\ \A i \in c - 1 .. e - 1 : t.node[i].seq \notin FreeSeqs(po)
  /\ \A s \in FreeSeqs(po) : q[s] = {}

\* Before the first decode the engine is empty and the prompt is all there is.
Opening == gen.first /\ level = 0 /\ pc = "grow"
Opened ==
  /\ tree.end = tree.prefix /\ kv = EmptyCache /\ ~prevHit
  /\ tree.node[tree.prefix - 1].st = kCandidate /\ tree.node[tree.prefix - 1].seq = 0

\* The sequences a bet may use, the round's own forks, and one for the committed
\* tokens.
BetSeqs(n)  == IF ProType = "disabled" THEN 0 ELSE 1 + n * (ProBeams * (ProWidth - 1))
SeqBudget ==
  /\ pc = "grow" => Cardinality(pool.used \cup {0})
                      <= 1 + BetSeqs(ProLen) + level * (Beams * (Width - 1))
  /\ Drafting => Cardinality({tree.node[i].seq : i \in RoundEnd .. Extent - 1}) <= BetSeqs(level)
  /\ bet.st = "placed" => Cardinality(bet.seqs) <= BetSeqs(ProLen)
  /\ bet.st # "none" => ProType # "disabled"
  /\ pc = "bet" => ProType # "disabled"

\* There is something to validate once the round's first level is through.
SomethingDrafted ==
  /\ pc = "grow" => \/ Drafted(tree) # {}
                    \/ level = 0 /\ ~prevHit /\ tree.node[tree.prefix - 1].st = kCandidate
  /\ pc = "validate" => Drafted(tree) # {}

\* Free ids tag nothing; a placed bet knows its ids; once the engine has been
\* primed, its cache backs the tree.
Cached ==
  /\ \A s \in FreeSeqs(pool) : kv[s] = {}
  /\ bet.st = "placed" =>
       /\ bet.seqs = {tree.node[i].seq : i \in RoundEnd .. Extent - 1}
       /\ tree.node[RoundEnd].st = kPostProcessed
  /\ Opening => Opened
  /\ ~Opening /\ pc # "fatal" =>
       /\ Backed(tree, kv, pool, CommittedLen, RoundEnd, Extent)
       /\ Recurrent => kv[CommittedSeq] = PathTo(tree, CommittedLen - 1)

\* The invariant of the cache, and with it the one of a request that is never stuck.
CInv == IInv /\ Cached
LInv == CInv /\ SeqBudget /\ SomethingDrafted

-----------------------------------------------------------------------------
(* Handing out sequence ids *)

\* Two calls of AllocSeq return two ids.
LEMMA AllocDiffers ==
  ASSUME NEW po \in Pool, NEW k \in Nat, NEW l \in Nat, k # l,
         k < Cardinality(FreeSeqs(po)), l < Cardinality(FreeSeqs(po))
  PROVE  AllocNth(po, k) # AllocNth(po, l)
<1> DEFINE free == FreeSeqs(po)
           ahead == {s \in free : s >= po.cursor}
           rest == free \ ahead
<1>1. free \subseteq Seqs /\ IsFiniteSet(free) /\ Seqs \subseteq Int
  BY FreeSize, SeqsAssumption DEF Seqs
<1>2. /\ IsFiniteSet(ahead) /\ IsFiniteSet(rest) /\ ahead \subseteq Int /\ rest \subseteq Int
  BY <1>1, FS_Subset
<1>3. Cardinality(ahead) \in Nat /\ Cardinality(rest) \in Nat
  BY <1>2, FS_CardinalityType
<1>4. Cardinality(free) = Cardinality(ahead) + Cardinality(rest)
  <2>1. ahead \cap rest = {} /\ ahead \cup rest = free
    OBVIOUS
  <2>2. Cardinality(ahead \cup rest) = Cardinality(ahead) + Cardinality(rest) - Cardinality(ahead \cap rest)
    BY <1>2, FS_Union
  <2>3. Cardinality({}) = 0
    BY FS_EmptySet
  <2>4. Cardinality(ahead \cap rest) = 0 /\ Cardinality(ahead \cup rest) = Cardinality(free)
    BY <2>1, <2>3
  <2> HIDE DEF ahead, rest, free
  <2> QED
    BY <1>3, <2>2, <2>4
<1> DEFINE A(n) == AllocNth(po, n)
           N == Cardinality(ahead)
<1>5. ahead \cap rest = {}
  OBVIOUS
<1>6. \A n \in Nat : A(n) = IF n < N THEN Nth(ahead, n) ELSE Nth(rest, n - N)
  BY DEF AllocNth
<1> HIDE DEF ahead, rest, free, A, N
<1>7. \A n \in 0 .. Cardinality(ahead) - 1 : Nth(ahead, n) \in ahead /\ Rank(ahead, Nth(ahead, n)) = n
  BY <1>2, NthWorks
<1>8. \A n \in 0 .. Cardinality(rest) - 1 : Nth(rest, n) \in rest /\ Rank(rest, Nth(rest, n)) = n
  BY <1>2, NthWorks
<1>9. ASSUME NEW n \in Nat, n < Cardinality(free), n < N
      PROVE  A(n) \in ahead /\ Rank(ahead, A(n)) = n
  BY <1>3, <1>6, <1>7, <1>9 DEF N
<1>10. ASSUME NEW n \in Nat, n < Cardinality(free), ~(n < N)
       PROVE  A(n) \in rest /\ Rank(rest, A(n)) = n - N
  <2>1. n - N \in 0 .. Cardinality(rest) - 1
    BY <1>3, <1>4, <1>10 DEF N
  <2> QED
    BY <1>6, <1>8, <1>10, <2>1
<1>11. k < Cardinality(free) /\ l < Cardinality(free) /\ N \in Nat
  BY <1>3 DEF free, N
<1>12. A(k) # A(l)
  <2>1. CASE k < N /\ l < N
    BY <1>9, <1>11, <2>1
  <2>2. CASE ~(k < N) /\ ~(l < N)
    <3>1. k - N # l - N
      BY <1>11
    <3> QED
      BY <1>10, <1>11, <2>2, <3>1
  <2>3. CASE k < N /\ ~(l < N)
    BY <1>5, <1>9, <1>10, <1>11, <2>3
  <2>4. CASE ~(k < N) /\ l < N
    BY <1>5, <1>9, <1>10, <1>11, <2>4
  <2> QED
    BY <2>1, <2>2, <2>3, <2>4
<1> QED
  BY <1>12 DEF A

\* What was handed out is free no more, everything else is as free as before.
LEMMA AllocTakes ==
  ASSUME NEW po \in Pool, NEW n \in Nat
  PROVE  FreeSeqs(AfterAlloc(po, n)) = FreeSeqs(po) \ {AllocNth(po, k) : k \in 0 .. n - 1}
<1>1. CASE n = 0
  <2>1. {AllocNth(po, k) : k \in 0 .. n - 1} = {}
    BY <1>1
  <2> QED
    BY <1>1, <2>1 DEF AfterAlloc
<1>2. CASE n # 0
  <2>1. AfterAlloc(po, n).used = po.used \cup {AllocNth(po, k) : k \in 0 .. n - 1}
    BY <1>2 DEF AfterAlloc
  <2> QED
    BY <2>1 DEF FreeSeqs
<1> QED
  BY <1>1, <1>2

-----------------------------------------------------------------------------
(* Paths and cells *)

\* llama_decode takes a row whose sequence has nothing at or past its position ...
LEMMA ExtendsFresh ==
  ASSUME NEW q, KvTyped(q), NEW s \in Seqs \cup {CommittedSeq}, NEW p \in Nat, Extends(q, s, p)
  PROVE  \A x \in q[s] : x[1] < p
<1>1. CASE q[s] = {}
  BY <1>1
<1>2. CASE q[s] # {}
  <2> DEFINE T == {x[1] : x \in q[s]}
             m == CHOOSE x \in q[s] : \A y \in q[s] : y[1] <= x[1]
  <2>1. q[s] \subseteq Cells
    BY DEF KvTyped
  <2>2. \A x \in q[s] : x[1] \in Nat /\ x[1] <= MaxLen
    BY <2>1, MaxLenAssumption DEF Cells
  <2>3. T \subseteq Nat /\ T # {} /\ (\A n \in T : n <= MaxLen) /\ MaxLen \in Nat
    BY <1>2, <2>2, MaxLenAssumption
  <2>4. \E n \in T : \A o \in T : o <= n
    BY <2>3, GreatestNat
  <2>5. \E x \in q[s] : \A y \in q[s] : y[1] <= x[1]
    BY <2>4
  <2>6. m \in q[s] /\ \A y \in q[s] : y[1] <= m[1]
    BY <2>5
  <2>7. p = m[1] + 1
    BY <1>2 DEF Extends, SeqPosMax
  <2> HIDE DEF m, T
  <2> QED
    BY <2>2, <2>6, <2>7
<1> QED
  BY <1>1, <1>2

\* ... and does take one that comes right behind what is there.
LEMMA FreshExtends ==
  ASSUME NEW q, KvTyped(q), NEW s \in Seqs \cup {CommittedSeq}, NEW p \in Nat,
         \A x \in q[s] : x[1] < p, p > 0 => \E x \in q[s] : x[1] = p - 1
  PROVE  Extends(q, s, p)
<1>1. CASE q[s] = {}
  BY <1>1 DEF Extends
<1>2. CASE q[s] # {}
  <2> DEFINE m == CHOOSE x \in q[s] : \A y \in q[s] : y[1] <= x[1]
  <2>1. q[s] \subseteq Cells
    BY DEF KvTyped
  <2>2. \A x \in q[s] : x[1] \in Nat
    BY <2>1, MaxLenAssumption DEF Cells
  <2>3. p > 0
    BY <1>2, <2>2
  <2>4. PICK x \in q[s] : x[1] = p - 1
    BY <2>3
  <2>5. \A y \in q[s] : y[1] <= x[1]
    BY <2>2, <2>4
  <2>6. m \in q[s] /\ \A y \in q[s] : y[1] <= m[1]
    BY <2>5
  <2>7. SeqPosMax(q, s) = m[1]
    BY <1>2 DEF SeqPosMax
  <2> HIDE DEF m
  <2>8. m[1] = p - 1
    BY <2>2, <2>4, <2>5, <2>6
  <2> QED
    BY <2>7, <2>8 DEF Extends
<1> QED
  BY <1>1, <1>2

\* A root path lies below its node, one cell a position, and grows by the parent's.
LEMMA PathBelow ==
  ASSUME NEW t, NEW c, NEW e, Shaped(t, c, e), NEW i \in 0 .. e - 1
  PROVE  /\ t.node[i].pos \in Nat
         /\ \A a \in t.mask[i] : a # i => t.node[a].pos < t.node[i].pos /\ t.node[a].pos \in Nat
         /\ \A x \in PathTo(t, i) : x[1] \in Nat /\ x[1] < t.node[i].pos
         /\ t.node[i].pos > 0 => \E x \in PathTo(t, i) : x[1] = t.node[i].pos - 1
         /\ i > 0 => PathTo(t, i) = PathTo(t, t.node[i].par)
                                      \cup {Cell(t.node[t.node[i].par].pos, t.node[t.node[i].par].tok)}
<1> DEFINE S == t.mask[i]
           p == t.node[i].pos
<1>1. /\ IsFiniteSet(S) /\ p \in Nat /\ S \subseteq 0 .. i /\ i \in Nat /\ S \subseteq Int /\ i \in S
  BY PosIsDepth, RowBounds
<1>2. \A a \in S : Rank(S, a) = t.node[a].pos
  BY RowByPos
<1>3. ASSUME NEW a \in S, a # i PROVE t.node[a].pos < p /\ t.node[a].pos \in Nat
  <2>1. a < i /\ a \in S /\ i \in Int
    BY <1>1, <1>3
  <2> HIDE DEF S, p
  <2>2. Rank(S, a) < Rank(S, i) /\ Rank(S, a) \in 0 .. Cardinality(S)
    BY <1>1, <2>1, RankGrows, RankRange
  <2>3. Rank(S, a) \in Nat
    BY <1>1, <2>2, FS_CardinalityType
  <2> QED
    BY <1>1, <1>2, <2>2, <2>3 DEF p
<1>4. \A x \in PathTo(t, i) : x[1] \in Nat /\ x[1] < p
  <2> SUFFICES ASSUME NEW a \in S \ {i}
               PROVE  LET x == Cell(t.node[a].pos, t.node[a].tok) IN x[1] \in Nat /\ x[1] < p
    BY DEF PathTo
  <2> QED
    BY <1>3 DEF Cell
<1>5. ASSUME p > 0 PROVE \E x \in PathTo(t, i) : x[1] = p - 1
  <2> DEFINE a == Nth(S, p - 1)
  <2>1. p - 1 \in 0 .. p
    BY <1>1, <1>5
  <2>2. a \in S /\ t.node[a].pos = p - 1
    BY <2>1, RowByPos
  <2> HIDE DEF a
  <2>3. a # i
    BY <1>1, <2>2
  <2>4. Cell(t.node[a].pos, t.node[a].tok) \in PathTo(t, i)
    BY <2>2, <2>3 DEF PathTo
  <2> QED
    BY <2>2, <2>4 DEF Cell
<1>6. ASSUME i > 0
      PROVE  PathTo(t, i) = PathTo(t, t.node[i].par)
                              \cup {Cell(t.node[t.node[i].par].pos, t.node[t.node[i].par].tok)}
  <2> DEFINE b == t.node[i].par
  <2>1. i \in 1 .. e - 1
    BY <1>1, <1>6
  <2>2. b \in 0 .. i - 1 /\ S = t.mask[b] \cup {i}
    BY <2>1 DEF Shaped, Hangs
  <2>3. b \in 0 .. e - 1
    <3>1. e \in Nat
      BY MaxLenAssumption DEF Shaped
    <3> HIDE DEF b
    <3> QED
      BY <2>1, <2>2, <3>1
  <2> HIDE DEF b
  <2>4. b \in t.mask[b] /\ t.mask[b] \subseteq 0 .. b
    BY <2>3, RowBounds
  <2>5. S \ {i} = (t.mask[b] \ {b}) \cup {b}
    BY <1>1, <2>2, <2>4
  <2> QED
    BY <2>5 DEF PathTo, b
<1> QED
  BY <1>1, <1>3, <1>4, <1>5, <1>6

\* A root path is read off the rows, which most steps leave alone.
LEMMA PathStays ==
  ASSUME NEW t, NEW u, NEW c, NEW e, Shaped(t, c, e), SameRows(t, u, e), NEW i \in 0 .. e - 1
  PROVE  PathTo(u, i) = PathTo(t, i)
<1>1. t.mask[i] \subseteq 0 .. i /\ u.mask[i] = t.mask[i]
  BY RowBounds DEF SameRows
<1>2. e \in Nat
  BY MaxLenAssumption DEF Shaped
<1>3. ASSUME NEW a \in t.mask[i] \ {i}
      PROVE  Cell(u.node[a].pos, u.node[a].tok) = Cell(t.node[a].pos, t.node[a].tok)
  <2>1. a \in 0 .. e - 1
    BY <1>1, <1>2
  <2> QED
    BY <2>1 DEF SameRows
<1> QED
  BY <1>1, <1>3 DEF PathTo

\* A node without children is on no row but its own.
LEMMA Leafless ==
  ASSUME NEW t, NEW c, NEW e, Shaped(t, c, e), NEW x \in 0 .. e - 1,
         \A i \in 1 .. e - 1 : t.node[i].par # x,
         NEW j \in 0 .. e - 1, x \in t.mask[j]
  PROVE  x = j
<1> SUFFICES ASSUME x # j PROVE FALSE
  OBVIOUS
<1>0. e \in Nat
  BY MaxLenAssumption DEF Shaped
<1>1. j \in t.mask[j] /\ t.mask[j] \subseteq 0 .. j /\ e \in Nat
  BY <1>0, RowBounds
<1> DEFINE T == {z \in t.mask[j] : z > x}
<1>2. T \subseteq Nat /\ j \in T
  BY <1>1
<1>3. PICK y \in T : \A z \in T : y <= z
  BY <1>2, LeastNat
<1>4. y \in t.mask[j] /\ y > x /\ y # 0 /\ y \in Nat
  BY <1>1, <1>3
<1> DEFINE p == t.node[y].par
<1>5. /\ y \in 1 .. e - 1 /\ p \in t.mask[j] /\ {z \in t.mask[j] : z < y} = t.mask[p]
  BY <1>4, ParentInRow
<1>6. p \in 0 .. y - 1
  BY <1>5 DEF Shaped, Hangs
<1>7. p # x /\ x \in t.mask[p]
  BY <1>4, <1>5
<1> HIDE DEF p, T
<1>8. t.mask[p] \subseteq 0 .. p
  <2>1. p \in 0 .. e - 1
    BY <1>1, <1>5, <1>6
  <2> QED
    BY <2>1, RowBounds
<1>9. p > x
  BY <1>6, <1>7, <1>8
<1>10. p \in T
  BY <1>5, <1>9 DEF T
<1> QED
  BY <1>3, <1>4, <1>6, <1>10

\* A candidate is such a node, in a grown tree.
LEMMA CandidatesAreLeaves ==
  ASSUME NEW t, NEW c, NEW r, NEW e, Grown(t, c, r, e), NEW x \in c - 1 .. e - 1,
         \/ t.node[x].st \in {kCandidate, kPostCandidate}
         \/ \A i \in c .. e - 1 : t.node[i].par # x
  PROVE  \A j \in 0 .. e - 1 : x \in t.mask[j] => x = j
<1>1. /\ c \in Nat /\ e \in Nat /\ 1 <= c /\ c <= e
      /\ \A i \in c .. e - 1 : t.node[i].par \in c - 1 .. i - 1
  BY GrownNumbers
<1>2. Shaped(t, c, e) /\ Apart(t, c, e)
  BY DEF Grown
<1>3. x \in 0 .. e - 1
  BY <1>1
<1>4. ASSUME NEW i \in 1 .. e - 1 PROVE t.node[i].par # x
  <2>1. CASE i < c
    <3>1. t.node[i].par = i - 1
      BY <1>2, <2>1 DEF Shaped, Hangs
    <3> QED
      BY <1>1, <2>1, <3>1
  <2>2. CASE ~(i < c)
    <3>1. i \in c .. e - 1
      BY <1>1, <2>2
    <3> QED
      BY <1>2, <3>1 DEF Apart
  <2> QED
    BY <2>1, <2>2
<1> QED
  BY <1>2, <1>3, <1>4, Leafless

-----------------------------------------------------------------------------
(* Decoding a batch *)

\* The rows of a batch: the undecoded nodes L, each on its own sequence and at its
\* own position, and perhaps more on ids no node uses; u is tree t with L marked.
Rows(t, q, po, c, e, L, rows, u) ==
  /\ L \subseteq c - 1 .. e - 1
  /\ \A x \in L : t.node[x].st \in {kCandidate, kPostCandidate} /\ Fresh(t, q, x)
  /\ DOMAIN rows \subseteq Seqs
  /\ \A x \in L : /\ t.node[x].seq \in DOMAIN rows
                  /\ rows[t.node[x].seq] = Cell(t.node[x].pos, t.node[x].tok)
  /\ \A s \in DOMAIN rows :
       \/ \E x \in L : s = t.node[x].seq
       \/ s \notin FreeSeqs(po) /\ \A i \in c - 1 .. e - 1 : t.node[i].seq # s
  /\ SameRows(t, u, e)
  /\ \A i \in c - 1 .. e - 1 :
       /\ u.node[i].seq = t.node[i].seq
       /\ i \notin L => u.node[i].st = t.node[i].st
       /\ i \in L => u.node[i].st \in {kProcessed, kPostProcessed}

\* Decoding undecoded nodes on sequences of their own, and perhaps others on ids
\* no node uses, keeps the cache behind the tree once the nodes are marked.
LEMMA BackedDecode ==
  ASSUME NEW t, NEW c, NEW r, NEW e, Grown(t, c, r, e), NEW q, KvTyped(q), NEW po,
         Backed(t, q, po, c, r, e), NEW L, NEW rows, NEW u, Rows(t, q, po, c, e, L, rows, u)
  PROVE  /\ Backed(u, Decode(q, rows), po, c, r, e)
         /\ \A x \in L : \A y \in Decode(q, rows)[t.node[x].seq] : y[1] <= t.node[x].pos
         /\ Decode(q, rows)[CommittedSeq] = q[CommittedSeq]
<1>0. /\ L \subseteq c - 1 .. e - 1
      /\ \A x \in L : t.node[x].st \in {kCandidate, kPostCandidate} /\ Fresh(t, q, x)
      /\ DOMAIN rows \subseteq Seqs
      /\ \A x \in L : /\ t.node[x].seq \in DOMAIN rows
                      /\ rows[t.node[x].seq] = Cell(t.node[x].pos, t.node[x].tok)
      /\ \A s \in DOMAIN rows :
           \/ \E x \in L : s = t.node[x].seq
           \/ s \notin FreeSeqs(po) /\ \A i \in c - 1 .. e - 1 : t.node[i].seq # s
      /\ SameRows(t, u, e)
      /\ \A i \in c - 1 .. e - 1 :
           /\ u.node[i].seq = t.node[i].seq
           /\ i \notin L => u.node[i].st = t.node[i].st
           /\ i \in L => u.node[i].st \in {kProcessed, kPostProcessed}
  BY DEF Rows
<1> USE <1>0
<1> DEFINE v == Decode(q, rows)
           D == c - 1 .. e - 1
<1>1. /\ c \in Nat /\ e \in Nat /\ 1 <= c /\ c <= e /\ Shaped(t, c, e) /\ TreeTyped(t)
      /\ 0 .. e - 1 \subseteq Slots
  BY GrownNumbers DEF Grown
<1>2. \A i \in D : i \in 0 .. e - 1 /\ i \in Slots
  BY <1>1
<1>3. \A i \in D : t.node[i].seq \in Seqs
  BY <1>1, <1>2, NodeFields
<1>4. DOMAIN q = Seqs \cup {CommittedSeq} /\ CommittedSeq \notin Seqs
  BY SeqsAssumption DEF KvTyped, Seqs, CommittedSeq
<1>5. \A s \in Seqs \cup {CommittedSeq} : v[s] = IF s \in DOMAIN rows THEN q[s] \cup {rows[s]} ELSE q[s]
  BY <1>4 DEF Decode
<1>6. \A i \in D : /\ u.node[i].tok = t.node[i].tok /\ u.node[i].pos = t.node[i].pos
                   /\ u.mask[i] = t.mask[i] /\ u.node[i].seq = t.node[i].seq
                   /\ PathTo(u, i) = PathTo(t, i)
  <2>1. \A i \in D : PathTo(u, i) = PathTo(t, i)
    BY <1>1, <1>2, PathStays
  <2>2. \A i \in D : /\ u.node[i].tok = t.node[i].tok /\ u.node[i].pos = t.node[i].pos
                     /\ u.mask[i] = t.mask[i]
    BY <1>2 DEF SameRows
  <2> QED
    BY <2>1, <2>2
<1>7. \A i \in D : /\ \A a \in t.mask[i] : a # i => t.node[a].pos < t.node[i].pos /\ t.node[a].pos \in Nat
                   /\ t.node[i].pos \in Nat
  BY <1>1, <1>2, PathBelow
<1>8. \A x \in L : \A j \in D : x \in t.mask[j] => x = j
  BY <1>2, CandidatesAreLeaves
<1> HIDE DEF v, D
<1>9. /\ \A i \in D : Holds(t, q, i)
      /\ \A i \in D : t.node[i].st \in {kCandidate, kPostCandidate} /\ i # r => Fresh(t, q, i)
      /\ \A i, j \in D : t.node[i].seq = t.node[j].seq => i \in t.mask[j] \/ j \in t.mask[i]
      /\ \A i \in D : t.node[i].seq \notin FreeSeqs(po)
      /\ \A s \in FreeSeqs(po) : q[s] = {}
  BY DEF Backed, D
<1>10. L \subseteq D
  BY DEF D
<1>11. ASSUME NEW i \in D
       PROVE  \/ v[t.node[i].seq] = q[t.node[i].seq] /\ t.node[i].seq \notin DOMAIN rows
              \/ \E x \in L : /\ t.node[x].seq = t.node[i].seq
                              /\ v[t.node[i].seq] = q[t.node[i].seq] \cup {Cell(t.node[x].pos, t.node[x].tok)}
                              /\ x = i \/ t.node[i].pos < t.node[x].pos
                              /\ t.node[x].pos \in Nat
  <2>1. t.node[i].seq \in Seqs
    BY <1>3
  <2>2. CASE t.node[i].seq \notin DOMAIN rows
    BY <1>5, <2>1, <2>2
  <2>3. CASE t.node[i].seq \in DOMAIN rows
    <3>1. PICK x \in L : t.node[i].seq = t.node[x].seq
      BY <2>3 DEF D
    <3>2. v[t.node[i].seq] = q[t.node[i].seq] \cup {Cell(t.node[x].pos, t.node[x].tok)}
      <4>1. rows[t.node[i].seq] = Cell(t.node[x].pos, t.node[x].tok)
        BY <3>1
      <4>2. v[t.node[i].seq] = q[t.node[i].seq] \cup {rows[t.node[i].seq]}
        BY <1>5, <2>1, <2>3
      <4> QED
        BY <4>1, <4>2
    <3>3. i \in t.mask[x] \/ x \in t.mask[i]
      BY <1>9, <1>10, <3>1
    <3>4. x = i \/ t.node[i].pos < t.node[x].pos
      BY <1>7, <1>8, <1>10, <3>3
    <3>5. t.node[x].pos \in Nat
      BY <1>7, <1>10
    <3> QED
      BY <3>1, <3>2, <3>4, <3>5
  <2> QED
    BY <2>2, <2>3
<1>12. \A i \in D : \A y \in q[t.node[i].seq] : y[1] \in Nat
  <2>1. \A s \in Seqs : q[s] \subseteq Cells
    BY DEF KvTyped
  <2>2. \A y \in Cells : y[1] \in Nat
    BY MaxLenAssumption DEF Cells
  <2> QED
    BY <1>3, <2>1, <2>2
<1>13. ASSUME NEW i \in D PROVE Holds(u, v, i)
  <2> DEFINE s == t.node[i].seq
             p == t.node[i].pos
             own == Cell(p, t.node[i].tok)
  <2>1. /\ {y \in q[s] : y[1] < p} = PathTo(t, i)
        /\ t.node[i].st \in {kProcessed, kPostProcessed} => {y \in q[s] : y[1] = p} = {own}
    BY <1>9 DEF Holds
  <2>2. p \in Nat
    BY <1>7
  <2>3. {y \in v[s] : y[1] < p} = {y \in q[s] : y[1] < p}
    <3>1. CASE v[s] = q[s]
      BY <3>1
    <3>2. CASE v[s] # q[s]
      <4>1. PICK x \in L : /\ v[s] = q[s] \cup {Cell(t.node[x].pos, t.node[x].tok)}
                           /\ x = i \/ p < t.node[x].pos
                           /\ t.node[x].pos \in Nat
        BY <1>11, <3>2
      <4>2. ~(Cell(t.node[x].pos, t.node[x].tok)[1] < p)
        BY <2>2, <4>1 DEF Cell
      <4> QED
        BY <4>1, <4>2
    <3> QED
      BY <3>1, <3>2
  <2>4. ASSUME u.node[i].st \in {kProcessed, kPostProcessed}
        PROVE  {y \in v[s] : y[1] = p} = {own}
    <3>1. CASE i \in L
      <4>1. s \in Seqs /\ s \in DOMAIN rows /\ rows[s] = own
        BY <1>3, <3>1
      <4>2. v[s] = q[s] \cup {own}
        BY <1>5, <4>1
      <4>3. \A y \in q[s] : y[1] < p /\ y[1] \in Nat
        BY <1>12, <3>1 DEF Fresh
      <4>4. own[1] = p
        BY DEF Cell
      <4> HIDE DEF s, p, own
      <4> QED
        BY <2>2, <4>2, <4>3, <4>4
    <3>2. CASE i \notin L
      <4>1. {y \in q[s] : y[1] = p} = {own}
        BY <2>1, <2>4, <3>2 DEF D
      <4>2. CASE v[s] = q[s]
        BY <4>1, <4>2
      <4>3. CASE v[s] # q[s]
        <5>1. PICK x \in L : /\ v[s] = q[s] \cup {Cell(t.node[x].pos, t.node[x].tok)}
                             /\ x = i \/ p < t.node[x].pos
                             /\ t.node[x].pos \in Nat
          BY <1>11, <4>3
        <5>2. Cell(t.node[x].pos, t.node[x].tok)[1] # p
          BY <2>2, <3>2, <5>1 DEF Cell
        <5> QED
          BY <4>1, <5>1, <5>2
      <4> QED
        BY <4>2, <4>3
    <3> QED
      BY <3>1, <3>2
  <2> QED
    BY <1>6, <2>1, <2>3, <2>4 DEF Holds
<1>14. ASSUME NEW i \in D, u.node[i].st \in {kCandidate, kPostCandidate}, i # r PROVE Fresh(u, v, i)
  <2>1. i \notin L
    BY <1>14 DEF D, kCandidate, kPostCandidate, kProcessed, kPostProcessed
  <2>2. t.node[i].st \in {kCandidate, kPostCandidate}
    BY <1>14, <2>1 DEF D
  <2>3. v[t.node[i].seq] = q[t.node[i].seq]
    <3>1. ASSUME NEW x \in L, t.node[x].seq = t.node[i].seq PROVE FALSE
      <4>1. i \in t.mask[x] \/ x \in t.mask[i]
        BY <1>9, <1>10, <3>1
      <4>2. i = x \/ ~(i \in t.mask[x])
        BY <1>2, <1>10, <2>2, CandidatesAreLeaves DEF D
      <4> QED
        BY <1>8, <2>1, <4>1, <4>2
    <3> QED
      BY <1>11, <3>1
  <2> QED
    BY <1>6, <1>9, <1>14, <2>2, <2>3 DEF Fresh
<1>15. \A i, j \in D : u.node[i].seq = u.node[j].seq => i \in u.mask[j] \/ j \in u.mask[i]
  BY <1>6, <1>9
<1>16. \A i \in D : u.node[i].seq \notin FreeSeqs(po)
  BY <1>6, <1>9
<1>17. ASSUME NEW s \in FreeSeqs(po) PROVE v[s] = {}
  <2>1. s \in Seqs
    BY DEF FreeSeqs
  <2>2. s \notin DOMAIN rows
    BY <1>9, <1>10
  <2> QED
    BY <1>5, <1>9, <2>1, <2>2
<1>18. \A x \in L : \A y \in v[t.node[x].seq] : y[1] <= t.node[x].pos
  <2> SUFFICES ASSUME NEW x \in L, NEW y \in v[t.node[x].seq] PROVE y[1] <= t.node[x].pos
    OBVIOUS
  <2>1. v[t.node[x].seq] = q[t.node[x].seq] \cup {Cell(t.node[x].pos, t.node[x].tok)}
    BY <1>3, <1>5, <1>10
  <2>2. \A z \in q[t.node[x].seq] : z[1] < t.node[x].pos /\ z[1] \in Nat
    BY <1>10, <1>12 DEF Fresh
  <2>3. t.node[x].pos \in Nat
    BY <1>7, <1>10
  <2> QED
    BY <2>1, <2>2, <2>3 DEF Cell
<1>19. v[CommittedSeq] = q[CommittedSeq]
  BY <1>4, <1>5
<1>20. Backed(u, v, po, c, r, e)
  BY <1>13, <1>14, <1>15, <1>16, <1>17 DEF Backed, D
<1> QED
  BY <1>18, <1>19, <1>20 DEF v

-----------------------------------------------------------------------------
(* Forking and adding children *)

\* Tree::add, slot by slot.
LEMMA AddFields ==
  ASSUME NEW t, TreeTyped(t), NEW kids \in Seq(NodeRec(Tok \cup {0}, Seqs)), Len(kids) <= MaxLen - t.end
  PROVE  Added(t, kids, Add(t, kids))
<1> DEFINE n == Len(kids)
           e == t.end
           u == Add(t, kids)
           new == e .. e + n - 1
<1>1. /\ MaxLen \in Nat /\ e \in Nat /\ n \in Nat /\ e + n <= MaxLen
      /\ t.node \in [Slots -> NodeRec(Tok \cup {0}, Seqs)] /\ t.mask \in [Slots -> SUBSET Slots]
  <2>1. MaxLen \in Nat /\ n \in Nat
    BY MaxLenAssumption
  <2>2. /\ e \in 1 .. MaxLen
        /\ t.node \in [Slots -> NodeRec(Tok \cup {0}, Seqs)] /\ t.mask \in [Slots -> SUBSET Slots]
    BY DEF TreeTyped, Typed
  <2>3. n <= MaxLen - e
    OBVIOUS
  <2>4. e \in Nat /\ e + n <= MaxLen
    <3>1. e \in 1 .. MaxLen
      BY <2>2
    <3> HIDE DEF n, e
    <3> QED
      BY <2>1, <2>3, <3>1
  <2> QED
    BY <2>1, <2>2, <2>4
<1>2. /\ u.node = [s \in Slots |-> IF s \in new THEN kids[s - e + 1] ELSE t.node[s]]
      /\ u.mask = [s \in Slots |-> IF s \in new THEN t.mask[kids[s - e + 1].par] \cup {s} ELSE t.mask[s]]
      /\ u.end = e + n /\ u.prefix = t.prefix
  BY DEF Add, TreeTyped, Typed
<1> HIDE DEF u, n, e
<1>3. \A s \in Slots : s < e => s \notin new
  BY <1>1 DEF Slots
<1>4. \A s \in new : s \in Slots
  BY <1>1 DEF Slots
<1>5. \A s \in Slots : s >= e + n => s \notin new
  BY <1>1 DEF Slots
<1> QED
  BY <1>2, <1>3, <1>4, <1>5 DEF Added, u, n, e

\* Forked children hold what their beam does: the first keeps the beam's sequence,
\* every other gets a copy on an id that was free.
LEMMA ForkHolds ==
  ASSUME NEW t, TreeTyped(t), NEW q, KvTyped(q), NEW po \in Pool, \A s \in FreeSeqs(po) : q[s] = {},
         NEW C, C \subseteq Slots, \A x \in C : t.node[x].seq \notin FreeSeqs(po),
         NEW w \in 1 .. Width, NEW keep, keep \subseteq Flats(C, w),
         Cardinality(Forks(C, w, keep)) <= Cardinality(FreeSeqs(po))
  PROVE  LET F     == Forks(C, w, keep)
             v     == ForkCache(q, t, po, C, w, keep)
             Id(f) == ChildSeq(t, po, C, w, keep, f)
             free  == FreeSeqs(AfterAlloc(po, Cardinality(F)))
         IN /\ \A f \in keep : v[Id(f)] = q[t.node[BeamOf(C, w, f)].seq] /\ Id(f) \notin free
            /\ \A f \in F : Id(f) \in FreeSeqs(po)
            /\ \A f \in keep \ F : Id(f) = t.node[BeamOf(C, w, f)].seq
            /\ \A f, g \in F : f # g => Id(f) # Id(g)
            /\ \A s \in Seqs \cup {CommittedSeq} : s \notin FreeSeqs(po) => v[s] = q[s]
            /\ free \subseteq FreeSeqs(po) /\ \A s \in free : v[s] = {}
<1> DEFINE F == Forks(C, w, keep)
           v == ForkCache(q, t, po, C, w, keep)
           Id(f) == ChildSeq(t, po, C, w, keep, f)
           free == FreeSeqs(AfterAlloc(po, Cardinality(F)))
           New(f) == AllocNth(po, Rank(F, f))
<1>1. w \in Nat \ {0} /\ DOMAIN q = Seqs \cup {CommittedSeq} /\ CommittedSeq \notin Seqs
  BY BeamAssumption, SeqsAssumption DEF KvTyped, Seqs, CommittedSeq
<1>2. F \subseteq keep /\ F \subseteq Flats(C, w)
  BY DEF Forks
<1>3. IsFiniteSet(F) /\ F \subseteq Int /\ Cardinality(F) \in Nat
  BY <1>1, <1>2, FlatSets
<1>4. FreeSeqs(po) \subseteq Seqs /\ Cardinality(FreeSeqs(po)) \in Nat
  BY FreeSize
<1>5. \A f \in keep : BeamOf(C, w, f) \in C
  BY <1>1, FlatBeam
<1>6. \A f \in F : Id(f) = New(f)
  BY DEF ChildSeq
<1>7. \A f \in keep \ F : Id(f) = t.node[BeamOf(C, w, f)].seq
  BY DEF ChildSeq
<1> DEFINE Src(s) == t.node[BeamOf(C, w, CHOOSE f \in F : New(f) = s)].seq
<1>8. v = [s \in DOMAIN q |-> IF s \in {New(f) : f \in F} THEN q[s] \cup q[Src(s)] ELSE q[s]]
  BY DEF ForkCache
<1>9. free = FreeSeqs(po) \ {AllocNth(po, k) : k \in 0 .. Cardinality(F) - 1}
  BY <1>3, AllocTakes
<1> HIDE DEF v, Id, free, F
<1>10. \A f \in F : Rank(F, f) \in 0 .. Cardinality(F) - 1
  BY <1>3, RankRange
<1>11. \A f \in F : Rank(F, f) \in Nat /\ Rank(F, f) < Cardinality(FreeSeqs(po))
  BY <1>3, <1>4, <1>10 DEF F
<1>12. \A f \in F : New(f) \in FreeSeqs(po) /\ New(f) \notin free
  BY <1>9, <1>10, <1>11, AllocFree
<1>13. ASSUME NEW f \in F, NEW g \in F, f # g PROVE New(f) # New(g)
  <2>1. Rank(F, f) # Rank(F, g)
    <3>1. f \in Int /\ g \in Int /\ (f < g \/ g < f)
      BY <1>3, <1>13
    <3>2. Rank(F, f) \in Nat /\ Rank(F, g) \in Nat
      BY <1>11
    <3>3. CASE f < g
      <4>1. Rank(F, f) < Rank(F, g)
        BY <1>3, <3>1, <3>3, RankGrows
      <4> QED
        BY <3>2, <4>1
    <3>4. CASE g < f
      <4>1. Rank(F, g) < Rank(F, f)
        BY <1>3, <3>1, <3>4, RankGrows
      <4> QED
        BY <3>2, <4>1
    <3> QED
      BY <3>1, <3>3, <3>4
  <2> QED
    BY <1>11, <2>1, AllocDiffers
<1> HIDE DEF New
<1>14. \A f \in F : Src(New(f)) = t.node[BeamOf(C, w, f)].seq
  <2> SUFFICES ASSUME NEW f \in F PROVE Src(New(f)) = t.node[BeamOf(C, w, f)].seq
    OBVIOUS
  <2>1. (CHOOSE g \in F : New(g) = New(f)) = f
    BY <1>13
  <2> QED
    BY <2>1
<1> HIDE DEF Src
<1>15. \A f \in F : v[New(f)] = q[t.node[BeamOf(C, w, f)].seq]
  <2> SUFFICES ASSUME NEW f \in F PROVE v[New(f)] = q[t.node[BeamOf(C, w, f)].seq]
    OBVIOUS
  <2>1. New(f) \in DOMAIN q /\ q[New(f)] = {}
    BY <1>1, <1>4, <1>12
  <2> QED
    BY <1>8, <1>14, <2>1
<1>16. \A s \in Seqs \cup {CommittedSeq} : s \notin FreeSeqs(po) => v[s] = q[s]
  BY <1>1, <1>8, <1>12
<1>17. \A f \in keep \ F : v[Id(f)] = q[t.node[BeamOf(C, w, f)].seq] /\ Id(f) \notin free
  <2> SUFFICES ASSUME NEW f \in keep \ F
               PROVE  v[Id(f)] = q[t.node[BeamOf(C, w, f)].seq] /\ Id(f) \notin free
    OBVIOUS
  <2>1. BeamOf(C, w, f) \in C /\ BeamOf(C, w, f) \in Slots
    BY <1>5
  <2>2. t.node[BeamOf(C, w, f)].seq \in Seqs /\ t.node[BeamOf(C, w, f)].seq \notin FreeSeqs(po)
    BY <2>1, NodeFields
  <2> QED
    BY <1>7, <1>9, <1>16, <2>2
<1>18. \A f \in keep : v[Id(f)] = q[t.node[BeamOf(C, w, f)].seq] /\ Id(f) \notin free
  BY <1>6, <1>12, <1>15, <1>17
<1>19. \A s \in free : v[s] = {}
  <2> SUFFICES ASSUME NEW s \in free PROVE v[s] = {}
    OBVIOUS
  <2>1. s \in FreeSeqs(po) /\ s \in DOMAIN q /\ q[s] = {}
    BY <1>1, <1>4, <1>9
  <2>2. s \notin {New(f) : f \in F}
    BY <1>12
  <2> QED
    BY <1>8, <2>1, <2>2
<1>20. free \subseteq FreeSeqs(po)
  BY <1>9
<1>21. \A f \in F : Id(f) \in FreeSeqs(po)
  BY <1>6, <1>12
<1>22. \A f, g \in F : f # g => Id(f) # Id(g)
  BY <1>6, <1>13
<1> QED
  BY <1>7, <1>16, <1>18, <1>19, <1>20, <1>21, <1>22 DEF v, Id, free, F

\* Beams: decoded nodes without children yet, nothing behind them on their
\* sequences.
Beamed(t, q, c, C) ==
  /\ C \subseteq c - 1 .. t.end - 1 /\ Spent(t, c, t.end, C)
  /\ \A x \in C : /\ t.node[x].st \in {kProcessed, kPostProcessed}
                  /\ \A y \in q[t.node[x].seq] : y[1] <= t.node[x].pos

\* Tree u is tree t with the kept children of the beams C added; r2 is where its
\* round ends.
Bears(t, c, r, r2, po, C, w, top, keep, status, u) ==
  /\ w \in 1 .. Width /\ top \in [C -> TopKRows] /\ status \in {kCandidate, kPostCandidate}
  /\ keep \subseteq Flats(C, w)
  /\ Cardinality(Forks(C, w, keep)) <= Cardinality(FreeSeqs(po))
  /\ Cardinality(keep) <= MaxLen - t.end
  /\ u = Add(t, Children(t, po, C, w, top, keep, status))
  /\ r2 = r \/ r = t.end
  /\ Grown(u, c, r2, u.end) /\ SameRows(t, u, t.end)

\* Forking the kept children's sequences and adding them keeps the cache behind the
\* tree.
LEMMA BackedFork ==
  ASSUME NEW t, NEW c, NEW r, Grown(t, c, r, t.end), NEW q, KvTyped(q), NEW po \in Pool,
         Backed(t, q, po, c, r, t.end), NEW C, Beamed(t, q, c, C),
         NEW w, NEW top, NEW keep, NEW status, NEW u, NEW r2, Bears(t, c, r, r2, po, C, w, top, keep, status, u)
  PROVE  /\ Backed(u, ForkCache(q, t, po, C, w, keep), AfterAlloc(po, Cardinality(Forks(C, w, keep))),
                   c, r2, u.end)
         /\ ForkCache(q, t, po, C, w, keep)[CommittedSeq] = q[CommittedSeq]
<1>0. /\ C \subseteq c - 1 .. t.end - 1 /\ Spent(t, c, t.end, C)
      /\ \A x \in C : /\ t.node[x].st \in {kProcessed, kPostProcessed}
                      /\ \A y \in q[t.node[x].seq] : y[1] <= t.node[x].pos
      /\ w \in 1 .. Width /\ top \in [C -> TopKRows] /\ status \in {kCandidate, kPostCandidate}
      /\ keep \subseteq Flats(C, w)
      /\ Cardinality(Forks(C, w, keep)) <= Cardinality(FreeSeqs(po))
      /\ Cardinality(keep) <= MaxLen - t.end
      /\ u = Add(t, Children(t, po, C, w, top, keep, status))
      /\ r2 = r \/ r = t.end
      /\ Grown(u, c, r2, u.end) /\ SameRows(t, u, t.end)
  BY DEF Beamed, Bears
<1> USE <1>0
<1> DEFINE F == Forks(C, w, keep)
           v == ForkCache(q, t, po, C, w, keep)
           Id(f) == ChildSeq(t, po, C, w, keep, f)
           pool2 == AfterAlloc(po, Cardinality(F))
           free == FreeSeqs(pool2)
           kids == Children(t, po, C, w, top, keep, status)
           e == t.end
           m == Cardinality(keep)
           D == c - 1 .. e - 1
           K == e .. (e + m) - 1
           Flat(s) == Nth(keep, s - e)
<1>1. /\ MaxLen \in Nat /\ c \in Nat /\ r \in Nat /\ e \in Nat /\ 1 <= c /\ c <= r /\ r <= e /\ e <= MaxLen
      /\ 0 .. e - 1 \subseteq Slots
      /\ \A i \in 0 .. e - 1 : t.node[i].pos \in 0 .. i /\ t.node[i].pos < MaxLen
  BY GrownNumbers
<1>2. TreeTyped(t) /\ Shaped(t, c, e) /\ Shaped(u, c, u.end)
  BY DEF Grown
<1>3. \A i \in D : i \in 0 .. e - 1 /\ i \in Slots
  BY <1>1
<1>4. C \subseteq Slots /\ \A x \in C : t.node[x].pos < MaxLen
  BY <1>1, <1>3
<1>5. status \in Status /\ w \in Nat \ {0}
  BY BeamAssumption DEF Status
<1>6. /\ kids \in Seq(NodeRec(Tok \cup {0}, Seqs)) /\ Len(kids) = m
  <2>1. /\ kids \in Seq(NodeRec(Tok \cup {0}, Seqs))
        /\ Len(kids) = Cardinality(keep)
        /\ Bred(t, C, status, kids) /\ Siblings(kids)
    BY <1>2, <1>4, <1>5, ChildrenFacts
  <2> QED
    BY <2>1
<1>7. IsFiniteSet(keep) /\ keep \subseteq Int /\ m \in Nat
  BY <1>4, <1>5, FlatSets
<1>8. Added(t, kids, u)
  <2>1. Len(kids) <= MaxLen - t.end /\ kids \in Seq(NodeRec(Tok \cup {0}, Seqs)) /\ u = Add(t, kids)
    BY <1>6
  <2> HIDE DEF kids
  <2>2. Added(t, kids, Add(t, kids))
    BY <1>2, <2>1, AddFields
  <2> QED
    BY <2>1, <2>2
<1>9. u.end = e + m /\ \A s \in K : u.node[s] = kids[s - e + 1]
  <2>1. u.end = t.end + Len(kids) /\ \A s \in t.end .. t.end + Len(kids) - 1 : u.node[s] = kids[s - t.end + 1]
    BY <1>8 DEF Added
  <2>2. Len(kids) = m
    BY <1>6
  <2>3a. t.end \in Nat /\ m \in Nat
    BY <1>1, <1>7
  <2> HIDE DEF kids, m
  <2>3. t.end + m - 1 = (t.end + m) - 1
    BY <2>3a
  <2> QED
    BY <2>1, <2>2, <2>3
<1>10. \A i \in D : u.node[i] = t.node[i]
  <2>1. \A i \in D : i \in Slots /\ i < e
    BY <1>1, <1>3
  <2> QED
    BY <2>1, <1>8 DEF Added
<1>11. \A i \in D : u.mask[i] = t.mask[i] /\ PathTo(u, i) = PathTo(t, i)
  <2>1. \A i \in D : PathTo(u, i) = PathTo(t, i)
    BY <1>2, <1>3, PathStays
  <2>2. \A i \in D : u.mask[i] = t.mask[i]
    BY <1>3 DEF SameRows
  <2> QED
    BY <2>1, <2>2
<1>12. /\ \A i \in D : Holds(t, q, i)
       /\ \A i \in D : t.node[i].st \in {kCandidate, kPostCandidate} /\ i # r => Fresh(t, q, i)
       /\ \A i, j \in D : t.node[i].seq = t.node[j].seq => i \in t.mask[j] \/ j \in t.mask[i]
       /\ \A i \in D : t.node[i].seq \notin FreeSeqs(po)
       /\ \A s \in FreeSeqs(po) : q[s] = {}
  BY DEF Backed
<1>13. C \subseteq D
  OBVIOUS
<1>14. /\ \A f \in keep : v[Id(f)] = q[t.node[BeamOf(C, w, f)].seq] /\ Id(f) \notin free
       /\ \A f \in F : Id(f) \in FreeSeqs(po)
       /\ \A f \in keep \ F : Id(f) = t.node[BeamOf(C, w, f)].seq
       /\ \A f, g \in F : f # g => Id(f) # Id(g)
       /\ \A s \in Seqs \cup {CommittedSeq} : s \notin FreeSeqs(po) => v[s] = q[s]
       /\ free \subseteq FreeSeqs(po) /\ \A s \in free : v[s] = {}
  BY <1>2, <1>4, <1>12, <1>13, ForkHolds
<1>15. \A s \in K : /\ s - e \in 0 .. m - 1
                    /\ u.node[s] = [tok |-> FlatTok(C, w, top, Flat(s)),
                                    pos |-> t.node[BeamOf(C, w, Flat(s))].pos + 1,
                                    par |-> BeamOf(C, w, Flat(s)), st |-> status,
                                    lp |-> FlatScore(t, C, w, top, Flat(s)), seq |-> Id(Flat(s))]
  <2> SUFFICES ASSUME NEW s \in K
               PROVE  /\ s - e \in 0 .. m - 1
                      /\ u.node[s] = [tok |-> FlatTok(C, w, top, Flat(s)),
                                      pos |-> t.node[BeamOf(C, w, Flat(s))].pos + 1,
                                      par |-> BeamOf(C, w, Flat(s)), st |-> status,
                                      lp |-> FlatScore(t, C, w, top, Flat(s)), seq |-> Id(Flat(s))]
    OBVIOUS
  <2> HIDE DEF m, e
  <2>1. s - e \in 0 .. m - 1 /\ s - e + 1 \in 1 .. m /\ (s - e + 1) - 1 = s - e
    BY <1>1, <1>7
  <2> DEFINE k == s - e + 1
  <2>2. kids[k] = [tok |-> FlatTok(C, w, top, Nth(keep, k - 1)),
                   pos |-> t.node[BeamOf(C, w, Nth(keep, k - 1))].pos + 1,
                   par |-> BeamOf(C, w, Nth(keep, k - 1)), st |-> status,
                   lp |-> FlatScore(t, C, w, top, Nth(keep, k - 1)),
                   seq |-> Id(Nth(keep, k - 1))]
    <3>1. k \in 1 .. m
      BY <2>1
    <3> HIDE DEF k, Id
    <3> QED
      BY <3>1 DEF Children, m, Id
  <2>3. k - 1 = s - e
    BY <2>1
  <2> HIDE DEF Id, kids
  <2> QED
    BY <1>9, <2>1, <2>2, <2>3
<1> HIDE DEF v, Id, free, kids, F, K, D, m, e
<1>16. ASSUME NEW s \in K
       PROVE  /\ s \in 0 .. u.end - 1 /\ s > 0 /\ s >= e /\ s \in Nat
              /\ Flat(s) \in keep /\ Rank(keep, Flat(s)) = s - e
              /\ u.node[s].par = BeamOf(C, w, Flat(s)) /\ u.node[s].par \in C
              /\ u.node[s].pos = t.node[u.node[s].par].pos + 1
              /\ u.node[s].st = status /\ u.node[s].seq = Id(Flat(s))
              /\ v[u.node[s].seq] = q[t.node[u.node[s].par].seq]
              /\ u.mask[s] = t.mask[u.node[s].par] \cup {s}
  <2>1. s \in 0 .. u.end - 1 /\ s > 0 /\ s >= e /\ s \in Nat /\ s \in 1 .. u.end - 1
    BY <1>1, <1>7, <1>9 DEF K
  <2>2. s - e \in 0 .. Cardinality(keep) - 1
    BY <1>15 DEF m
  <2>3. Flat(s) \in keep /\ Rank(keep, Flat(s)) = s - e
    BY <1>7, <2>2, NthWorks
  <2> HIDE DEF Flat
  <2>4. BeamOf(C, w, Flat(s)) \in C
    BY <1>4, <1>5, <2>3, FlatBeam
  <2>5. /\ u.node[s].par = BeamOf(C, w, Flat(s)) /\ u.node[s].seq = Id(Flat(s)) /\ u.node[s].st = status
        /\ u.node[s].pos = t.node[BeamOf(C, w, Flat(s))].pos + 1
    <3> DEFINE b == BeamOf(C, w, Flat(s))
               tk == FlatTok(C, w, top, Flat(s))
               sc == FlatScore(t, C, w, top, Flat(s))
               ps == t.node[b].pos + 1
    <3>1. u.node[s] = [tok |-> tk, pos |-> ps, par |-> b, st |-> status, lp |-> sc, seq |-> Id(Flat(s))]
      BY <1>15
    <3> HIDE DEF b, tk, sc, ps
    <3>2. u.node[s].par = b /\ u.node[s].seq = Id(Flat(s)) /\ u.node[s].st = status /\ u.node[s].pos = ps
      BY <3>1
    <3> QED
      BY <3>2 DEF b, ps
  <2>6. u.mask[s] = u.mask[u.node[s].par] \cup {s}
    BY <1>2, <2>1 DEF Shaped, Hangs
  <2>7. u.node[s].par \in D
    BY <1>13, <2>4, <2>5
  <2> QED
    BY <1>11, <1>14, <2>1, <2>3, <2>4, <2>5, <2>6, <2>7
<1> HIDE DEF Flat
<1>17. \A i \in c - 1 .. u.end - 1 : i \in D \/ i \in K
  BY <1>1, <1>7, <1>9 DEF D, K
<1>18. ASSUME NEW i \in D PROVE t.node[i].seq \in Seqs /\ v[t.node[i].seq] = q[t.node[i].seq]
  <2>1. t.node[i].seq \in Seqs
    BY <1>2, <1>3, NodeFields DEF D
  <2> QED
    BY <1>12, <1>14, <2>1
<1>19. \A x \in C : \A i \in D : x \in t.mask[i] => x = i
  <2>1. \A x \in C : \A i \in c .. t.end - 1 : t.node[i].par # x
    BY DEF Spent
  <2>2. \A x \in C : x \in c - 1 .. t.end - 1
    OBVIOUS
  <2>3. \A x \in C : \A j \in 0 .. t.end - 1 : x \in t.mask[j] => x = j
    BY <2>1, <2>2, CandidatesAreLeaves
  <2> QED
    BY <1>3, <2>3 DEF D, e
<1>20. \A i \in D : \A y \in q[t.node[i].seq] : y[1] \in Nat
  <2>1. \A s \in Seqs : q[s] \subseteq Cells
    BY DEF KvTyped
  <2>2. \A y \in Cells : y[1] \in Nat
    BY MaxLenAssumption DEF Cells
  <2> QED
    BY <1>18, <2>1, <2>2
<1>21. ASSUME NEW s \in K PROVE Holds(u, v, s) /\ Fresh(u, v, s)
  <2> DEFINE x == u.node[s].par
             p == t.node[x].pos
             own == Cell(p, t.node[x].tok)
  <2>1. x \in C /\ x \in D /\ u.node[s].pos = p + 1 /\ v[u.node[s].seq] = q[t.node[x].seq]
    BY <1>13, <1>16
  <2>2. PathTo(u, s) = PathTo(t, x) \cup {own}
    <3>1. PathTo(u, s) = PathTo(u, x) \cup {Cell(u.node[x].pos, u.node[x].tok)}
      <4>1. s \in 0 .. u.end - 1 /\ s > 0 /\ Shaped(u, c, u.end)
        BY <1>2, <1>16
      <4> QED
        BY <4>1, PathBelow
    <3> QED
      BY <1>10, <1>11, <2>1, <3>1
  <2>3. /\ {y \in q[t.node[x].seq] : y[1] < p} = PathTo(t, x)
        /\ {y \in q[t.node[x].seq] : y[1] = p} = {own}
    BY <1>12, <2>1 DEF Holds
  <2>4. \A y \in q[t.node[x].seq] : y[1] <= p /\ y[1] \in Nat
    BY <1>20, <2>1
  <2>5. p \in Nat
    BY <1>2, <1>3, <2>1, PathBelow DEF D
  <2> HIDE DEF x, p, own
  <2>6. \A y \in q[t.node[x].seq] : y[1] < p + 1 /\ (y[1] < p \/ y[1] = p)
    BY <2>4, <2>5
  <2>7. {y \in v[u.node[s].seq] : y[1] < u.node[s].pos} = PathTo(u, s)
    BY <2>1, <2>2, <2>3, <2>6
  <2>8. u.node[s].st \notin {kProcessed, kPostProcessed}
    BY <1>16 DEF kCandidate, kPostCandidate, kProcessed, kPostProcessed
  <2> QED
    BY <2>1, <2>6, <2>7, <2>8 DEF Holds, Fresh
<1>22. \A i \in D : Holds(u, v, i)
  BY <1>10, <1>11, <1>12, <1>18 DEF Holds
<1>23. \A i \in D : u.node[i].st \in {kCandidate, kPostCandidate} /\ i # r2 => Fresh(u, v, i)
  <2> SUFFICES ASSUME NEW i \in D, u.node[i].st \in {kCandidate, kPostCandidate}, i # r2
               PROVE  Fresh(u, v, i)
    OBVIOUS
  <2>1. i # r
    BY <1>1 DEF D, e
  <2> QED
    BY <1>10, <1>12, <1>18, <2>1 DEF Fresh
<1>24. ASSUME NEW i \in D, NEW s \in K, u.node[i].seq = u.node[s].seq PROVE i \in u.mask[s]
  <2> DEFINE x == u.node[s].par
  <2>1. Id(Flat(s)) \notin FreeSeqs(po) /\ t.node[i].seq = Id(Flat(s))
    BY <1>10, <1>12, <1>16, <1>24
  <2>2. Flat(s) \in keep \ F
    BY <1>14, <1>16, <2>1
  <2>2a. x \in C /\ x \in D
    BY <1>13, <1>16
  <2>2b. Id(Flat(s)) = t.node[x].seq
    BY <1>14, <1>16, <2>2
  <2>3. t.node[x].seq = t.node[i].seq /\ x \in C /\ x \in D
    BY <2>1, <2>2a, <2>2b
  <2>4. i \in t.mask[x] \/ x \in t.mask[i]
    BY <1>12, <2>3
  <2>5. x \in t.mask[x]
    BY <1>2, <1>3, <2>3, RowBounds DEF D
  <2>6. u.mask[s] = t.mask[x] \cup {s}
    BY <1>16
  <2>7. i \in t.mask[x]
    BY <1>19, <2>2a, <2>4, <2>5
  <2> QED
    BY <2>6, <2>7
<1>25. ASSUME NEW s \in K, NEW l \in K, u.node[s].seq = u.node[l].seq PROVE s = l
  <2> DEFINE f == Flat(s)
             g == Flat(l)
  <2>1. f \in keep /\ g \in keep /\ Rank(keep, f) = s - e /\ Rank(keep, g) = l - e /\ Id(f) = Id(g)
        /\ s \in Nat /\ l \in Nat
    BY <1>16, <1>25
  <2> HIDE DEF f, g
  <2>2. SUFFICES f = g
    BY <1>1, <2>1
  <2>3. CASE f \in F /\ g \in F
    BY <1>14, <2>1, <2>3
  <2>4. ASSUME NEW a \in F, NEW b \in keep \ F PROVE Id(a) # Id(b)
    <3>1. BeamOf(C, w, b) \in D
      BY <1>4, <1>5, <1>13, FlatBeam
    <3>2. Id(b) \notin FreeSeqs(po)
      BY <1>12, <1>14, <3>1
    <3>3. Id(a) \in FreeSeqs(po)
      BY <1>14
    <3> QED
      BY <3>2, <3>3
  <2>5. CASE f \notin F /\ g \notin F
    <3>1. BeamOf(C, w, f) \in C /\ BeamOf(C, w, g) \in C
      BY <1>4, <1>5, <2>1, FlatBeam
    <3>2. t.node[BeamOf(C, w, f)].seq = t.node[BeamOf(C, w, g)].seq
      BY <1>14, <2>1, <2>5
    <3>3. BeamOf(C, w, f) = BeamOf(C, w, g)
      BY <1>12, <1>13, <1>19, <3>1, <3>2
    <3>4. ~(f < g) /\ ~(g < f)
      BY <2>1, <2>5, <3>3 DEF F, Forks
    <3> QED
      BY <1>7, <2>1, <3>4
  <2> QED
    BY <2>1, <2>3, <2>4, <2>5
<1>26. \A i, j \in c - 1 .. u.end - 1 : u.node[i].seq = u.node[j].seq => i \in u.mask[j] \/ j \in u.mask[i]
  <2>1. \A i, j \in D : u.node[i].seq = u.node[j].seq => i \in u.mask[j] \/ j \in u.mask[i]
    BY <1>10, <1>11, <1>12
  <2>2. \A s \in K : s \in u.mask[s]
    BY <1>16
  <2> QED
    BY <1>17, <1>24, <1>25, <2>1, <2>2
<1>27. \A i \in c - 1 .. u.end - 1 : u.node[i].seq \notin FreeSeqs(pool2)
  <2>1. \A i \in D : u.node[i].seq \notin free
    BY <1>10, <1>12, <1>14
  <2>2. \A s \in K : u.node[s].seq \notin free
    BY <1>14, <1>16
  <2> QED
    BY <1>17, <2>1, <2>2 DEF free
<1>28. \A s \in FreeSeqs(pool2) : v[s] = {}
  BY <1>14 DEF free
<1>29. CommittedSeq \notin FreeSeqs(po)
  BY SeqsAssumption DEF FreeSeqs, Seqs, CommittedSeq
<1>30. Backed(u, v, pool2, c, r2, u.end)
  <2>1. \A i \in c - 1 .. u.end - 1 : Holds(u, v, i)
    BY <1>17, <1>21, <1>22
  <2>2. \A i \in c - 1 .. u.end - 1 : u.node[i].st \in {kCandidate, kPostCandidate} /\ i # r2 => Fresh(u, v, i)
    BY <1>17, <1>21, <1>23
  <2> QED
    BY <1>26, <1>27, <1>28, <2>1, <2>2 DEF Backed
<1> QED
  BY <1>14, <1>29, <1>30 DEF v, F

-----------------------------------------------------------------------------
(* Moving nodes: trims and splices *)

\* Nodes that are moved, h[s] being where slot s came from, keep their root path
\* and stay on the rows they were on.
LEMMA CarriedPaths ==
  ASSUME NEW t, NEW c, NEW e, Shaped(t, c, e), NEW u, NEW d, NEW m, Shaped(u, d, m),
         NEW a \in 0 .. m - 1, NEW h,
         \A s \in a .. m - 1 : /\ h[s] \in 0 .. e - 1
                               /\ u.node[s].tok = t.node[h[s]].tok /\ u.node[s].pos = t.node[h[s]].pos,
         \A s, k \in a .. m - 1 : h[s] = h[k] => s = k,
         \A s \in a + 1 .. m - 1 : /\ h[s] > 0 /\ u.node[s].par \in a .. s - 1
                                   /\ h[u.node[s].par] = t.node[h[s]].par,
         PathTo(u, a) = PathTo(t, h[a]),
         \A k \in a .. m - 1 : h[k] \in t.mask[h[a]] => k = a
  PROVE  \A s \in a .. m - 1 : /\ PathTo(u, s) = PathTo(t, h[s])
                               /\ \A k \in a .. m - 1 : h[k] \in t.mask[h[s]] => k \in u.mask[s]
<1>1. /\ e \in Nat /\ m \in Nat /\ a \in Nat
  BY MaxLenAssumption DEF Shaped
<1> DEFINE Good(s) == /\ PathTo(u, s) = PathTo(t, h[s])
                      /\ \A k \in a .. m - 1 : h[k] \in t.mask[h[s]] => k \in u.mask[s]
           G == {s \in 0 .. m - 1 : s >= a => Good(s)}
<1>2. \A s \in 0 .. m - 1 : s \in u.mask[s]
  BY RowBounds
<1>3. Good(a)
  BY <1>2
<1>4. 0 \in G
  <2>1. 0 \in 0 .. m - 1
    BY <1>1
  <2>2. 0 >= a => a = 0
    BY <1>1
  <2> HIDE DEF Good
  <2> QED
    BY <1>3, <2>1, <2>2
<1>5. ASSUME NEW s \in 1 .. m - 1, u.node[s].par \in G PROVE s \in G
  <2>1. CASE ~(s > a)
    <3>1. s >= a => s = a
      BY <1>1, <2>1
    <3>2. s \in 0 .. m - 1
      BY <1>1
    <3> HIDE DEF Good
    <3> QED
      BY <1>3, <3>1, <3>2
  <2>2. CASE s > a
    <3> DEFINE p == u.node[s].par
               x == h[s]
               y == h[p]
    <3>1. s \in a + 1 .. m - 1 /\ s \in a .. m - 1 /\ s \in 0 .. m - 1 /\ s > 0
      BY <1>1, <2>2
    <3>2. x > 0 /\ p \in a .. s - 1 /\ y = t.node[x].par
      BY <3>1
    <3>3. p \in a .. m - 1 /\ p >= a /\ p \in 0 .. m - 1
      BY <1>1, <3>1, <3>2
    <3>4. x \in 0 .. e - 1 /\ y \in 0 .. e - 1 /\ x \in 1 .. e - 1
      BY <1>1, <3>1, <3>2, <3>3
    <3>5. Good(p)
      BY <1>5, <3>3
    <3>6. PathTo(u, s) = PathTo(u, p) \cup {Cell(u.node[p].pos, u.node[p].tok)}
      BY <3>1, PathBelow
    <3>7. PathTo(t, x) = PathTo(t, y) \cup {Cell(t.node[y].pos, t.node[y].tok)}
      BY <3>2, <3>4, PathBelow
    <3>8. u.mask[s] = u.mask[p] \cup {s} /\ t.mask[x] = t.mask[y] \cup {x}
      <4>1. u.mask[s] = u.mask[u.node[s].par] \cup {s}
        BY DEF Shaped, Hangs
      <4>2. t.mask[x] = t.mask[t.node[x].par] \cup {x}
        BY <3>4 DEF Shaped, Hangs
      <4> QED
        BY <3>2, <4>1, <4>2
    <3>9. u.node[p].pos = t.node[y].pos /\ u.node[p].tok = t.node[y].tok
      BY <3>3
    <3> HIDE DEF p
    <3>10. PathTo(u, s) = PathTo(t, x)
      BY <3>5, <3>6, <3>7, <3>9
    <3>11. ASSUME NEW k \in a .. m - 1, h[k] \in t.mask[x] PROVE k \in u.mask[s]
      <4>1. CASE h[k] = x
        BY <3>1, <3>8, <4>1
      <4>2. CASE h[k] # x
        BY <3>5, <3>8, <3>11, <4>2
      <4> QED
        BY <4>1, <4>2
    <3>12. Good(s)
      BY <3>10, <3>11
    <3> HIDE DEF Good
    <3> QED
      BY <3>1, <3>12
  <2> QED
    BY <2>1, <2>2
<1>6. 0 .. m - 1 \subseteq G
  <2> HIDE DEF G
  <2> QED
    BY <1>4, <1>5, SlotInduction
<1>7. ASSUME NEW s \in a .. m - 1 PROVE Good(s)
  <2>1. s \in 0 .. m - 1 /\ s >= a
    BY <1>1
  <2> HIDE DEF Good
  <2> QED
    BY <1>6, <2>1
<1> QED
  BY <1>7

\* Tree u carries part of tree t: its slot s, from d - 1 on, is the old slot h[s],
\* with the old node's marks and a parent that is the old parent, and whatever is
\* above them has been committed.
Carries(t, c, r, e, u, d, m, h) ==
  /\ Shaped(t, c, e) /\ Shaped(u, d, m)
  /\ \A s \in d - 1 .. m - 1 :
       /\ h[s] \in c - 1 .. e - 1
       /\ u.node[s].tok = t.node[h[s]].tok /\ u.node[s].pos = t.node[h[s]].pos
       /\ u.node[s].seq = t.node[h[s]].seq
       /\ u.node[s].st \in {kProcessed, kPostProcessed} => t.node[h[s]].st \in {kProcessed, kPostProcessed}
       /\ u.node[s].st \in {kCandidate, kPostCandidate} =>
            t.node[h[s]].st \in {kCandidate, kPostCandidate} /\ h[s] # r
  /\ \A s, k \in d - 1 .. m - 1 : h[s] = h[k] => s = k
  /\ \A s \in d .. m - 1 : /\ h[s] > 0 /\ u.node[s].par \in d - 1 .. s - 1
                           /\ h[u.node[s].par] = t.node[h[s]].par
  /\ PathTo(u, d - 1) = PathTo(t, h[d - 1])
  /\ \A k \in d - 1 .. m - 1 : h[k] \in t.mask[h[d - 1]] => k = d - 1

\* The cache keeps the sequences of the slots the new tree holds, and the free ones are empty.
Keeps(u, d, m, q, q2, po2) ==
  /\ \A s \in d - 1 .. m - 1 : /\ q2[u.node[s].seq] = q[u.node[s].seq]
                               /\ u.node[s].seq \notin FreeSeqs(po2)
  /\ \A s \in FreeSeqs(po2) : q2[s] = {}

\* So a cache that stood behind the old tree stands behind the new one.
LEMMA BackedCarry ==
  ASSUME NEW t, NEW c, NEW r, NEW e, NEW u, NEW d, NEW m, NEW h, Carries(t, c, r, e, u, d, m, h),
         NEW q, NEW po, Backed(t, q, po, c, r, e),
         NEW q2, NEW po2, Keeps(u, d, m, q, q2, po2)
  PROVE  Backed(u, q2, po2, d, m, m)
<1> /\ \A s \in d - 1 .. m - 1 : q2[u.node[s].seq] = q[u.node[s].seq]
    /\ \A s \in d - 1 .. m - 1 : u.node[s].seq \notin FreeSeqs(po2)
    /\ \A s \in FreeSeqs(po2) : q2[s] = {}
  BY DEF Keeps
<1>0. /\ Shaped(t, c, e) /\ Shaped(u, d, m)
      /\ \A s \in d - 1 .. m - 1 :
           /\ h[s] \in c - 1 .. e - 1
           /\ u.node[s].tok = t.node[h[s]].tok /\ u.node[s].pos = t.node[h[s]].pos
           /\ u.node[s].seq = t.node[h[s]].seq
           /\ u.node[s].st \in {kProcessed, kPostProcessed} => t.node[h[s]].st \in {kProcessed, kPostProcessed}
           /\ u.node[s].st \in {kCandidate, kPostCandidate} =>
                t.node[h[s]].st \in {kCandidate, kPostCandidate} /\ h[s] # r
      /\ \A s, k \in d - 1 .. m - 1 : h[s] = h[k] => s = k
      /\ \A s \in d .. m - 1 : /\ h[s] > 0 /\ u.node[s].par \in d - 1 .. s - 1
                               /\ h[u.node[s].par] = t.node[h[s]].par
      /\ PathTo(u, d - 1) = PathTo(t, h[d - 1])
      /\ \A k \in d - 1 .. m - 1 : h[k] \in t.mask[h[d - 1]] => k = d - 1
  BY DEF Carries
<1>1. c \in Nat /\ e \in Nat /\ d \in Nat /\ m \in Nat /\ 1 <= c /\ 1 <= d /\ d <= m
  BY <1>0, MaxLenAssumption DEF Shaped
<1> DEFINE D == d - 1 .. m - 1
<1>2. \A s \in D : h[s] \in 0 .. e - 1
  BY <1>0, <1>1
<1>3. \A s \in D : /\ PathTo(u, s) = PathTo(t, h[s])
                   /\ \A k \in D : h[k] \in t.mask[h[s]] => k \in u.mask[s]
  <2> DEFINE a == d - 1
  <2>1. a \in 0 .. m - 1 /\ a + 1 = d
    BY <1>1
  <2>2. \A s \in a .. m - 1 : /\ h[s] \in 0 .. e - 1
                              /\ u.node[s].tok = t.node[h[s]].tok /\ u.node[s].pos = t.node[h[s]].pos
    BY <1>0, <1>2
  <2>3. /\ \A s, k \in a .. m - 1 : h[s] = h[k] => s = k
        /\ \A s \in a + 1 .. m - 1 : /\ h[s] > 0 /\ u.node[s].par \in a .. s - 1
                                     /\ h[u.node[s].par] = t.node[h[s]].par
        /\ PathTo(u, a) = PathTo(t, h[a])
        /\ \A k \in a .. m - 1 : h[k] \in t.mask[h[a]] => k = a
    <3> HIDE DEF a
    <3>1. a = d - 1
      BY DEF a
    <3> QED
      BY <1>0, <2>1, <3>1
  <2>4. \A s \in a .. m - 1 : /\ PathTo(u, s) = PathTo(t, h[s])
                              /\ \A k \in a .. m - 1 : h[k] \in t.mask[h[s]] => k \in u.mask[s]
    <3> HIDE DEF a
    <3> QED
      BY <1>0, <2>1, <2>2, <2>3, CarriedPaths
  <2> QED
    BY <2>4
<1>4. /\ \A i \in c - 1 .. e - 1 : Holds(t, q, i)
      /\ \A i \in c - 1 .. e - 1 : t.node[i].st \in {kCandidate, kPostCandidate} /\ i # r => Fresh(t, q, i)
      /\ \A i, j \in c - 1 .. e - 1 : t.node[i].seq = t.node[j].seq => i \in t.mask[j] \/ j \in t.mask[i]
  BY DEF Backed
<1>5. \A s \in D :
            /\ h[s] \in c - 1 .. e - 1
            /\ u.node[s].tok = t.node[h[s]].tok /\ u.node[s].pos = t.node[h[s]].pos
            /\ u.node[s].seq = t.node[h[s]].seq
            /\ u.node[s].st \in {kProcessed, kPostProcessed} => t.node[h[s]].st \in {kProcessed, kPostProcessed}
            /\ u.node[s].st \in {kCandidate, kPostCandidate} =>
                 t.node[h[s]].st \in {kCandidate, kPostCandidate} /\ h[s] # r
            /\ q2[u.node[s].seq] = q[u.node[s].seq]
            /\ u.node[s].seq \notin FreeSeqs(po2)
  BY <1>0
<1> HIDE DEF D
<1>6. ASSUME NEW s \in D PROVE Holds(u, q2, s)
  <2>1. Holds(t, q, h[s])
    BY <1>4, <1>5
  <2> QED
    BY <1>3, <1>5, <2>1 DEF Holds
<1>7. ASSUME NEW s \in D, u.node[s].st \in {kCandidate, kPostCandidate} PROVE Fresh(u, q2, s)
  <2>1. Fresh(t, q, h[s])
    BY <1>4, <1>5, <1>7
  <2> QED
    BY <1>5, <2>1 DEF Fresh
<1>8. ASSUME NEW s \in D, NEW k \in D, u.node[s].seq = u.node[k].seq
      PROVE  s \in u.mask[k] \/ k \in u.mask[s]
  <2>1. h[s] \in t.mask[h[k]] \/ h[k] \in t.mask[h[s]]
    <3>1. t.node[h[s]].seq = t.node[h[k]].seq /\ h[s] \in c - 1 .. e - 1 /\ h[k] \in c - 1 .. e - 1
      BY <1>5, <1>8
    <3> QED
      BY <1>4, <3>1
  <2> QED
    BY <1>3, <2>1
<1> QED
  BY <1>5, <1>6, <1>7, <1>8 DEF Backed, D

\* The root path of the seed is the committed text.
LEMMA ChainCells ==
  ASSUME NEW t, NEW c, NEW e, Shaped(t, c, e)
  PROVE  /\ c - 1 \in 0 .. e - 1 /\ c \in Nat /\ 1 <= c
         /\ PathTo(t, c - 1) = {Cell(i, t.node[i].tok) : i \in 0 .. c - 2}
<1>1. c \in Nat /\ e \in Nat /\ 1 <= c /\ c <= e
  BY MaxLenAssumption DEF Shaped
<1>2. c - 1 \in 0 .. e - 1 /\ c - 1 < c
  BY <1>1
<1>3. t.mask[c - 1] = 0 .. c - 1
  BY <1>2, RowOfChain
<1>4. \A i \in 0 .. c - 2 : i \in 0 .. e - 1 /\ i < c
  BY <1>1
<1>5. \A i \in 0 .. c - 2 : t.node[i].pos = i
  BY <1>4, RowOfChain
<1>6. t.mask[c - 1] \ {c - 1} = 0 .. c - 2
  BY <1>1, <1>3
<1> QED
  BY <1>1, <1>2, <1>5, <1>6 DEF PathTo

-----------------------------------------------------------------------------
(* The main draft *)

\* TrimByBudget moves nodes and leaves the cache alone: each kept node is still
\* behind its sequence.
LEMMA BackedTrim ==
  ASSUME NEW t, Grown(t, t.prefix, t.end, t.end), NEW q, NEW po,
         Backed(t, q, po, t.prefix, t.end, t.end)
  PROVE  LET u == TrimByBudget(t)
         IN /\ Backed(u, q, po, t.prefix, u.end, u.end)
            /\ PathTo(u, t.prefix - 1) = PathTo(t, t.prefix - 1)
<1> DEFINE D == Drafted(t)
           K == TopBeams(t, D, Budget)
           c == t.prefix
           e == t.end
           u == TrimByBudget(t)
<1>1. /\ MaxLen \in Nat /\ c \in Nat /\ e \in Nat
      /\ 1 <= c /\ c <= e /\ e <= MaxLen /\ 0 .. e - 1 \subseteq Slots
      /\ \A i \in c .. e - 1 : t.node[i].par \in c - 1 .. i - 1
  BY GrownNumbers
<1>2. TreeTyped(t) /\ Shaped(t, c, e) /\ Budget \in Nat \ {0}
  BY SpecExecAssumption DEF Grown
<1>3. D \subseteq Slots /\ Cardinality(D) = e - c
  <2>1. D = c .. e - 1
    BY DEF Drafted
  <2>2. Cardinality(c .. e - 1) = e - c
    BY <1>1, IntervalSize
  <2> QED
    BY <1>1, <2>1, <2>2 DEF Slots
<1>4. CASE Cardinality(D) <= Budget
  <2>1. u = t
    BY <1>4 DEF TrimByBudget
  <2> QED
    BY <2>1
<1>5. CASE ~(Cardinality(D) <= Budget)
  <2>1. u = TrimTo(t, K, Budget)
    BY <1>5 DEF TrimByBudget, TrimTo
  <2>2. Budget <= Cardinality(D)
    BY <1>1, <1>2, <1>3, <1>5
  <2>3. K \subseteq D /\ Cardinality(K) = Budget
    BY <1>2, <1>3, <2>2, TopBeamsSize
  <2>4. ASSUME NEW x \in K, t.node[x].par >= c PROVE t.node[x].par \in K
    <3>1. x \in c .. e - 1
      BY <2>3 DEF Drafted
    <3>2. t.node[x].par \in c - 1 .. x - 1
      BY <1>1, <3>1
    <3>3. t.node[x].par \in D /\ x # e
      BY <1>1, <2>4, <3>1, <3>2 DEF Drafted
    <3>4. t.node[x].lp < t.node[t.node[x].par].lp
      BY <2>4, <3>1, <3>3 DEF Grown
    <3> HIDE DEF D
    <3> QED
      BY <1>2, <1>3, <3>3, <3>4, TopBeamsClosed
  <2>0. Grown(u, c, u.end, u.end)
    BY GrownTrim
  <2> HIDE DEF K, u
  <2> DEFINE m == c + Budget
             Old(s) == OldSlot(t, K, s)
             h == [s \in 0 .. m - 1 |-> Old(s)]
  <2>5. TreeTyped(u) /\ Shaped(u, c, m) /\ Trimmed(t, K, Budget, u)
    BY <1>2, <2>1, <2>3, <2>4, GatherShape DEF TreeTyped
  <2>6. /\ IsFiniteSet(K) /\ K \subseteq Int /\ K \subseteq Slots /\ m <= e
        /\ \A s \in 0 .. m - 1 : /\ Old(s) \in (0 .. c - 1) \cup K
                                 /\ NewPlace(t, K, Old(s)) = s
                                 /\ s < c => Old(s) = s
                                 /\ s >= c => Old(s) \in K
        /\ \A x \in (0 .. c - 1) \cup K : /\ NewPlace(t, K, x) \in 0 .. m - 1
                                          /\ Old(NewPlace(t, K, x)) = x
    BY <1>1, <1>2, <2>3, Places DEF TreeTyped
  <2>7. /\ u.prefix = c /\ u.end = m
        /\ \A s \in 0 .. c - 1 : u.node[s] = t.node[s]
        /\ \A s \in c .. m - 1 : u.node[s] = Moved(t, K, Old(s))
    BY <2>5 DEF Trimmed
  <2>8. \A x \in K : x \in c .. e - 1 /\ x \in 0 .. e - 1 /\ x \in Slots
    BY <1>1, <2>3 DEF Drafted
  <2>9. ASSUME NEW s \in c .. m - 1
        PROVE  /\ Old(s) \in K
               /\ u.node[s].par = NewPlace(t, K, t.node[Old(s)].par)
               /\ u.node[s].tok = t.node[Old(s)].tok /\ u.node[s].pos = t.node[Old(s)].pos
               /\ u.node[s].seq = t.node[Old(s)].seq /\ u.node[s].st = t.node[Old(s)].st
    <3>1. s \in 0 .. m - 1 /\ s >= c
      BY <1>1
    <3>2. Old(s) \in K
      BY <2>6, <3>1
    <3>3. t.node[Old(s)] \in NodeRec(Tok \cup {0}, Seqs)
      BY <1>2, <2>8, <3>2, NodeFields
    <3>4. u.node[s] = Moved(t, K, Old(s))
      BY <2>7
    <3> QED
      BY <3>2, <3>3, <3>4 DEF Moved, NodeRec
  <2> HIDE DEF Old
  <2>10. m \in Nat /\ c < m /\ c - 1 \in 0 .. m - 1 /\ c - 1 \in 0 .. e - 1
         /\ \A s \in c - 1 .. m - 1 : s \in 0 .. m - 1 /\ (s = c - 1 \/ s \in c .. m - 1)
    BY <1>1, <1>2
  <2>11. Old(c - 1) = c - 1
    BY <1>1, <2>6, <2>10
  <2> HIDE DEF m
  <2>12. ASSUME NEW s \in c - 1 .. m - 1
         PROVE  /\ h[s] = Old(s) /\ Old(s) \in c - 1 .. e - 1 /\ NewPlace(t, K, Old(s)) = s
                /\ u.node[s].tok = t.node[Old(s)].tok /\ u.node[s].pos = t.node[Old(s)].pos
                /\ u.node[s].seq = t.node[Old(s)].seq /\ u.node[s].st = t.node[Old(s)].st
    <3>1. h[s] = Old(s) /\ NewPlace(t, K, Old(s)) = s
      BY <2>6, <2>10
    <3>2. CASE s = c - 1
      <4>1. Old(s) = s /\ u.node[s] = t.node[s] /\ s \in c - 1 .. e - 1
        BY <1>1, <2>7, <2>10, <2>11, <3>2
      <4> QED
        BY <3>1, <4>1
    <3>3. CASE s \in c .. m - 1
      <4>1. Old(s) \in c - 1 .. e - 1
        BY <1>1, <2>8, <2>9, <3>3
      <4> QED
        BY <2>9, <3>1, <3>3, <4>1
    <3> QED
      BY <2>10, <3>2, <3>3
  <2>13. ASSUME NEW s \in c .. m - 1
         PROVE  /\ h[s] > 0 /\ u.node[s].par \in c - 1 .. s - 1
                /\ h[u.node[s].par] = t.node[h[s]].par
    <3> DEFINE x == Old(s)
               p == t.node[x].par
    <3>1. x \in K /\ u.node[s].par = NewPlace(t, K, p) /\ s \in c - 1 .. m - 1
      BY <1>1, <2>9, <2>10
    <3>2. x \in c .. e - 1 /\ h[s] = x
      BY <2>8, <2>12, <3>1
    <3>3. u.node[s].par \in c - 1 .. s - 1
      BY <2>0, <2>7, GrownNumbers
    <3> HIDE DEF x
    <3>4. p \in c - 1 .. x - 1 /\ (p >= c => p \in K)
      BY <1>1, <2>4, <3>1, <3>2
    <3> HIDE DEF p
    <3>5. p \in (0 .. c - 1) \cup K
      BY <1>1, <3>2, <3>4
    <3>6. Old(NewPlace(t, K, p)) = p
      BY <2>6, <3>5
    <3>7. u.node[s].par \in c - 1 .. m - 1
      BY <1>1, <2>10, <3>3
    <3>8. h[u.node[s].par] = p
      BY <2>12, <3>1, <3>6, <3>7
    <3>9. h[s] > 0
      BY <1>1, <3>2
    <3> QED
      BY <3>2, <3>3, <3>8, <3>9 DEF p
  <2>14. \A s, k \in c - 1 .. m - 1 : h[s] = h[k] => s = k
    <3> SUFFICES ASSUME NEW s \in c - 1 .. m - 1, NEW k \in c - 1 .. m - 1, h[s] = h[k] PROVE s = k
      OBVIOUS
    <3>1. h[s] = Old(s) /\ h[k] = Old(k) /\ NewPlace(t, K, Old(s)) = s /\ NewPlace(t, K, Old(k)) = k
      BY <2>12
    <3> HIDE DEF h
    <3> QED
      BY <3>1
  <2>15. PathTo(u, c - 1) = PathTo(t, c - 1)
    <3>1. /\ PathTo(t, c - 1) = {Cell(i, t.node[i].tok) : i \in 0 .. c - 2}
          /\ PathTo(u, c - 1) = {Cell(i, u.node[i].tok) : i \in 0 .. c - 2}
      BY <1>2, <2>5, ChainCells DEF m
    <3>2. \A i \in 0 .. c - 2 : i \in 0 .. c - 1
      BY <1>1
    <3>3. \A i \in 0 .. c - 2 : u.node[i].tok = t.node[i].tok
      BY <2>7, <3>2
    <3> QED
      BY <3>1, <3>3
  <2>16. h[c - 1] = c - 1 /\ c - 1 \in c - 1 .. m - 1
    BY <1>1, <2>10, <2>11
  <2>17. \A k \in c - 1 .. m - 1 : h[k] \in t.mask[h[c - 1]] => k = c - 1
    <3>1. t.mask[c - 1] \subseteq 0 .. c - 1
      BY <1>2, <2>10, RowBounds
    <3> SUFFICES ASSUME NEW k \in c - 1 .. m - 1, h[k] \in t.mask[c - 1] PROVE k = c - 1
      BY <2>16
    <3>2. h[k] = c - 1
      <4>1. h[k] \in c - 1 .. e - 1 /\ h[k] \in 0 .. c - 1
        BY <2>12, <3>1
      <4> QED
        BY <1>1, <4>1
    <3> QED
      BY <2>14, <2>16, <3>2
  <2> HIDE DEF h
  <2>18. \A s \in c - 1 .. m - 1 :
            /\ h[s] \in c - 1 .. e - 1
            /\ u.node[s].tok = t.node[h[s]].tok /\ u.node[s].pos = t.node[h[s]].pos
            /\ u.node[s].seq = t.node[h[s]].seq
            /\ u.node[s].st \in {kProcessed, kPostProcessed} => t.node[h[s]].st \in {kProcessed, kPostProcessed}
            /\ u.node[s].st \in {kCandidate, kPostCandidate} =>
                 t.node[h[s]].st \in {kCandidate, kPostCandidate} /\ h[s] # e
    <3>1. \A s \in c - 1 .. m - 1 : h[s] # e
      <4>1. \A x \in c - 1 .. e - 1 : x # e
        BY <1>1
      <4> QED
        BY <2>12, <4>1
    <3> QED
      BY <2>12, <3>1
  <2>19. \A s \in c - 1 .. m - 1 : u.node[s].seq \notin FreeSeqs(po)
    BY <2>18 DEF Backed
  <2>20. \A s \in FreeSeqs(po) : q[s] = {}
    BY DEF Backed
  <2>21. Backed(u, q, po, c, m, m)
    <3>1. PathTo(u, c - 1) = PathTo(t, h[c - 1]) /\ Shaped(u, c, m)
      BY <2>5, <2>15, <2>16 DEF m
    <3>2. Carries(t, c, e, e, u, c, m, h)
      BY <1>2, <2>13, <2>14, <2>17, <2>18, <3>1 DEF Carries
    <3>3. Keeps(u, c, m, q, q, po)
      BY <2>19, <2>20 DEF Keeps
    <3> QED
      BY <3>2, <3>3, BackedCarry
  <2> QED
    BY <2>7, <2>10, <2>15, <2>21 DEF u
<1> QED
  BY <1>4, <1>5

\* What a level decodes: candidates.
Batch(t, c, e, C) ==
  /\ C \subseteq c - 1 .. e - 1
  /\ \A x \in C : t.node[x].st \in {kCandidate, kPostCandidate}

\* The decoded rows, one for the sequence of each.
RowEach(t, C, rows) ==
  /\ \A s \in DOMAIN rows : \E x \in C : s = t.node[x].seq
  /\ DOMAIN rows \subseteq Seqs
  /\ \A x \in C : /\ t.node[x].seq \in DOMAIN rows
                  /\ rows[t.node[x].seq] = Cell(t.node[x].pos, t.node[x].tok)

\* Candidates never share a sequence, so a batch has one row for each of them.
LEMMA BatchRows ==
  ASSUME NEW t, NEW c, NEW r, NEW e, Grown(t, c, r, e), NEW q, NEW po, Backed(t, q, po, c, r, e),
         NEW C, Batch(t, c, e, C)
  PROVE  RowEach(t, C, RowsOf(t, C))
<1>0. /\ C \subseteq c - 1 .. e - 1
      /\ \A x \in C : t.node[x].st \in {kCandidate, kPostCandidate}
  BY DEF Batch
<1> USE <1>0
<1>1. /\ c \in Nat /\ e \in Nat /\ 1 <= c /\ 0 .. e - 1 \subseteq Slots /\ TreeTyped(t)
  BY GrownNumbers DEF Grown
<1>2. \A x \in C : x \in 0 .. e - 1 /\ x \in Slots
  BY <1>0, <1>1
<1>3. \A x \in C : t.node[x].seq \in Seqs
  BY <1>1, <1>2, NodeFields
<1>4. DOMAIN RowsOf(t, C) = {t.node[x].seq : x \in C}
  BY DEF RowsOf
<1>5. ASSUME NEW x \in C, NEW d \in C, t.node[d].seq = t.node[x].seq PROVE d = x
  <2>1. d \in t.mask[x] \/ x \in t.mask[d]
    BY <1>5 DEF Backed
  <2> QED
    BY <1>2, <2>1, CandidatesAreLeaves
<1>6. ASSUME NEW x \in C PROVE RowsOf(t, C)[t.node[x].seq] = Cell(t.node[x].pos, t.node[x].tok)
  <2> DEFINE d == CHOOSE d \in C : t.node[d].seq = t.node[x].seq
  <2>1. RowsOf(t, C)[t.node[x].seq] = Cell(t.node[d].pos, t.node[d].tok)
    BY DEF RowsOf
  <2>2. d \in C /\ t.node[d].seq = t.node[x].seq
    OBVIOUS
  <2> HIDE DEF d
  <2>3. d = x
    BY <1>5, <2>2
  <2> QED
    BY <2>1, <2>3
<1> QED
  BY <1>3, <1>4, <1>6 DEF RowEach

\* A batch llama_decode takes is one of nodes nothing lies at or behind, and a
\* batch of such nodes is taken.
LEMMA BatchTaken ==
  ASSUME NEW t, NEW c, NEW r, NEW e, Grown(t, c, r, e), NEW q, KvTyped(q), NEW po,
         Backed(t, q, po, c, r, e), NEW C, Batch(t, c, e, C)
  PROVE  DecodeOk(q, RowsOf(t, C)) <=> \A x \in C : Fresh(t, q, x)
<1>0. /\ C \subseteq c - 1 .. e - 1
      /\ \A x \in C : t.node[x].st \in {kCandidate, kPostCandidate}
  BY DEF Batch
<1> USE <1>0
<1>1. /\ c \in Nat /\ e \in Nat /\ 1 <= c /\ 0 .. e - 1 \subseteq Slots /\ TreeTyped(t) /\ Shaped(t, c, e)
  BY GrownNumbers DEF Grown
<1>2. \A x \in C : x \in 0 .. e - 1
  BY <1>0, <1>1
<1>2a. RowEach(t, C, RowsOf(t, C))
  BY BatchRows
<1>3. /\ \A s \in DOMAIN RowsOf(t, C) : \E x \in C : s = t.node[x].seq
      /\ \A x \in C : /\ t.node[x].seq \in Seqs /\ t.node[x].seq \in DOMAIN RowsOf(t, C)
                     /\ RowsOf(t, C)[t.node[x].seq] = Cell(t.node[x].pos, t.node[x].tok)
  BY <1>2a DEF RowEach
<1>4. DecodeOk(q, RowsOf(t, C)) <=> \A x \in C : Extends(q, t.node[x].seq, t.node[x].pos)
  <2>1. \A x \in C : RowsOf(t, C)[t.node[x].seq][1] = t.node[x].pos
    BY <1>3 DEF Cell
  <2> QED
    BY <1>3, <2>1 DEF DecodeOk
<1>5. ASSUME NEW x \in C PROVE Extends(q, t.node[x].seq, t.node[x].pos) <=> Fresh(t, q, x)
  <2> DEFINE s == t.node[x].seq
             p == t.node[x].pos
  <2>1. s \in Seqs \cup {CommittedSeq} /\ p \in Nat
    BY <1>1, <1>2, <1>3, PathBelow
  <2>2. p > 0 => \E y \in q[s] : y[1] = p - 1
    <3>1. p > 0 => \E y \in PathTo(t, x) : y[1] = p - 1
      BY <1>1, <1>2, PathBelow
    <3>2. PathTo(t, x) \subseteq q[s]
      BY DEF Backed, Holds
    <3> QED
      BY <3>1, <3>2
  <2>3. Fresh(t, q, x) <=> \A y \in q[s] : y[1] < p
    BY DEF Fresh
  <2> HIDE DEF s, p
  <2>4. Extends(q, s, p) => \A y \in q[s] : y[1] < p
    BY <2>1, ExtendsFresh
  <2>5. (\A y \in q[s] : y[1] < p) => Extends(q, s, p)
    BY <2>1, <2>2, FreshExtends
  <2> QED
    BY <2>3, <2>4, <2>5 DEF s, p
<1> QED
  BY <1>4, <1>5

\* Decoding a batch of candidates and marking them.
LEMMA BackedBatch ==
  ASSUME NEW t, NEW c, NEW r, NEW e, Grown(t, c, r, e), NEW q, KvTyped(q), NEW po,
         Backed(t, q, po, c, r, e), NEW C, Batch(t, c, e, C),
         DecodeOk(q, RowsOf(t, C)),
         NEW status \in {kProcessed, kPostProcessed}, NEW u, u = SetStatus(t, C, status)
  PROVE  /\ Backed(u, Decode(q, RowsOf(t, C)), po, c, r, e)
         /\ \A x \in C : /\ u.node[x].st \in {kProcessed, kPostProcessed}
                         /\ \A y \in Decode(q, RowsOf(t, C))[u.node[x].seq] : y[1] <= u.node[x].pos
         /\ Decode(q, RowsOf(t, C))[CommittedSeq] = q[CommittedSeq]
<1> DEFINE rows == RowsOf(t, C)
<1>0. /\ C \subseteq c - 1 .. e - 1
      /\ \A x \in C : t.node[x].st \in {kCandidate, kPostCandidate}
  BY DEF Batch
<1> USE <1>0
<1>1. /\ c \in Nat /\ e \in Nat /\ 1 <= c /\ 0 .. e - 1 \subseteq Slots /\ TreeTyped(t)
      /\ status \in Status
  BY GrownNumbers DEF Grown, Status
<1>2. Marked(t, C, status, u)
  BY <1>1, StatusFields DEF TreeTyped
<1>3. ASSUME NEW s \in 0 .. e - 1
      PROVE  /\ u.node[s].par = t.node[s].par /\ u.node[s].st = IF s \in C THEN status ELSE t.node[s].st
             /\ u.node[s].tok = t.node[s].tok /\ u.node[s].pos = t.node[s].pos
             /\ u.node[s].seq = t.node[s].seq /\ u.mask[s] = t.mask[s]
  <2>1. u.node[s] = [t.node[s] EXCEPT !.st = IF s \in C THEN status ELSE @] /\ u.mask = t.mask
    BY <1>1, <1>2 DEF Marked
  <2>2. t.node[s] \in NodeRec(Tok \cup {0}, Seqs)
    BY <1>1, NodeFields
  <2> QED
    BY <2>1, <2>2 DEF NodeRec
<1>4. SameRows(t, u, e)
  BY <1>3 DEF SameRows
<1>5. \A i \in c - 1 .. e - 1 : i \in 0 .. e - 1
  BY <1>1
<1>6. \A i \in c - 1 .. e - 1 :
            /\ u.node[i].seq = t.node[i].seq
            /\ i \notin C => u.node[i].st = t.node[i].st
            /\ i \in C => u.node[i].st \in {kProcessed, kPostProcessed}
  BY <1>3, <1>5
<1>7. \A x \in C : t.node[x].st \in {kCandidate, kPostCandidate} /\ Fresh(t, q, x)
  BY BatchTaken
<1>7a. RowEach(t, C, RowsOf(t, C))
  BY BatchRows
<1>8. /\ DOMAIN rows \subseteq Seqs
      /\ \A x \in C : t.node[x].seq \in DOMAIN rows /\ rows[t.node[x].seq] = Cell(t.node[x].pos, t.node[x].tok)
      /\ \A s \in DOMAIN rows : \E x \in C : s = t.node[x].seq
  BY <1>7a DEF RowEach
<1> HIDE DEF rows
<1>8a. Rows(t, q, po, c, e, C, rows, u)
  BY <1>4, <1>6, <1>7, <1>8 DEF Rows
<1>9. /\ Backed(u, Decode(q, rows), po, c, r, e)
      /\ \A x \in C : \A y \in Decode(q, rows)[t.node[x].seq] : y[1] <= t.node[x].pos
      /\ Decode(q, rows)[CommittedSeq] = q[CommittedSeq]
  BY <1>8a, BackedDecode
<1>10. \A x \in C : x \in c - 1 .. e - 1 /\ u.node[x].seq = t.node[x].seq /\ u.node[x].pos = t.node[x].pos
  BY <1>3, <1>5
<1> QED
  BY <1>6, <1>9, <1>10 DEF rows

\* The engine as the first level finds it: the prompt but its last token is on
\* the seed's sequence, or the last round's commit left it so.
LEMMA EngineBacked ==
  ASSUME CInv, pc = "grow", NEW C, C = TopBeams(tree, Candidates(tree), Beams), C # {}
  PROVE  /\ KvTyped(EngineFor(C)) /\ Batch(tree, tree.prefix, tree.end, C)
         /\ Backed(tree, EngineFor(C), pool, tree.prefix, tree.end, tree.end)
         /\ \A x \in C : Fresh(tree, EngineFor(C), x)
         /\ Recurrent => EngineFor(C)[CommittedSeq] = PathTo(tree, tree.prefix - 1)
<1> DEFINE c == tree.prefix
           e == tree.end
           q == EngineFor(C)
<1>1. /\ Grown(tree, c, e, e) /\ bet.st = "none"
      /\ CommittedLen = c /\ RoundEnd = e /\ Extent = e
      /\ KvTyped(kv) /\ pool \in Pool /\ level \in Nat
  <2>1. IInv
    BY DEF CInv
  <2>2. /\ Grown(tree, c, e, e) /\ bet.st = "none"
        /\ CommittedLen = c /\ RoundEnd = e
        /\ KvTyped(kv) /\ pool \in Pool /\ level \in 0 .. BeamLen + ProLen
    BY <2>1, Growing
  <2> QED
    BY <2>2, SpecExecAssumption DEF Extent
<1>2. /\ c \in Nat /\ e \in Nat /\ 1 <= c /\ c <= e /\ e <= MaxLen /\ MaxLen \in Nat
      /\ 0 .. e - 1 \subseteq Slots /\ Shaped(tree, c, e) /\ TreeTyped(tree)
  BY <1>1, GrownNumbers DEF Grown
<1>3. Candidates(tree) \subseteq c - 1 .. e - 1
  <2> SUFFICES ASSUME NEW i \in Candidates(tree) PROVE i \in c - 1 .. e - 1
    OBVIOUS
  <2>1. i \in 0 .. e - 1 /\ tree.node[i].st = 15
    BY DEF Candidates, WithStatus, Live, kCandidate
  <2>2. \A j \in 0 .. c - 2 : tree.node[j].st = 0
    BY <1>1 DEF Grown, kPrompt
  <2> QED
    BY <1>2, <2>1, <2>2
<1>4. Batch(tree, c, e, C)
  <2>1. C \subseteq Candidates(tree)
    BY DEF TopBeams
  <2>2. \A x \in Candidates(tree) : tree.node[x].st = kCandidate
    BY DEF Candidates, WithStatus
  <2> QED
    BY <1>3, <2>1, <2>2 DEF Batch
<1>5. C \subseteq 0 .. e - 1
  BY <1>2, <1>4 DEF Batch
<1>6. KvTyped(q)
  BY <1>1, <1>5, EngineTyped
<1>7. CASE Opening
  <2>1. /\ e = c /\ kv = EmptyCache
        /\ tree.node[c - 1].st = kCandidate /\ tree.node[c - 1].seq = 0
    BY <1>7 DEF CInv, Cached, Opened
  <2>2. C = {c - 1}
    <3>1. \A x \in C : x = c - 1
      BY <1>2, <1>4, <2>1 DEF Batch
    <3> QED
      BY <3>1
  <2>3. Nth(C, 0) = c - 1
    <3>1. IsFiniteSet({c - 1}) /\ Cardinality({c - 1}) = 1
      BY FS_Singleton
    <3>2. c - 1 \in Int /\ 0 \in 0 .. 1 - 1
      BY <1>2
    <3>3. IsFiniteSet(C) /\ C \subseteq Int /\ 0 \in 0 .. Cardinality(C) - 1
      BY <2>2, <3>1, <3>2
    <3>4. Nth(C, 0) \in C
      BY <3>3, NthWorks
    <3> QED
      BY <2>2, <3>4
  <2> DEFINE path == [k \in 1 .. c - 1 |-> Cell(tree.node[k - 1].pos, tree.node[k - 1].tok)]
  <2>4. q = Prefill(kv, path)
    BY <1>7, <2>3 DEF EngineFor, Opening
  <2>5. CellsOf(path) = PathTo(tree, c - 1)
    <3>1. PathTo(tree, c - 1) = {Cell(i, tree.node[i].tok) : i \in 0 .. c - 2}
      BY <1>2, ChainCells
    <3>2. \A i \in 0 .. c - 2 : tree.node[i].pos = i
      <4>1. \A i \in 0 .. c - 2 : i \in 0 .. e - 1 /\ i < c
        BY <1>2
      <4> QED
        BY <1>2, <4>1, RowOfChain
    <3>3. CellsOf(path) = {path[k] : k \in 1 .. c - 1}
      BY DEF CellsOf
    <3>4. \A k \in 1 .. c - 1 : k - 1 \in 0 .. c - 2 /\ path[k] = Cell(k - 1, tree.node[k - 1].tok)
      BY <1>2, <3>2
    <3>5. \A i \in 0 .. c - 2 : i + 1 \in 1 .. c - 1 /\ path[i + 1] = Cell(i, tree.node[i].tok)
      <4>1. \A i \in 0 .. c - 2 : i + 1 \in 1 .. c - 1 /\ (i + 1) - 1 = i
        BY <1>2
      <4> QED
        BY <3>4, <4>1
    <3> HIDE DEF path
    <3> QED
      BY <3>1, <3>3, <3>4, <3>5
  <2> HIDE DEF path
  <2>6. /\ 0 \in Seqs /\ CommittedSeq \notin Seqs /\ 0 \notin FreeSeqs(pool) /\ FreeSeqs(pool) \subseteq Seqs
    BY SeqsAssumption DEF Seqs, CommittedSeq, FreeSeqs
  <2>7. /\ q[0] = PathTo(tree, c - 1)
        /\ Recurrent => q[CommittedSeq] = PathTo(tree, c - 1)
        /\ \A s \in FreeSeqs(pool) : q[s] = {}
    <3>1. DOMAIN kv = Seqs \cup {CommittedSeq} /\ \A s \in Seqs : kv[s] = {}
      BY <2>1 DEF EmptyCache
    <3>2. \A s \in FreeSeqs(pool) : s \in Seqs /\ s # 0 /\ s # CommittedSeq
      BY <2>6
    <3> QED
      BY <2>4, <2>5, <2>6, <3>1, <3>2, SeqsAssumption DEF Prefill
  <2> HIDE DEF q
  <2>8. \A x \in PathTo(tree, c - 1) : x[1] < tree.node[c - 1].pos
    BY <1>2, ChainCells, PathBelow
  <2>9. tree.node[c - 1].pos \in Nat
    BY <1>2, ChainCells, PathBelow
  <2>10. Fresh(tree, q, c - 1)
    BY <2>1, <2>7, <2>8 DEF Fresh
  <2>11. Holds(tree, q, c - 1)
    BY <2>1, <2>7, <2>8 DEF Holds, kCandidate, kProcessed, kPostProcessed
  <2>12. \A i \in c - 1 .. e - 1 : i = c - 1
    BY <1>2, <2>1
  <2>13. c - 1 \in tree.mask[c - 1]
    BY <1>2, ChainCells, RowBounds
  <2>14. Backed(tree, q, pool, c, e, e)
    BY <2>1, <2>6, <2>7, <2>10, <2>11, <2>12, <2>13 DEF Backed
  <2> QED
    BY <1>4, <1>6, <2>2, <2>7, <2>10, <2>14 DEF q
<1>8. CASE ~Opening
  <2>1. q = kv
    BY <1>8 DEF EngineFor, Opening
  <2>2. Backed(tree, kv, pool, c, e, e) /\ (Recurrent => kv[CommittedSeq] = PathTo(tree, c - 1))
    BY <1>1, <1>8 DEF CInv, Cached
  <2>3. \A x \in C : x \in c - 1 .. e - 1 /\ x # e /\ tree.node[x].st \in {kCandidate, kPostCandidate}
    BY <1>2, <1>4 DEF Batch
  <2>4. \A x \in C : Fresh(tree, kv, x)
    BY <2>2, <2>3 DEF Backed
  <2> QED
    BY <1>4, <1>6, <2>1, <2>2, <2>4
<1> QED
  BY <1>7, <1>8

\* Outside a bet, the cache must stand behind the round's tree.
LEMMA PlainCached ==
  ASSUME bet'.st = "none", ~Opening',
         Backed(tree', kv', pool', tree'.prefix, tree'.end, tree'.end),
         Recurrent => kv'[CommittedSeq] = PathTo(tree', tree'.prefix - 1)
  PROVE  Cached'
<1>1. ~Drafting' /\ CommittedLen' = tree'.prefix /\ RoundEnd' = tree'.end /\ Extent' = tree'.end
  BY DEF Drafting, CommittedLen, RoundEnd, Extent
<1>2. \A s \in FreeSeqs(pool') : kv'[s] = {}
  BY DEF Backed
<1> QED
  BY <1>1, <1>2 DEF Cached

\* A request that died touches nothing any more.
LEMMA DieCached ==
  ASSUME Cached, NEW why, Die(why)
  PROVE  Cached'
<1>1. pc' = "fatal" /\ UNCHANGED <<tree, kv, pool, level, prevHit, rpc, bet, gen, srv>>
  BY DEF Die
<1>2. RoundEnd' = RoundEnd /\ Extent' = Extent
  BY <1>1 DEF RoundEnd, Extent, Drafting
<1>3. ~Opening'
  BY <1>1 DEF Opening
<1> QED
  BY <1>1, <1>2, <1>3 DEF Cached

\* One level of the main draft: the batch is always taken, and the cache stays
\* behind the tree.
LEMMA GrowLevelCached ==
  ASSUME CInv, GrowLevel
  PROVE  Cached' /\ (cause' = cause \/ cause' \in {"max_len", "seqs"})
<1>0. PICK C \in {TopBeams(tree, Candidates(tree), Beams)} :
     LET kv0  == EngineFor(C)
         rows == RowsOf(tree, C)
     IN IF ~DecodeOk(kv0, rows) THEN Die("decode")
        ELSE \E top \in [C -> TopKRows] :
          LET t1      == SetStatus(tree, C, kProcessed)
              kv1     == Decode(kv0, rows)
              drafted == Cardinality(Drafted(tree))
              keep    == GrowKeep(t1, C, top)
              forks   == Forks(C, Width, keep)
              kids    == Children(t1, pool, C, Width, top, keep, kCandidate)
          IN IF Squeezed(t1, C) /\ Cardinality(keep) + tree.end > MaxLen
             THEN Die("max_len")
             ELSE IF \/ keep = {}
                     \/ drafted >= Budget /\ ~NewTokenInBudget(t1, C, top, keep)
             THEN /\ tree' = TrimByBudget(t1)
                  /\ kv' = kv1
                  /\ pc' = "validate"
                  /\ UNCHANGED <<pool, level, prevHit, rpc, bet, gen, srv, cause>>
             ELSE IF Cardinality(forks) > Cardinality(FreeSeqs(pool))
             THEN Die("seqs")
             ELSE IF ~AddOk(t1, kids) THEN Die("max_len")
             ELSE /\ tree' = Add(t1, kids)
                  /\ kv' = ForkCache(kv1, t1, pool, C, Width, keep)
                  /\ pool' = AfterAlloc(pool, Cardinality(forks))
                  /\ level' = level + 1
                  /\ UNCHANGED <<pc, prevHit, rpc, bet, gen, srv, cause>>
  BY DEF GrowLevel
<1> DEFINE kv0 == EngineFor(C)
           rows == RowsOf(tree, C)
           t1 == SetStatus(tree, C, kProcessed)
           kv1 == Decode(kv0, rows)
           keep(top) == GrowKeep(t1, C, top)
           forks(top) == Forks(C, Width, keep(top))
           kids(top) == Children(t1, pool, C, Width, top, keep(top), kCandidate)
           c == tree.prefix
           e == tree.end
<1>1. /\ pc = "grow" /\ level < BeamLimit /\ Candidates(tree) # {}
      /\ C = TopBeams(tree, Candidates(tree), Beams)
  BY DEF GrowLevel
<1>1a. \/ ~DecodeOk(kv0, rows)
       \/ Die("max_len")
       \/ Die("seqs")
       \/ \E top \in [C -> TopKRows] :
            /\ tree' = TrimByBudget(t1)
            /\ kv' = kv1
            /\ pc' = "validate"
            /\ UNCHANGED <<pool, level, prevHit, rpc, bet, gen, srv, cause>>
       \/ \E top \in [C -> TopKRows] :
            /\ ~(Cardinality(forks(top)) > Cardinality(FreeSeqs(pool)))
            /\ AddOk(t1, kids(top))
            /\ tree' = Add(t1, kids(top))
            /\ kv' = ForkCache(kv1, t1, pool, C, Width, keep(top))
            /\ pool' = AfterAlloc(pool, Cardinality(forks(top)))
            /\ level' = level + 1
            /\ UNCHANGED <<pc, prevHit, rpc, bet, gen, srv, cause>>
  BY <1>0
<1> HIDE DEF kv0, rows, t1, kv1, keep, forks, kids
<1>2. /\ Grown(tree, c, e, e) /\ bet.st = "none" /\ KvTyped(kv) /\ pool \in Pool
      /\ level \in 0 .. BeamLen + ProLen
  <2>1. IInv
    BY DEF CInv
  <2> QED
    BY <1>1, <2>1, Growing
<1>3. /\ MaxLen \in Nat /\ c \in Nat /\ e \in Nat /\ 1 <= c /\ c <= e /\ e <= MaxLen
      /\ 0 .. e - 1 \subseteq Slots /\ Shaped(tree, c, e)
  BY <1>2, GrownNumbers DEF Grown
<1>4. C # {}
  <2>1. Candidates(tree) \subseteq Slots
    BY <1>3 DEF Candidates, WithStatus, Live
  <2> QED
    BY <1>1, <1>2, <2>1, TopBeamsSome, SpecExecAssumption DEF Grown
<1>5. /\ KvTyped(kv0) /\ Batch(tree, c, e, C)
      /\ Backed(tree, kv0, pool, c, e, e)
      /\ \A x \in C : Fresh(tree, kv0, x)
      /\ Recurrent => kv0[CommittedSeq] = PathTo(tree, c - 1)
  BY <1>1, <1>4, EngineBacked DEF kv0
<1>6. DecodeOk(kv0, rows)
  BY <1>2, <1>5, BatchTaken DEF rows
<1>7. /\ Backed(t1, kv1, pool, c, e, e)
      /\ \A x \in C : /\ t1.node[x].st \in {kProcessed, kPostProcessed}
                      /\ \A y \in kv1[t1.node[x].seq] : y[1] <= t1.node[x].pos
      /\ kv1[CommittedSeq] = kv0[CommittedSeq]
  BY <1>2, <1>5, <1>6, BackedBatch DEF t1, kv1, rows
<1>8. C \subseteq c - 1 .. e - 1 /\ \A x \in C : tree.node[x].st \in {kCandidate, kPostCandidate}
  BY <1>5 DEF Batch
<1>9. Grown(t1, c, e, e) /\ Marked(tree, C, kProcessed, t1) /\ SameRows(tree, t1, MaxLen)
  BY <1>2, <1>8, GrownMark DEF t1
<1>10. t1.prefix = c /\ t1.end = e
  BY <1>9 DEF Marked
<1>11. C \subseteq Slots
  BY <1>3, <1>8 DEF Slots
<1>12. Spent(t1, c, e, C)
  BY <1>2, <1>8, <1>11, MarkSpends DEF t1
<1>13. KvTyped(kv1)
  <2>1. \A i \in C : tree.node[i].tok \in Tok
    <3>1. C \subseteq 0 .. e - 1
      BY <1>3, <1>8
    <3> QED
      BY <1>2, <3>1 DEF Grown
  <2>2. \A s \in DOMAIN rows : rows[s] \in Cells
    BY <1>2, <1>11, <2>1, RowsTyped DEF rows, Grown
  <2> QED
    BY <1>5, <2>2, DecodeTyped DEF kv1
<1>14. PathTo(t1, c - 1) = PathTo(tree, c - 1)
  <2>1. SameRows(tree, t1, e)
    <3>1. \A i \in 0 .. e - 1 : i \in 0 .. MaxLen - 1
      BY <1>3
    <3> QED
      BY <1>9, <3>1 DEF SameRows
  <2>2. c - 1 \in 0 .. e - 1
    BY <1>3
  <2> QED
    BY <1>3, <2>1, <2>2, PathStays
<1>15. Recurrent => kv1[CommittedSeq] = PathTo(t1, c - 1)
  BY <1>5, <1>7, <1>14
<1>16. ASSUME NEW why \in {"seqs", "max_len"}, Die(why)
       PROVE  Cached' /\ cause' \in {"max_len", "seqs"}
  <2>1. Cached'
    BY <1>16, DieCached DEF CInv
  <2> QED
    BY <1>16, <2>1 DEF Die
<1>17. ASSUME NEW top \in [C -> TopKRows],
              tree' = TrimByBudget(t1), kv' = kv1, pc' = "validate",
              UNCHANGED <<pool, level, prevHit, rpc, bet, gen, srv, cause>>
       PROVE  Cached' /\ cause' = cause
  <2> DEFINE u == TrimByBudget(t1)
  <2>1. Grown(t1, t1.prefix, t1.end, t1.end) /\ Backed(t1, kv1, pool, t1.prefix, t1.end, t1.end)
    BY <1>7, <1>9, <1>10
  <2>2. /\ Backed(u, kv1, pool, t1.prefix, u.end, u.end)
        /\ PathTo(u, t1.prefix - 1) = PathTo(t1, t1.prefix - 1)
    BY <2>1, BackedTrim
  <2>3. u.prefix = t1.prefix
    BY <2>1, GrownTrim
  <2> HIDE DEF u
  <2>4. tree' = u /\ pool' = pool /\ bet'.st = "none" /\ ~Opening'
    BY <1>2, <1>17 DEF u, Opening
  <2> QED
    BY <1>10, <1>15, <1>17, <2>2, <2>3, <2>4, PlainCached
<1>18. ASSUME NEW top \in [C -> TopKRows],
              ~(Cardinality(forks(top)) > Cardinality(FreeSeqs(pool))), AddOk(t1, kids(top)),
              tree' = Add(t1, kids(top)), kv' = ForkCache(kv1, t1, pool, C, Width, keep(top)),
              pool' = AfterAlloc(pool, Cardinality(forks(top))), level' = level + 1,
              UNCHANGED <<pc, prevHit, rpc, bet, gen, srv, cause>>
       PROVE  Cached' /\ cause' = cause
  <2>1. keep(top) \subseteq Flats(C, Width)
    BY GrowKeepFlats DEF keep
  <2>2. Width \in 1 .. Width /\ Width \in Nat \ {0} /\ TreeTyped(t1)
    BY <1>9, BeamAssumption DEF Grown
  <2>3. Cardinality(forks(top)) \in Nat
    <3>1. forks(top) \subseteq Flats(C, Width)
      BY <2>1 DEF forks, Forks
    <3> QED
      BY <1>11, <2>2, <3>1, FlatSets
  <2>4. Cardinality(forks(top)) <= Cardinality(FreeSeqs(pool))
    BY <1>18, <2>3, FreeSize
  <2> DEFINE u == Add(t1, kids(top))
  <2>5. Grown(t1, c, t1.end, t1.end) /\ Spent(t1, c, t1.end, C)
        /\ Backed(t1, kv1, pool, c, t1.end, t1.end) /\ C \subseteq c - 1 .. t1.end - 1
    BY <1>7, <1>8, <1>9, <1>10, <1>12
  <2>6. Grown(u, c, u.end, u.end) /\ u.prefix = c /\ SameRows(t1, u, t1.end)
    <3>1. Grown(t1, t1.prefix, t1.end, t1.end) /\ C \subseteq t1.prefix - 1 .. t1.end - 1
          /\ Spent(t1, t1.prefix, t1.end, C)
      BY <1>10, <2>5
    <3> QED
      BY <1>2, <1>10, <1>18, <2>1, <2>4, <3>1, GrowAdds DEF kids, forks
  <2>7. Cardinality(keep(top)) <= MaxLen - t1.end
    <3>1. Len(kids(top)) <= MaxLen - t1.end
      BY <1>18 DEF AddOk
    <3>2. Cardinality(keep(top)) \in Nat
      BY <1>11, <2>1, <2>2, FlatSets
    <3>3. Len(kids(top)) = Cardinality(keep(top))
      BY <3>2 DEF kids, Children
    <3> QED
      BY <3>1, <3>3
  <2>8. Beamed(t1, kv1, c, C)
    BY <1>7, <2>5 DEF Beamed
  <2>9. u = Add(t1, Children(t1, pool, C, Width, top, keep(top), kCandidate))
    BY DEF kids
  <2> HIDE DEF u
  <2>10. /\ Backed(u, ForkCache(kv1, t1, pool, C, Width, keep(top)), AfterAlloc(pool, Cardinality(forks(top))),
                   c, u.end, u.end)
         /\ ForkCache(kv1, t1, pool, C, Width, keep(top))[CommittedSeq] = kv1[CommittedSeq]
    <3>1. kCandidate \in {kCandidate, kPostCandidate}
      OBVIOUS
    <3> DEFINE K == keep(top)
    <3>2. /\ K \subseteq Flats(C, Width) /\ Cardinality(Forks(C, Width, K)) <= Cardinality(FreeSeqs(pool))
          /\ Cardinality(K) <= MaxLen - t1.end /\ Width \in 1 .. Width /\ pool \in Pool
          /\ u = Add(t1, Children(t1, pool, C, Width, top, K, kCandidate))
      BY <1>2, <2>1, <2>2, <2>4, <2>7, <2>9 DEF forks
    <3>3. forks(top) = Forks(C, Width, K)
      BY DEF forks
    <3> HIDE DEF K, c
    <3>4. Bears(t1, c, t1.end, u.end, pool, C, Width, top, K, kCandidate, u)
      BY <2>6, <3>1, <3>2 DEF Bears
    <3>5. /\ Backed(u, ForkCache(kv1, t1, pool, C, Width, K), AfterAlloc(pool, Cardinality(Forks(C, Width, K))),
                   c, u.end, u.end)
          /\ ForkCache(kv1, t1, pool, C, Width, K)[CommittedSeq] = kv1[CommittedSeq]
      BY <1>13, <2>5, <2>8, <3>2, <3>4, BackedFork
    <3> QED
      BY <3>3, <3>5 DEF K
  <2>11. PathTo(u, c - 1) = PathTo(t1, c - 1)
    <3>1. Shaped(t1, c, t1.end) /\ c - 1 \in 0 .. t1.end - 1
      BY <1>3, <1>10, <2>5 DEF Grown
    <3> QED
      BY <2>6, <3>1, PathStays
  <2>12. tree' = u /\ bet'.st = "none" /\ ~Opening'
    <3>1. level' # 0
      BY <1>2, <1>18, SpecExecAssumption
    <3> QED
      BY <1>2, <1>18, <3>1 DEF u, Opening
  <2> QED
    BY <1>15, <1>18, <2>6, <2>10, <2>11, <2>12, PlainCached
<1> QED
  BY <1>1a, <1>6, <1>16, <1>17, <1>18

\* Leaving the loop: never before the first decode.
LEMMA GrowDoneCached ==
  ASSUME CInv, GrowDone
  PROVE  Cached' /\ cause' = cause
<1>1. /\ pc = "grow" /\ tree' = TrimByBudget(tree) /\ pc' = "validate"
      /\ UNCHANGED <<kv, pool, level, prevHit, rpc, bet, gen, srv, cause>>
      /\ level >= BeamLimit \/ Candidates(tree) = {}
  BY DEF GrowDone
<1>2. /\ Grown(tree, tree.prefix, tree.end, tree.end) /\ bet.st = "none"
      /\ CommittedLen = tree.prefix /\ RoundEnd = tree.end
  BY <1>1, Growing DEF CInv
<1>3. /\ tree.prefix \in Nat /\ tree.end \in Nat /\ 1 <= tree.prefix /\ tree.prefix <= tree.end
  BY <1>2, GrownNumbers
<1>4. ~Opening
  <2> SUFFICES ASSUME Opening PROVE FALSE
    OBVIOUS
  <2>1. tree.node[tree.prefix - 1].st = kCandidate /\ ~prevHit /\ level = 0
    BY DEF CInv, Cached, Opened, Opening
  <2>2. tree.prefix - 1 \in 0 .. tree.end - 1
    BY <1>3
  <2>3. Candidates(tree) # {}
    BY <2>1, <2>2 DEF Candidates, WithStatus, Live
  <2>4. BeamLimit = BeamLen /\ BeamLen \in Nat \ {0}
    BY <2>1, SpecExecAssumption DEF BeamLimit
  <2> QED
    BY <1>1, <2>1, <2>3, <2>4
<1>5. /\ Backed(tree, kv, pool, tree.prefix, tree.end, tree.end)
      /\ Recurrent => kv[CommittedSeq] = PathTo(tree, tree.prefix - 1)
  <2>1. Extent = tree.end
    BY <1>2 DEF Extent
  <2> QED
    BY <1>1, <1>2, <1>4, <2>1 DEF CInv, Cached
<1> DEFINE u == TrimByBudget(tree)
<1>6. /\ Backed(u, kv, pool, tree.prefix, u.end, u.end)
      /\ PathTo(u, tree.prefix - 1) = PathTo(tree, tree.prefix - 1)
      /\ u.prefix = tree.prefix
  BY <1>2, <1>5, BackedTrim, GrownTrim
<1> HIDE DEF u
<1>7. tree' = u /\ bet'.st = "none" /\ ~Opening'
  BY <1>1, <1>2 DEF u, Opening
<1> QED
  BY <1>1, <1>5, <1>6, <1>7, PlainCached

-----------------------------------------------------------------------------
(* The bet *)

\* Dropping a bet's subtree leaves the round's nodes behind the cache.
LEMMA BackedShrink ==
  ASSUME NEW t, NEW c, NEW r, NEW e, Grown(t, c, r, e), NEW q, NEW po, Backed(t, q, po, c, r, e)
  PROVE  Backed(t, q, po, c, r, r)
<1>1. \A i \in c - 1 .. r - 1 : i \in c - 1 .. e - 1 /\ i # r
  BY GrownNumbers
<1> QED
  BY <1>1 DEF Backed

\* A cache behind one tree stands behind any other with the same nodes.
LEMMA BackedSame ==
  ASSUME NEW t, NEW u, u.node = t.node, u.mask = t.mask, NEW q, NEW po, NEW c, NEW r, NEW e
  PROVE  /\ Backed(t, q, po, c, r, e) => Backed(u, q, po, c, r, e)
         /\ \A i : PathTo(u, i) = PathTo(t, i)
<1>1. \A i : PathTo(u, i) = PathTo(t, i)
  BY DEF PathTo
<1> QED
  BY <1>1 DEF Backed, Holds, Fresh

\* The decoded leaves that find a scratch sequence.
Serves(t, leaves, served) ==
  served = {l \in Rescored(t, leaves) : Rank(Rescored(t, leaves), l) < Cardinality(FreeSeqs(pool))}

\* The scratch sequences of a bet are ids no branch uses: nothing else changes,
\* and what is still free afterwards is still empty.
LEMMA ScratchApart ==
  ASSUME KvTyped(kv), pool \in Pool, \A s \in FreeSeqs(pool) : kv[s] = {},
         NEW t, NEW leaves, Rescored(t, leaves) \subseteq Slots, NEW served, Serves(t, leaves, served)
  PROVE  LET v    == ScratchCache(t, leaves, served)
             left == FreeSeqs(AfterAlloc(pool, Cardinality(served)))
         IN /\ \A s \in Seqs \cup {CommittedSeq} : s \notin FreeSeqs(pool) => v[s] = kv[s]
            /\ left \subseteq FreeSeqs(pool) /\ \A s \in left : v[s] = {}
            /\ \A l \in served : /\ ScratchSeq(t, leaves, l) \in FreeSeqs(pool)
                                 /\ ScratchSeq(t, leaves, l) \notin left
            /\ \A l, m \in served : l # m => ScratchSeq(t, leaves, l) # ScratchSeq(t, leaves, m)
<1> DEFINE again == Rescored(t, leaves)
           free == Cardinality(FreeSeqs(pool))
           S(l) == ScratchSeq(t, leaves, l)
           v == ScratchCache(t, leaves, served)
           left == FreeSeqs(AfterAlloc(pool, Cardinality(served)))
<1>1. IsFiniteSet(again) /\ again \subseteq Int /\ again \subseteq Slots
  BY SlotSets
<1>2. free \in Nat /\ FreeSeqs(pool) \subseteq Seqs
  BY FreeSize
<1>3. served = {l \in again : Rank(again, l) < free}
  BY DEF Serves
<1>4. \A l \in again : S(l) = AllocNth(pool, Rank(again, l))
  BY DEF ScratchSeq
<1>5. \A s \in Seqs \cup {CommittedSeq} :
         v[s] = IF \E m \in served : S(m) = s
                THEN LET l == CHOOSE l \in served : S(l) = s
                     IN SeqRm(SeqCp(kv, t.node[t.node[l].par].seq, s), s, t.node[l].pos)[s]
                ELSE kv[s]
  <2>1. DOMAIN kv = Seqs \cup {CommittedSeq}
    BY DEF KvTyped
  <2> QED
    BY <2>1 DEF ScratchCache
<1>6. left = FreeSeqs(pool) \ {AllocNth(pool, k) : k \in 0 .. Cardinality(served) - 1}
  <2>1. Cardinality(served) \in Nat
    <3>1. served \subseteq again
      BY <1>3
    <3> QED
      BY <1>1, <3>1, FS_Subset, FS_CardinalityType
  <2> QED
    BY <2>1, AllocTakes
<1> HIDE DEF again, free, S, v, left
<1>7. served \subseteq again /\ IsFiniteSet(served) /\ Cardinality(served) \in Nat
  <2>1. served \subseteq again
    BY <1>3
  <2> QED
    BY <1>1, <2>1, FS_Subset, FS_CardinalityType
<1>8. ASSUME NEW l \in served
      PROVE  /\ Rank(again, l) \in Nat /\ Rank(again, l) < free
             /\ Rank(again, l) \in 0 .. Cardinality(served) - 1
  <2>1. l \in again /\ l \in Int /\ Rank(again, l) < free
    BY <1>1, <1>3, <1>7
  <2>2. Rank(again, l) \in 0 .. Cardinality(again)
    BY <1>1, <2>1, RankRange
  <2>3. \A j \in again : j < l => j \in served
    <3> SUFFICES ASSUME NEW j \in again, j < l PROVE j \in served
      OBVIOUS
    <3>1. Rank(again, j) < Rank(again, l)
      BY <1>1, <2>1, RankGrows
    <3>2. j \in Int
      BY <1>1
    <3>3. Rank(again, j) \in 0 .. Cardinality(again)
      BY <1>1, <3>2, RankRange
    <3>4. Cardinality(again) \in Nat
      BY <1>1, FS_CardinalityType
    <3> QED
      BY <1>2, <1>3, <2>1, <2>2, <3>1, <3>3, <3>4
  <2>4. Rank(again, l) = Rank(served, l)
    <3>1. {j \in again : j < l} = {j \in served : j < l}
      BY <1>7, <2>3
    <3> QED
      BY <3>1 DEF Rank
  <2>5. Rank(served, l) \in 0 .. Cardinality(served) - 1
    BY <1>1, <1>7, <2>1, RankRange
  <2> QED
    BY <1>7, <2>1, <2>4, <2>5
<1>9. \A l \in served : S(l) \in FreeSeqs(pool) /\ S(l) \notin left
  <2> SUFFICES ASSUME NEW l \in served PROVE S(l) \in FreeSeqs(pool) /\ S(l) \notin left
    OBVIOUS
  <2>1. S(l) = AllocNth(pool, Rank(again, l))
    BY <1>4, <1>7
  <2>2. AllocNth(pool, Rank(again, l)) \in FreeSeqs(pool)
    BY <1>8, AllocFree DEF free
  <2>3. AllocNth(pool, Rank(again, l)) \in {AllocNth(pool, k) : k \in 0 .. Cardinality(served) - 1}
    BY <1>8
  <2> QED
    BY <1>6, <2>1, <2>2, <2>3
<1>10. \A l, m \in served : l # m => S(l) # S(m)
  <2> SUFFICES ASSUME NEW l \in served, NEW m \in served, l # m PROVE S(l) # S(m)
    OBVIOUS
  <2>1. l \in again /\ m \in again /\ l \in Int /\ m \in Int
    BY <1>1, <1>7
  <2>2. Rank(again, l) # Rank(again, m)
    <3>1. Nth(again, Rank(again, l)) = l /\ Nth(again, Rank(again, m)) = m
      BY <1>1, <2>1, NthOfRank
    <3> QED
      BY <3>1
  <2>3. AllocNth(pool, Rank(again, l)) # AllocNth(pool, Rank(again, m))
    BY <1>8, <2>2, AllocDiffers DEF free
  <2> QED
    BY <1>4, <2>1, <2>3
<1>11. \A s \in Seqs \cup {CommittedSeq} : s \notin FreeSeqs(pool) => v[s] = kv[s]
  BY <1>5, <1>9
<1>12. left \subseteq FreeSeqs(pool) /\ \A s \in left : v[s] = {}
  <2>1. left \subseteq FreeSeqs(pool)
    BY <1>6
  <2>2. \A s \in left : s \in Seqs /\ kv[s] = {}
    BY <1>2, <2>1
  <2>3. \A s \in left : v[s] = kv[s]
    BY <1>5, <1>9, <2>2
  <2> QED
    BY <2>1, <2>2, <2>3
<1> QED
  BY <1>9, <1>10, <1>11, <1>12 DEF S, v, left

\* The frontier's rows: an undecoded leaf on its own sequence, a decoded one on
\* its scratch sequence.
LEMMA FrontierRows ==
  ASSUME NEW t, NEW c, NEW e, Grown(t, c, e, e), NEW leaves, leaves \subseteq c .. e - 1,
         \A x \in leaves : \A i \in c .. e - 1 : t.node[i].par # x,
         NEW q, NEW po, Backed(t, q, po, c, e, e),
         \A l \in Rescored(t, leaves) :
            /\ ScratchSeq(t, leaves, l) \in Seqs /\ ScratchSeq(t, leaves, l) \notin FreeSeqs(po)
            /\ \A i \in c - 1 .. e - 1 : t.node[i].seq # ScratchSeq(t, leaves, l),
         NEW u, u = SetStatus(t, leaves, kProcessed)
  PROVE  Rows(t, q, po, c, e, leaves \ Rescored(t, leaves), LeafRows(t, leaves), u)
<1> DEFINE again == Rescored(t, leaves)
           L == leaves \ again
           S(l) == ScratchSeq(t, leaves, l)
           Id(l) == IF l \in again THEN S(l) ELSE t.node[l].seq
           rows == LeafRows(t, leaves)
<1>1. /\ MaxLen \in Nat /\ c \in Nat /\ e \in Nat /\ 1 <= c /\ c <= e /\ e <= MaxLen
      /\ Shaped(t, c, e) /\ TreeTyped(t) /\ 0 .. e - 1 \subseteq Slots
  BY GrownNumbers DEF Grown
<1>2. /\ leaves \subseteq c - 1 .. e - 1 /\ leaves \subseteq 0 .. e - 1 /\ leaves \subseteq Slots
      /\ \A i \in c - 1 .. e - 1 : i \in 0 .. e - 1 /\ i \in Slots
  <2>1. leaves \subseteq c - 1 .. e - 1 /\ leaves \subseteq 0 .. e - 1
        /\ \A i \in c - 1 .. e - 1 : i \in 0 .. e - 1
    BY <1>1
  <2> QED
    BY <1>1, <2>1
<1>3. \A l \in leaves : l \in again <=> t.node[l].st = kProcessed
  BY DEF Rescored, WithStatus
<1>4. \A l \in again : l \in leaves
  BY DEF Rescored, WithStatus
<1>5. \A l \in leaves : t.node[l].st \in {kCandidate, kProcessed} /\ t.node[l].seq \in Seqs
  <2>1. \A l \in leaves : t.node[l].st \in {kCandidate, kProcessed}
    BY <1>2 DEF Grown
  <2> QED
    BY <1>1, <1>2, <2>1, NodeFields
<1>6. rows = [s \in {Id(l) : l \in leaves} |->
                Cell(t.node[CHOOSE m \in leaves : Id(m) = s].pos, t.node[CHOOSE m \in leaves : Id(m) = s].tok)]
  BY DEF LeafRows
<1> HIDE DEF again, S, Id, rows
<1>7. \A l \in leaves : Id(l) = IF l \in again THEN S(l) ELSE t.node[l].seq
  BY DEF Id
<1>8. \A l \in again : /\ S(l) \in Seqs /\ S(l) \notin FreeSeqs(po)
                       /\ \A i \in c - 1 .. e - 1 : t.node[i].seq # S(l)
  BY DEF again, S
<1>9. \A x \in L : t.node[x].st \in {kCandidate, kPostCandidate} /\ Fresh(t, q, x)
  <2> SUFFICES ASSUME NEW x \in L PROVE t.node[x].st \in {kCandidate, kPostCandidate} /\ Fresh(t, q, x)
    OBVIOUS
  <2>1. x \in leaves /\ t.node[x].st = kCandidate
    BY <1>3, <1>5
  <2>2. x \in c - 1 .. e - 1 /\ x # e
    BY <1>1, <1>2, <2>1
  <2> QED
    BY <2>1, <2>2 DEF Backed
<1>10. DOMAIN rows = {Id(l) : l \in leaves}
  BY <1>6
<1>11. DOMAIN rows \subseteq Seqs
  BY <1>5, <1>7, <1>8, <1>10
<1>12. ASSUME NEW x \in L
       PROVE  t.node[x].seq \in DOMAIN rows /\ rows[t.node[x].seq] = Cell(t.node[x].pos, t.node[x].tok)
  <2>1. x \in leaves /\ Id(x) = t.node[x].seq /\ x \in c - 1 .. e - 1
    BY <1>2, <1>7
  <2>2. t.node[x].seq \in DOMAIN rows
    BY <1>10, <2>1
  <2> DEFINE m == CHOOSE m \in leaves : Id(m) = t.node[x].seq
  <2>3. m \in leaves /\ Id(m) = t.node[x].seq
    BY <2>1
  <2>4. rows[t.node[x].seq] = Cell(t.node[m].pos, t.node[m].tok)
    BY <1>6, <1>10, <2>2
  <2> HIDE DEF m
  <2>5. m \notin again
    BY <1>7, <1>8, <2>1, <2>3
  <2>6. t.node[m].seq = t.node[x].seq /\ m \in c - 1 .. e - 1
    BY <1>2, <1>7, <2>3, <2>5
  <2>7. m \in t.mask[x] \/ x \in t.mask[m]
    BY <2>1, <2>6 DEF Backed
  <2>8. \A j \in 0 .. e - 1 : x \in t.mask[j] => x = j
    BY <2>1, CandidatesAreLeaves
  <2>9. \A j \in 0 .. e - 1 : m \in t.mask[j] => m = j
    BY <2>3, <2>6, CandidatesAreLeaves
  <2>10. m = x
    BY <1>2, <2>1, <2>6, <2>7, <2>8, <2>9
  <2> QED
    BY <2>2, <2>4, <2>10
<1>13. ASSUME NEW s \in DOMAIN rows
       PROVE  \/ \E x \in L : s = t.node[x].seq
              \/ s \notin FreeSeqs(po) /\ \A i \in c - 1 .. e - 1 : t.node[i].seq # s
  <2>1. PICK l \in leaves : s = Id(l)
    BY <1>10
  <2> QED
    BY <1>7, <1>8, <2>1
<1>14. Marked(t, leaves, kProcessed, u) /\ SameRows(t, u, MaxLen)
  BY <1>2, GrownMark
<1>15. SameRows(t, u, e)
  <2>1. \A i \in 0 .. e - 1 : i \in 0 .. MaxLen - 1
    BY <1>1
  <2> QED
    BY <1>14, <2>1 DEF SameRows
<1>16. \A i \in c - 1 .. e - 1 :
         /\ u.node[i].seq = t.node[i].seq
         /\ i \notin L => u.node[i].st = t.node[i].st
         /\ i \in L => u.node[i].st \in {kProcessed, kPostProcessed}
  <2> SUFFICES ASSUME NEW i \in c - 1 .. e - 1
               PROVE  /\ u.node[i].seq = t.node[i].seq
                      /\ i \notin L => u.node[i].st = t.node[i].st
                      /\ i \in L => u.node[i].st \in {kProcessed, kPostProcessed}
    OBVIOUS
  <2>1. u.node[i] = [t.node[i] EXCEPT !.st = IF i \in leaves THEN kProcessed ELSE @]
    BY <1>2, <1>14 DEF Marked
  <2>2. t.node[i] \in NodeRec(Tok \cup {0}, Seqs)
    BY <1>1, <1>2, NodeFields
  <2>3. u.node[i].seq = t.node[i].seq /\ u.node[i].st = IF i \in leaves THEN kProcessed ELSE t.node[i].st
    BY <2>1, <2>2 DEF NodeRec
  <2> QED
    BY <1>3, <2>3
<1>17. L \subseteq c - 1 .. e - 1
  BY <1>2
<1> HIDE DEF L
<1>18. Rows(t, q, po, c, e, L, rows, u)
  BY <1>9, <1>11, <1>12, <1>13, <1>15, <1>16, <1>17 DEF Rows
<1> QED
  BY <1>18 DEF L, again, rows

\* The root of a bet hangs off a decoded leaf on a fresh copy of its sequence.
LEMMA BackedRoot ==
  ASSUME NEW t, NEW c, NEW e, Grown(t, c, e, e), NEW q, KvTyped(q), NEW po \in Pool,
         FreeSeqs(po) # {}, Backed(t, q, po, c, e, e),
         NEW l \in c - 1 .. e - 1, t.node[l].st \in {kProcessed, kPostProcessed},
         NEW u, Grown(u, c, e, e + 1), SameRows(t, u, e),
         \A i \in c - 1 .. e - 1 : u.node[i].seq = t.node[i].seq /\ u.node[i].st = t.node[i].st,
         u.node[e].par = l, u.node[e].seq = AllocNth(po, 0), u.node[e].st = kPostCandidate
  PROVE  /\ Backed(u, SeqCp(q, t.node[l].seq, AllocNth(po, 0)), AfterAlloc(po, 1), c, e, e + 1)
         /\ SeqCp(q, t.node[l].seq, AllocNth(po, 0))[CommittedSeq] = q[CommittedSeq]
<1> DEFINE root == AllocNth(po, 0)
           src == t.node[l].seq
           v == SeqCp(q, src, root)
           po2 == AfterAlloc(po, 1)
<1>1. /\ MaxLen \in Nat /\ c \in Nat /\ e \in Nat /\ 1 <= c /\ c <= e /\ e <= MaxLen
      /\ Shaped(t, c, e) /\ TreeTyped(t) /\ 0 .. e - 1 \subseteq Slots
  BY GrownNumbers DEF Grown
<1>2. \A i \in c - 1 .. e - 1 : i \in 0 .. e - 1 /\ i \in Slots /\ i # e
  <2>1. \A i \in c - 1 .. e - 1 : i \in 0 .. e - 1 /\ i # e
    BY <1>1
  <2> QED
    BY <1>1, <2>1
<1>3. Shaped(u, c, e + 1) /\ e \in 0 .. (e + 1) - 1 /\ e > 0
  BY <1>1 DEF Grown
<1>4. root \in FreeSeqs(po) /\ root \in Seqs
  <2>1. FreeSeqs(po) \subseteq Seqs /\ IsFiniteSet(FreeSeqs(po)) /\ Cardinality(FreeSeqs(po)) \in Nat
    BY FreeSize
  <2>2. Cardinality(FreeSeqs(po)) # 0
    BY <2>1, FS_EmptySet
  <2>3. 0 \in Nat /\ 0 < Cardinality(FreeSeqs(po))
    BY <2>1, <2>2
  <2> QED
    BY <2>1, <2>3, AllocFree
<1>5. FreeSeqs(po2) = FreeSeqs(po) \ {root}
  <2>1. FreeSeqs(po2) = FreeSeqs(po) \ {AllocNth(po, k) : k \in 0 .. 1 - 1}
    BY AllocTakes
  <2>2. 0 .. 1 - 1 = {0}
    OBVIOUS
  <2> QED
    BY <2>1, <2>2
<1>6. DOMAIN q = Seqs \cup {CommittedSeq} /\ CommittedSeq \notin Seqs /\ src \in Seqs
  <2>1. DOMAIN q = Seqs \cup {CommittedSeq} /\ CommittedSeq \notin Seqs
    BY SeqsAssumption DEF KvTyped, Seqs, CommittedSeq
  <2> QED
    BY <1>1, <1>2, <2>1, NodeFields
<1>7. /\ \A s \in Seqs \cup {CommittedSeq} : s # root => v[s] = q[s]
      /\ v[root] = q[root] \cup q[src]
  BY <1>4, <1>6 DEF SeqCp
<1>8. v[root] = q[src]
  BY <1>4, <1>7 DEF Backed
<1>9. \A i \in c - 1 .. e - 1 : /\ u.node[i].tok = t.node[i].tok /\ u.node[i].pos = t.node[i].pos
                                /\ u.mask[i] = t.mask[i] /\ u.node[i].seq = t.node[i].seq
                                /\ u.node[i].st = t.node[i].st
                                /\ PathTo(u, i) = PathTo(t, i)
  <2>1. \A i \in c - 1 .. e - 1 : PathTo(u, i) = PathTo(t, i)
    BY <1>1, <1>2, PathStays
  <2>2. \A i \in c - 1 .. e - 1 : /\ u.node[i].tok = t.node[i].tok /\ u.node[i].pos = t.node[i].pos
                                  /\ u.mask[i] = t.mask[i]
    BY <1>2 DEF SameRows
  <2> QED
    BY <2>1, <2>2
<1>10. \A i \in c - 1 .. e - 1 : t.node[i].seq \in Seqs /\ t.node[i].seq # root /\ t.node[i].seq \notin FreeSeqs(po)
  <2>1. \A i \in c - 1 .. e - 1 : t.node[i].seq \in Seqs
    BY <1>1, <1>2, NodeFields
  <2>2. \A i \in c - 1 .. e - 1 : t.node[i].seq \notin FreeSeqs(po)
    BY DEF Backed
  <2> QED
    BY <1>4, <2>1, <2>2
<1> HIDE DEF root, src, v, po2
<1>11. u.node[e].seq = root /\ u.node[e].par = l /\ u.node[e].st = kPostCandidate
  BY DEF root
<1>12. \A i \in c - 1 .. (e + 1) - 1 : i \in c - 1 .. e - 1 \/ i = e
  BY <1>1
<1>13. \A i \in c - 1 .. e - 1 : v[u.node[i].seq] = q[t.node[i].seq]
  BY <1>7, <1>9, <1>10
<1>14. \A i \in c - 1 .. e - 1 : Holds(u, v, i) /\ (t.node[i].st \in {kCandidate, kPostCandidate} => Fresh(u, v, i))
  <2> SUFFICES ASSUME NEW i \in c - 1 .. e - 1
               PROVE  Holds(u, v, i) /\ (t.node[i].st \in {kCandidate, kPostCandidate} => Fresh(u, v, i))
    OBVIOUS
  <2>1. Holds(t, q, i) /\ (t.node[i].st \in {kCandidate, kPostCandidate} => Fresh(t, q, i))
    BY <1>2 DEF Backed
  <2> QED
    BY <1>9, <1>13, <2>1 DEF Holds, Fresh
<1>15. Holds(u, v, e)
  <2>1. PathTo(u, e) = PathTo(u, l) \cup {Cell(u.node[l].pos, u.node[l].tok)}
    BY <1>3, <1>11, PathBelow
  <2>2. u.node[e].pos = t.node[l].pos + 1
    <3>1. Hangs(u, c, e)
      <4>1. e \in 1 .. (e + 1) - 1
        BY <1>1
      <4> QED
        BY <1>3, <4>1 DEF Shaped
    <3> QED
      BY <1>9, <1>11, <3>1 DEF Hangs
  <2>3. /\ {y \in q[src] : y[1] < t.node[l].pos} = PathTo(t, l)
        /\ {y \in q[src] : y[1] = t.node[l].pos} = {Cell(t.node[l].pos, t.node[l].tok)}
    BY DEF Backed, Holds, src
  <2>4. t.node[l].pos \in Nat /\ \A y \in q[src] : y[1] \in Nat
    <3>1. t.node[l].pos \in Nat
      BY <1>1, <1>2, PathBelow
    <3>2. q[src] \subseteq Cells
      BY <1>6 DEF KvTyped
    <3>3. \A y \in Cells : y[1] \in Nat
      BY MaxLenAssumption DEF Cells
    <3> QED
      BY <3>1, <3>2, <3>3
  <2>5. {y \in q[src] : y[1] < t.node[l].pos + 1}
          = {y \in q[src] : y[1] < t.node[l].pos} \cup {y \in q[src] : y[1] = t.node[l].pos}
    BY <2>4
  <2>6. v[u.node[e].seq] = q[src]
    BY <1>8, <1>11
  <2> QED
    BY <1>9, <1>11, <2>1, <2>2, <2>3, <2>5, <2>6 DEF Holds, kPostCandidate, kProcessed, kPostProcessed
<1>16. \A i, j \in c - 1 .. (e + 1) - 1 : u.node[i].seq = u.node[j].seq => i \in u.mask[j] \/ j \in u.mask[i]
  <2> SUFFICES ASSUME NEW i \in c - 1 .. (e + 1) - 1, NEW j \in c - 1 .. (e + 1) - 1, u.node[i].seq = u.node[j].seq
               PROVE  i \in u.mask[j] \/ j \in u.mask[i]
    OBVIOUS
  <2>1. CASE i \in c - 1 .. e - 1 /\ j \in c - 1 .. e - 1
    <3>1. t.node[i].seq = t.node[j].seq
      BY <1>9, <2>1
    <3>2. i \in t.mask[j] \/ j \in t.mask[i]
      BY <2>1, <3>1 DEF Backed
    <3> QED
      BY <1>9, <2>1, <3>2
  <2>2. CASE i = e /\ j = e
    BY <1>3, <2>2, RowBounds
  <2> QED
    BY <1>9, <1>10, <1>11, <1>12, <2>1, <2>2
<1>17. \A i \in c - 1 .. (e + 1) - 1 : u.node[i].seq \notin FreeSeqs(po2)
  BY <1>5, <1>9, <1>10, <1>11, <1>12
<1>18. \A s \in FreeSeqs(po2) : v[s] = {}
  <2>1. FreeSeqs(po) \subseteq Seqs
    BY FreeSize
  <2> QED
    BY <1>5, <1>7, <2>1 DEF Backed
<1>19. Backed(u, v, po2, c, e, e + 1)
  BY <1>9, <1>12, <1>14, <1>15, <1>16, <1>17, <1>18 DEF Backed
<1>20. v[CommittedSeq] = q[CommittedSeq]
  BY <1>4, <1>6, <1>7
<1> QED
  BY <1>19, <1>20 DEF v, po2, root, src

\* No bet: the round's tree must stand in front of the cache.
LEMMA NoBetCached ==
  ASSUME NEW t, NEW kvp, NEW poolp, NoBetPlaced(t, kvp, poolp),
         Backed(t, kvp, poolp, t.prefix, t.end, t.end),
         Recurrent => kvp[CommittedSeq] = PathTo(t, t.prefix - 1)
  PROVE  Cached' /\ cause' = cause
<1>1. tree' = t /\ kv' = kvp /\ pool' = poolp /\ pc' = "join" /\ bet'.st = "none" /\ cause' = cause
  BY DEF NoBetPlaced, NoBet
<1>2. ~Opening'
  BY <1>1 DEF Opening
<1> QED
  BY <1>1, <1>2, PlainCached

\* Draft up to its loop: what it scores goes to scratch sequences or where the
\* leaves are to be decoded, and the root of the bet to a copy of its own.
LEMMA ChooseBetCached ==
  ASSUME CInv, ChooseBet
  PROVE  Cached' /\ cause' = cause
<1>0. PICK leaves \in {FrontierLeaves(tree)} :
     LET again  == Rescored(tree, leaves)
         free   == Cardinality(FreeSeqs(pool))
         served == {l \in again : Rank(again, l) < free}
         kv1    == ScratchCache(tree, leaves, served)
         pool1  == AfterAlloc(pool, Cardinality(served))
         rows   == LeafRows(tree, leaves)
     IN IF MaxLen - tree.end < 2 \/ leaves = {}
        THEN NoBetPlaced(tree, kv, pool)
        ELSE IF Cardinality(again) > free \/ ~DecodeOk(kv1, rows)
        THEN NoBetPlaced(tree, kv1, pool1)
        ELSE \E top \in [leaves -> TopKRows] :
          LET kv2  == Decode(kv1, rows)
              t1   == SetStatus(tree, leaves, kProcessed)
              leaf == BestLeaf(tree, leaves, top)
              root == AllocNth(pool1, 0)
              kid  == [tok |-> top[leaf][1].tok,
                       pos |-> tree.node[leaf].pos + 1,
                       par |-> leaf,
                       st  |-> kPostCandidate,
                       lp  |-> 0,
                       seq |-> root]
          IN IF FreeSeqs(pool1) = {} THEN NoBetPlaced(t1, kv2, pool1)
             ELSE /\ tree' = Add(SetPrefixLen(t1, tree.end), <<kid>>)
                  /\ kv' = SeqCp(kv2, tree.node[leaf].seq, root)
                  /\ pool' = AfterAlloc(pool1, 1)
                  /\ bet' = [NoBet EXCEPT !.st = "drafting",
                               !.leaf = leaf, !.tok = kid.tok,
                               !.prefix = tree.prefix, !.end = tree.end]
                  /\ level' = 0
                  /\ UNCHANGED <<pc, prevHit, rpc, gen, srv, cause>>
  BY DEF ChooseBet
<1> DEFINE again  == Rescored(tree, leaves)
           free   == Cardinality(FreeSeqs(pool))
           served == {l \in again : Rank(again, l) < free}
           kv1    == ScratchCache(tree, leaves, served)
           pool1  == AfterAlloc(pool, Cardinality(served))
           rows   == LeafRows(tree, leaves)
           kv2  == Decode(kv1, rows)
           t1   == SetStatus(tree, leaves, kProcessed)
           leaf(top) == BestLeaf(tree, leaves, top)
           root == AllocNth(pool1, 0)
           kid(top)  == [tok |-> top[leaf(top)][1].tok,
                         pos |-> tree.node[leaf(top)].pos + 1,
                         par |-> leaf(top),
                         st  |-> kPostCandidate,
                         lp  |-> 0,
                         seq |-> root]
<1>1. pc = "bet" /\ bet.st = "none" /\ leaves = FrontierLeaves(tree)
  BY DEF ChooseBet
<1>2. \/ NoBetPlaced(tree, kv, pool)
      \/ NoBetPlaced(tree, kv1, pool1)
      \/ NoBetPlaced(t1, kv2, pool1) /\ ~(Cardinality(again) > free)
      \/ /\ ~(Cardinality(again) > free)
         /\ ~(MaxLen - tree.end < 2) /\ leaves # {} /\ FreeSeqs(pool1) # {}
         /\ \E top \in [leaves -> TopKRows] :
              /\ tree' = Add(SetPrefixLen(t1, tree.end), <<kid(top)>>)
              /\ kv' = SeqCp(kv2, tree.node[leaf(top)].seq, root)
              /\ pool' = AfterAlloc(pool1, 1)
              /\ bet' = [NoBet EXCEPT !.st = "drafting",
                           !.leaf = leaf(top), !.tok = kid(top).tok,
                           !.prefix = tree.prefix, !.end = tree.end]
              /\ level' = 0
              /\ UNCHANGED <<pc, prevHit, rpc, gen, srv, cause>>
  BY <1>0
<1> HIDE DEF kv1, pool1, rows, kv2, t1, leaf, root, kid, served, free, again
<1>3. /\ Grown(tree, tree.prefix, tree.end, tree.end)
      /\ CommittedLen = tree.prefix /\ RoundEnd = tree.end /\ Extent = tree.end
      /\ KvTyped(kv) /\ pool \in Pool
  BY <1>1, Choosing DEF CInv
<1>4. /\ MaxLen \in Nat /\ tree.prefix \in Nat /\ tree.end \in Nat
      /\ 1 <= tree.prefix /\ tree.prefix <= tree.end /\ tree.end <= MaxLen
      /\ 0 .. tree.end - 1 \subseteq Slots
      /\ \A i \in 0 .. tree.end - 1 : tree.node[i].pos \in 0 .. i /\ tree.node[i].pos < MaxLen
      /\ TreeTyped(tree)
      /\ \A i \in 0 .. tree.end - 1 : tree.node[i].tok \in Tok
  BY <1>3, GrownNumbers DEF Grown
<1>5. leaves \subseteq tree.prefix .. tree.end - 1
  BY <1>1 DEF FrontierLeaves, TopBeams, Drafted
<1>6. /\ leaves \subseteq 0 .. tree.end - 1 /\ leaves \subseteq Slots
      /\ leaves \subseteq tree.prefix - 1 .. tree.end - 1
  <2>1. leaves \subseteq 0 .. tree.end - 1 /\ leaves \subseteq tree.prefix - 1 .. tree.end - 1
    BY <1>4, <1>5
  <2> QED
    BY <1>4, <2>1
<1>7. again \subseteq Slots /\ free \in Nat /\ IsFiniteSet(again) /\ again \subseteq Int
  <2>1. again \subseteq Slots /\ free \in Nat
    BY <1>6, FreeSize DEF again, free, Rescored, WithStatus
  <2> QED
    BY <2>1, SlotSets
<1>8. served \subseteq again /\ Cardinality(served) \in Nat /\ Cardinality(served) <= free
  BY <1>7, ServedFit DEF served
<1>9. pool1 \in Pool
  BY <1>3, <1>8, AllocTyped DEF pool1, free
<1>10. KvTyped(kv1)
  BY <1>3, <1>4, <1>7, <1>8, ScratchTyped DEF kv1
<1>11. KvTyped(kv2)
  <2>1. \A s \in DOMAIN rows : rows[s] \in Cells
    BY <1>4, <1>6, LeafRowsTyped DEF rows
  <2> QED
    BY <1>10, <2>1, DecodeTyped DEF kv2
<1>12. /\ Grown(t1, tree.prefix, tree.end, tree.end)
       /\ Marked(tree, leaves, kProcessed, t1) /\ SameRows(tree, t1, MaxLen)
  BY <1>3, <1>6, GrownMark DEF t1
<1>13. t1.prefix = tree.prefix /\ t1.end = tree.end
  BY <1>12 DEF Marked
<1>14. SameRows(tree, t1, tree.end) /\ SameRows(tree, tree, tree.end)
  <2>1. \A i \in 0 .. tree.end - 1 : i \in 0 .. MaxLen - 1
    BY <1>4
  <2> QED
    BY <1>12, <2>1 DEF SameRows
<1>15. /\ Backed(tree, kv, pool, tree.prefix, tree.end, tree.end)
       /\ Recurrent => kv[CommittedSeq] = PathTo(tree, tree.prefix - 1)
       /\ \A s \in FreeSeqs(pool) : kv[s] = {}
  <2>1. ~Opening /\ pc # "fatal"
    BY <1>1 DEF Opening
  <2> QED
    BY <1>3, <2>1 DEF CInv, Cached
<1>16. /\ \A s \in Seqs \cup {CommittedSeq} : s \notin FreeSeqs(pool) => kv1[s] = kv[s]
       /\ FreeSeqs(pool1) \subseteq FreeSeqs(pool) /\ \A s \in FreeSeqs(pool1) : kv1[s] = {}
       /\ \A l \in served : /\ ScratchSeq(tree, leaves, l) \in FreeSeqs(pool)
                            /\ ScratchSeq(tree, leaves, l) \notin FreeSeqs(pool1)
  <2>1. Rescored(tree, leaves) \subseteq Slots
    BY <1>7 DEF again
  <2>2. Serves(tree, leaves, served)
    BY DEF Serves, served, again, free
  <2>3. LET v    == ScratchCache(tree, leaves, served)
            left == FreeSeqs(AfterAlloc(pool, Cardinality(served)))
        IN /\ \A s \in Seqs \cup {CommittedSeq} : s \notin FreeSeqs(pool) => v[s] = kv[s]
           /\ left \subseteq FreeSeqs(pool) /\ \A s \in left : v[s] = {}
           /\ \A l \in served : /\ ScratchSeq(tree, leaves, l) \in FreeSeqs(pool)
                                /\ ScratchSeq(tree, leaves, l) \notin left
    BY <1>3, <1>15, <2>1, <2>2, ScratchApart
  <2> QED
    BY <2>3 DEF kv1, pool1
<1>17. \A i \in tree.prefix - 1 .. tree.end - 1 : i \in 0 .. tree.end - 1 /\ i \in Slots
  <2>1. \A i \in tree.prefix - 1 .. tree.end - 1 : i \in 0 .. tree.end - 1
    BY <1>4
  <2> QED
    BY <1>4, <2>1
<1>18. Backed(tree, kv1, pool1, tree.prefix, tree.end, tree.end) /\ kv1[CommittedSeq] = kv[CommittedSeq]
  <2>1. \A i \in tree.prefix - 1 .. tree.end - 1 :
           tree.node[i].seq \notin FreeSeqs(pool) /\ tree.node[i].seq \in Seqs
    <3>1. \A i \in tree.prefix - 1 .. tree.end - 1 : tree.node[i].seq \notin FreeSeqs(pool)
      BY <1>15 DEF Backed
    <3> QED
      BY <1>4, <1>17, <3>1, NodeFields
  <2>2. \A i \in tree.prefix - 1 .. tree.end - 1 : kv1[tree.node[i].seq] = kv[tree.node[i].seq]
    BY <1>16, <2>1
  <2>3. CommittedSeq \notin FreeSeqs(pool)
    BY SeqsAssumption DEF FreeSeqs, Seqs, CommittedSeq
  <2>4. \A i \in tree.prefix - 1 .. tree.end - 1 :
           /\ Holds(tree, kv1, i)
           /\ tree.node[i].st \in {kCandidate, kPostCandidate} /\ i # tree.end => Fresh(tree, kv1, i)
    BY <1>15, <2>2 DEF Backed, Holds, Fresh
  <2> QED
    BY <1>15, <1>16, <2>1, <2>3, <2>4 DEF Backed
<1>19. ASSUME ~(Cardinality(again) > free)
       PROVE  /\ Backed(t1, kv2, pool1, tree.prefix, tree.end, tree.end)
              /\ kv2[CommittedSeq] = kv[CommittedSeq]
  <2>1. again \subseteq served
    <3> SUFFICES ASSUME NEW l \in again PROVE l \in served
      OBVIOUS
    <3>1. Rank(again, l) \in 0 .. Cardinality(again) - 1
      BY <1>7, RankRange
    <3>2. Cardinality(again) \in Nat
      BY <1>7, FS_CardinalityType
    <3> QED
      BY <1>7, <1>19, <3>1, <3>2 DEF served
  <2>2. \A i \in tree.prefix .. tree.end - 1, x \in leaves : tree.node[i].par # x
    <3>1. \A i \in tree.prefix .. tree.end - 1 : i \in Live(tree)
      BY <1>4 DEF Live
    <3> QED
      BY <1>1, <3>1 DEF FrontierLeaves, TopBeams
  <2>3. \A l \in Rescored(tree, leaves) :
            /\ ScratchSeq(tree, leaves, l) \in Seqs /\ ScratchSeq(tree, leaves, l) \notin FreeSeqs(pool1)
            /\ \A i \in tree.prefix - 1 .. tree.end - 1 : tree.node[i].seq # ScratchSeq(tree, leaves, l)
    <3>1. FreeSeqs(pool) \subseteq Seqs
      BY FreeSize
    <3>2. \A i \in tree.prefix - 1 .. tree.end - 1 : tree.node[i].seq \notin FreeSeqs(pool)
      BY <1>15 DEF Backed
    <3> QED
      BY <1>16, <2>1, <3>1, <3>2 DEF again
  <2>4. Rows(tree, kv1, pool1, tree.prefix, tree.end, leaves \ again, rows, t1)
    BY <1>3, <1>5, <1>18, <2>2, <2>3, FrontierRows DEF again, rows, t1
  <2> QED
    BY <1>3, <1>10, <1>18, <2>4, BackedDecode DEF kv2
<1>20. PathTo(t1, tree.prefix - 1) = PathTo(tree, tree.prefix - 1)
  <2>1. tree.prefix - 1 \in 0 .. tree.end - 1
    BY <1>4
  <2> QED
    BY <1>3, <1>14, <2>1, PathStays DEF Grown
<1>21. CASE NoBetPlaced(tree, kv, pool)
  BY <1>15, <1>21, NoBetCached
<1>22. CASE NoBetPlaced(tree, kv1, pool1)
  BY <1>15, <1>18, <1>22, NoBetCached
<1>23. CASE NoBetPlaced(t1, kv2, pool1) /\ ~(Cardinality(again) > free)
  BY <1>13, <1>15, <1>19, <1>20, <1>23, NoBetCached
<1>24. ASSUME ~(Cardinality(again) > free),
              ~(MaxLen - tree.end < 2), leaves # {}, FreeSeqs(pool1) # {}, NEW top \in [leaves -> TopKRows],
              tree' = Add(SetPrefixLen(t1, tree.end), <<kid(top)>>),
              kv' = SeqCp(kv2, tree.node[leaf(top)].seq, root),
              pool' = AfterAlloc(pool1, 1),
              bet' = [NoBet EXCEPT !.st = "drafting",
                        !.leaf = leaf(top), !.tok = kid(top).tok,
                        !.prefix = tree.prefix, !.end = tree.end],
              level' = 0,
              UNCHANGED <<pc, prevHit, rpc, gen, srv, cause>>
       PROVE  Cached' /\ cause' = cause
  <2> DEFINE l == leaf(top)
             k == kid(top)
             e == tree.end
             c == tree.prefix
  <2>1. l \in leaves /\ top[l][1].tok \in Tok
    BY <1>4, <1>6, <1>24, BestLeafIn DEF leaf
  <2>2. root \in Seqs /\ 1 <= Cardinality(FreeSeqs(pool1))
    <3>1. FreeSeqs(pool1) \subseteq Seqs /\ IsFiniteSet(FreeSeqs(pool1)) /\ Cardinality(FreeSeqs(pool1)) \in Nat
      BY FreeSize
    <3>2. Cardinality(FreeSeqs(pool1)) # 0
      BY <1>24, <3>1, FS_EmptySet
    <3>3. 0 \in Nat /\ 0 < Cardinality(FreeSeqs(pool1)) /\ 1 <= Cardinality(FreeSeqs(pool1))
      BY <3>1, <3>2
    <3> QED
      BY <1>9, <3>1, <3>3, AllocFree DEF root
  <2>3. l \in c .. e - 1 /\ l \in 0 .. e - 1 /\ l \in Slots
    BY <1>5, <1>6, <2>1
  <2>4. tree.node[l].pos + 1 \in 0 .. MaxLen
    BY <1>4, <2>3
  <2>5. k = [tok |-> top[l][1].tok, pos |-> tree.node[l].pos + 1, par |-> l, st |-> kPostCandidate,
             lp |-> 0, seq |-> root]
    BY DEF kid
  <2> HIDE DEF l, k, c, e
  <2>6. /\ k \in NodeRec(Tok \cup {0}, Seqs) /\ k.tok \in Tok /\ k.par = l /\ k.st = kPostCandidate
        /\ k.pos = tree.node[l].pos + 1
    BY <2>1, <2>2, <2>3, <2>4, <2>5 DEF NodeRec, Status
  <2>7. t1.node[l].pos = tree.node[l].pos
    BY <1>14, <2>3 DEF SameRows, e
  <2> DEFINE u == Add(SetPrefixLen(t1, t1.end), <<k>>)
  <2>8. Grown(u, c, e, e + 1) /\ u.prefix = e /\ u.end = e + 1 /\ u.node[e] = k /\ SameRows(t1, u, e)
    <3>1. Grown(t1, c, t1.end, t1.end) /\ MaxLen - t1.end >= 2 /\ t1.end = e
      BY <1>4, <1>12, <1>13, <1>24 DEF c, e
    <3>2. k.par \in c .. t1.end - 1 /\ k.pos = t1.node[k.par].pos + 1
      BY <2>3, <2>6, <2>7, <3>1
    <3>3. \A i \in tree.prefix .. tree.end - 1, x \in leaves : tree.node[i].par # x
      <4>1. \A i \in tree.prefix .. tree.end - 1 : i \in Live(tree)
        BY <1>4 DEF Live
      <4> QED
        BY <1>1, <4>1 DEF FrontierLeaves, TopBeams
    <3>4. Spent(t1, tree.prefix, tree.end, leaves)
      BY <1>3, <1>6, <3>3, MarkSpends DEF t1
    <3>5. Spent(t1, c, t1.end, {k.par})
      BY <2>1, <2>6, <3>1, <3>4 DEF Spent, c, e, l
    <3> HIDE DEF u
    <3> QED
      BY <2>6, <3>1, <3>2, <3>5, BetAdds DEF u
  <2>9. tree' = u
    BY <1>13, <1>24 DEF k
  <2>10. \A i \in 0 .. e - 1 : u.node[i] = t1.node[i]
    <3> DEFINE v == SetPrefixLen(t1, t1.end)
               kids == <<k>>
               X == NodeRec(Tok \cup {0}, Seqs)
    <3>1. t1.end = e /\ e \in 1 .. MaxLen /\ MaxLen - e >= 2 /\ e \in Nat
      BY <1>4, <1>13, <1>24 DEF e
    <3>2. Grown(v, c, e, e) /\ v.node = t1.node /\ v.end = e
      BY <1>12, <3>1, GrownPrefix DEF c, e
    <3>3. kids \in Seq(X) /\ Len(kids) = 1
      <4>1. k \in X
        BY <2>6
      <4> HIDE DEF X
      <4> QED
        BY <4>1
    <3> HIDE DEF v
    <3>4. TreeTyped(v) /\ Len(kids) <= MaxLen - v.end
      <4>1. MaxLen \in Nat
        BY <1>4
      <4> QED
        BY <3>1, <3>2, <3>3, <4>1 DEF Grown
    <3> HIDE DEF kids, u
    <3>5. Added(v, kids, Add(v, kids))
      BY <3>3, <3>4, AddFields DEF X
    <3>6. u = Add(v, kids)
      BY DEF u, v, kids
    <3>7. \A i \in 0 .. e - 1 : i \in Slots /\ i < e
      BY <1>4, <3>1 DEF Slots, e
    <3> QED
      BY <3>2, <3>5, <3>6, <3>7 DEF Added
  <2> HIDE DEF u
  <2>11. t1.node[l].st \in {kProcessed, kPostProcessed}
    <3>1. t1.node[l] = [tree.node[l] EXCEPT !.st = kProcessed]
      BY <1>12, <2>1, <2>3 DEF Marked, l
    <3>2. tree.node[l] \in NodeRec(Tok \cup {0}, Seqs)
      BY <1>4, <2>3, NodeFields
    <3> QED
      BY <3>1, <3>2 DEF NodeRec
  <2>12. tree.node[l].seq = t1.node[l].seq
    <3>1. t1.node[l] = [tree.node[l] EXCEPT !.st = kProcessed]
      BY <1>12, <2>1, <2>3 DEF Marked, l
    <3>2. tree.node[l] \in NodeRec(Tok \cup {0}, Seqs)
      BY <1>4, <2>3, NodeFields
    <3> QED
      BY <3>1, <3>2 DEF NodeRec
  <2>13. Backed(t1, kv2, pool1, c, e, e) /\ kv2[CommittedSeq] = kv[CommittedSeq] /\ Grown(t1, c, e, e)
    BY <1>12, <1>19, <1>24 DEF c, e
  <2>14. u.node[e].par = l /\ u.node[e].seq = AllocNth(pool1, 0) /\ u.node[e].st = kPostCandidate
    BY <2>5, <2>8 DEF root
  <2>15. \A i \in c - 1 .. e - 1 : u.node[i].seq = t1.node[i].seq /\ u.node[i].st = t1.node[i].st
    <3>1. \A i \in c - 1 .. e - 1 : i \in 0 .. e - 1
      BY <1>4 DEF c, e
    <3> QED
      BY <2>10, <3>1
  <2>16. l \in c - 1 .. e - 1
    BY <1>4, <2>3 DEF c
  <2>17. /\ Backed(u, SeqCp(kv2, t1.node[l].seq, AllocNth(pool1, 0)), AfterAlloc(pool1, 1), c, e, e + 1)
         /\ SeqCp(kv2, t1.node[l].seq, AllocNth(pool1, 0))[CommittedSeq] = kv2[CommittedSeq]
    BY <1>9, <1>11, <1>24, <2>8, <2>11, <2>13, <2>14, <2>15, <2>16, BackedRoot
  <2>18. kv' = SeqCp(kv2, t1.node[l].seq, AllocNth(pool1, 0)) /\ pool' = AfterAlloc(pool1, 1)
    BY <1>24, <2>12 DEF l, root
  <2>19. Drafting' /\ bet'.st = "drafting" /\ CommittedLen' = c /\ RoundEnd' = e /\ Extent' = e + 1 /\ ~Opening'
    <3>1. bet'.st = "drafting" /\ bet'.prefix = c /\ bet'.end = e
      BY <1>24 DEF NoBet, c, e
    <3>2. ~Opening'
      BY <1>1, <1>24 DEF Opening
    <3> QED
      BY <2>8, <2>9, <3>1, <3>2 DEF CommittedLen, RoundEnd, Extent, Drafting
  <2>20. PathTo(u, c - 1) = PathTo(tree, c - 1)
    <3>1. c - 1 \in 0 .. e - 1
      BY <1>4 DEF c, e
    <3>2. PathTo(u, c - 1) = PathTo(t1, c - 1)
      BY <2>8, <2>13, <3>1, PathStays DEF Grown
    <3> QED
      BY <1>20, <3>2 DEF c
  <2>21. Recurrent => kv'[CommittedSeq] = PathTo(tree', c - 1)
    BY <1>15, <2>9, <2>13, <2>17, <2>18, <2>20 DEF c
  <2>22. Backed(tree', kv', pool', CommittedLen', RoundEnd', Extent')
    BY <2>9, <2>17, <2>18, <2>19
  <2>23. \A s \in FreeSeqs(pool') : kv'[s] = {}
    BY <2>22 DEF Backed
  <2>24. Cached'
    BY <2>19, <2>21, <2>22, <2>23 DEF Cached
  <2> QED
    BY <1>24, <2>24
<1> QED
  BY <1>2, <1>21, <1>22, <1>23, <1>24

\* Draft's end: the subtree is forgotten with the cache behind the round's nodes,
\* or placed with its sequences.
LEMMA EndDraftCached ==
  ASSUME CInv, pc = "bet", bet.st = "drafting", NEW t, Grown(t, bet.prefix, bet.end, t.end),
         t.prefix = bet.end, NEW kvp, NEW poolp, Backed(t, kvp, poolp, bet.prefix, bet.end, t.end),
         Recurrent => kvp[CommittedSeq] = PathTo(t, bet.prefix - 1), EndDraft(t, kvp, poolp)
  PROVE  Cached' /\ cause' = cause
<1> DEFINE u == Restored(t)
<1>1. /\ bet.prefix \in 1 .. MaxLen /\ bet.end \in 1 .. MaxLen
  <2>1. /\ MaxLen \in Nat /\ bet.prefix \in Nat /\ bet.end \in Nat /\ t.end \in Nat
        /\ 1 <= bet.prefix /\ bet.prefix <= bet.end /\ bet.end <= t.end /\ t.end <= MaxLen
    BY GrownNumbers
  <2> QED
    BY <2>1
<1>2. u.node = t.node /\ u.mask = t.mask /\ u.prefix = bet.prefix /\ u.end = bet.end
  BY <1>1, RestoredGrown
<1> HIDE DEF u
<1>3. PathTo(u, bet.prefix - 1) = PathTo(t, bet.prefix - 1)
  BY <1>2, BackedSame
<1>4. CASE NoBetPlaced(u, kvp, poolp)
  <2>1. Backed(t, kvp, poolp, bet.prefix, bet.end, bet.end)
    BY BackedShrink
  <2>2. Backed(u, kvp, poolp, bet.prefix, bet.end, bet.end)
    BY <1>2, <2>1, BackedSame
  <2> QED
    BY <1>2, <1>3, <1>4, <2>2, NoBetCached
<1>5. CASE /\ t.node[t.prefix].st = kPostProcessed
           /\ tree' = u /\ kv' = kvp /\ pool' = poolp /\ pc' = "join"
           /\ bet' = [bet EXCEPT !.st = "placed", !.begin = t.prefix, !.stop = t.end,
                        !.seqs = {t.node[i].seq : i \in Drafted(t)}]
           /\ UNCHANGED <<level, prevHit, rpc, gen, srv, cause>>
  <2> DEFINE ids == {t.node[i].seq : i \in Drafted(t)}
  <2>1. bet \in [st : {"none", "drafting", "placed"}, leaf : Int, tok : Tok \cup {0}, prefix : Int,
                 end : Int, begin : Int, stop : Int, seqs : SUBSET Seqs]
    BY DEF CInv, IInv, Records
  <2>2. bet' = [bet EXCEPT !.st = "placed", !.begin = t.prefix, !.stop = t.end, !.seqs = ids]
    BY <1>5
  <2>3. ids = {u.node[i].seq : i \in bet.end .. t.end - 1}
    BY <1>2 DEF Drafted
  <2> HIDE DEF ids
  <2>4. bet'.st = "placed" /\ bet'.stop = t.end /\ bet'.seqs = ids
    BY <2>1, <2>2
  <2>5. CommittedLen' = bet.prefix /\ RoundEnd' = bet.end /\ Extent' = t.end /\ ~Opening'
    BY <1>2, <1>5, <2>4 DEF CommittedLen, RoundEnd, Extent, Drafting, Opening
  <2>6. Backed(u, kvp, poolp, bet.prefix, bet.end, t.end)
    BY <1>2, BackedSame
  <2>7. /\ Backed(tree', kv', pool', CommittedLen', RoundEnd', Extent')
        /\ Recurrent => kv'[CommittedSeq] = PathTo(tree', CommittedLen' - 1)
    BY <1>3, <1>5, <2>5, <2>6
  <2>8. tree'.node[RoundEnd'].st = kPostProcessed
    BY <1>2, <1>5, <2>5
  <2>9. bet'.seqs = {tree'.node[i].seq : i \in RoundEnd' .. Extent' - 1}
    BY <1>5, <2>3, <2>4, <2>5
  <2>10. \A s \in FreeSeqs(pool') : kv'[s] = {}
    BY <2>7 DEF Backed
  <2>11. Cached'
    BY <2>5, <2>7, <2>8, <2>9, <2>10 DEF Cached
  <2> QED
    BY <1>5, <2>11
<1> QED
  BY <1>4, <1>5 DEF EndDraft, u

\* One level of the bet: the cache stays behind its subtree, however it ends.
LEMMA DraftLevelCached ==
  ASSUME CInv, DraftLevel
  PROVE  Cached' /\ cause' = cause
<1>0. PICK C \in {TopBeams(tree, WithStatus(tree, Drafted(tree), kPostCandidate), ProBeams)} :
     LET rows == RowsOf(tree, C)
     IN IF ~DecodeOk(kv, rows) THEN NoBetPlaced(Restored(tree), kv, pool)
        ELSE \E top \in [C -> TopKRows] :
          LET t1   == SetStatus(tree, C, kPostProcessed)
              kv1  == Decode(kv, rows)
              want == DraftKeep(t1, C, top)
              keep == Affordable(C, want)
              kids == Children(t1, pool, C, ProWidth, top, keep, kPostCandidate)
              t2   == IF keep = {} THEN t1 ELSE Add(t1, kids)
              kv2  == ForkCache(kv1, t1, pool, C, ProWidth, keep)
              pool2 == AfterAlloc(pool, Cardinality(Forks(C, ProWidth, keep)))
          IN IF keep # want \/ keep = {} \/ level + 1 = ProLen
             THEN EndDraft(t2, kv2, pool2)
             ELSE /\ tree' = t2
                  /\ kv' = kv2
                  /\ pool' = pool2
                  /\ level' = level + 1
                  /\ UNCHANGED <<pc, prevHit, rpc, bet, gen, srv, cause>>
  BY DEF DraftLevel
<1> DEFINE rows == RowsOf(tree, C)
           t1   == SetStatus(tree, C, kPostProcessed)
           kv1  == Decode(kv, rows)
           want(top) == DraftKeep(t1, C, top)
           keep(top) == Affordable(C, want(top))
           kids(top) == Children(t1, pool, C, ProWidth, top, keep(top), kPostCandidate)
           t2(top)   == IF keep(top) = {} THEN t1 ELSE Add(t1, kids(top))
           kv2(top)  == ForkCache(kv1, t1, pool, C, ProWidth, keep(top))
           pool2(top) == AfterAlloc(pool, Cardinality(Forks(C, ProWidth, keep(top))))
<1>1. /\ pc = "bet" /\ bet.st = "drafting"
      /\ C = TopBeams(tree, WithStatus(tree, Drafted(tree), kPostCandidate), ProBeams)
  BY DEF DraftLevel
<1>2. \/ NoBetPlaced(Restored(tree), kv, pool)
      \/ DecodeOk(kv, rows) /\ \E top \in [C -> TopKRows] :
           \/ EndDraft(t2(top), kv2(top), pool2(top))
           \/ /\ level + 1 # ProLen
              /\ tree' = t2(top)
              /\ kv' = kv2(top)
              /\ pool' = pool2(top)
              /\ level' = level + 1
              /\ UNCHANGED <<pc, prevHit, rpc, bet, gen, srv, cause>>
  BY <1>0
<1> HIDE DEF rows, t1, kv1, want, keep, kids, t2, kv2, pool2
<1>3. /\ tree.prefix = bet.end /\ Grown(tree, bet.prefix, bet.end, tree.end)
      /\ CommittedLen = bet.prefix /\ RoundEnd = bet.end /\ Extent = tree.end
      /\ bet.prefix \in Nat /\ bet.end \in Nat /\ tree.end \in Nat /\ MaxLen \in Nat
      /\ 1 <= bet.prefix /\ bet.prefix < bet.end /\ bet.end < tree.end /\ tree.end <= MaxLen
      /\ KvTyped(kv) /\ pool \in Pool
  BY <1>1, DraftingFacts DEF CInv
<1>4. C \subseteq bet.end .. tree.end - 1
  BY <1>1, <1>3 DEF TopBeams, WithStatus, Drafted
<1>5. C \subseteq 0 .. tree.end - 1 /\ C \subseteq Slots /\ TreeTyped(tree) /\ \A i \in C : tree.node[i].tok \in Tok
  <2>1. C \subseteq 0 .. tree.end - 1
    BY <1>3, <1>4
  <2>2. 0 .. tree.end - 1 \subseteq Slots /\ TreeTyped(tree) /\ \A i \in 0 .. tree.end - 1 : tree.node[i].tok \in Tok
    BY <1>3, GrownNumbers DEF Grown
  <2> QED
    BY <2>1, <2>2
<1>6. /\ Backed(tree, kv, pool, bet.prefix, bet.end, tree.end)
      /\ Recurrent => kv[CommittedSeq] = PathTo(tree, bet.prefix - 1)
  <2>1. ~Opening /\ pc # "fatal"
    BY <1>1 DEF Opening
  <2> QED
    BY <1>3, <2>1 DEF CInv, Cached
<1>7. CASE NoBetPlaced(Restored(tree), kv, pool)
  <2>1. bet.prefix \in 1 .. MaxLen /\ bet.end \in 1 .. MaxLen
    BY <1>3
  <2> DEFINE u == Restored(tree)
  <2>2. u.node = tree.node /\ u.mask = tree.mask /\ u.prefix = bet.prefix /\ u.end = bet.end
    BY <1>3, <2>1, RestoredGrown
  <2>3. Backed(tree, kv, pool, bet.prefix, bet.end, bet.end)
    BY <1>3, <1>6, BackedShrink
  <2> HIDE DEF u
  <2>4. Backed(u, kv, pool, bet.prefix, bet.end, bet.end) /\ PathTo(u, bet.prefix - 1) = PathTo(tree, bet.prefix - 1)
    BY <2>2, <2>3, BackedSame
  <2>5. NoBetPlaced(u, kv, pool)
    BY <1>7 DEF u
  <2> QED
    BY <1>6, <2>2, <2>4, <2>5, NoBetCached
<1>8. /\ Grown(t1, bet.prefix, bet.end, tree.end)
      /\ Marked(tree, C, kPostProcessed, t1) /\ SameRows(tree, t1, MaxLen)
  BY <1>3, <1>4, GrownMark DEF t1
<1>9. t1.prefix = bet.end /\ t1.end = tree.end /\ TreeTyped(t1) /\ SameRows(tree, t1, tree.end)
  <2>1. \A i \in 0 .. tree.end - 1 : i \in 0 .. MaxLen - 1
    BY <1>3
  <2>2. SameRows(tree, t1, tree.end)
    BY <1>8, <2>1 DEF SameRows
  <2> QED
    BY <1>3, <1>8, <2>2 DEF Marked, Grown
<1>10. KvTyped(kv1)
  <2>1. \A s \in DOMAIN rows : rows[s] \in Cells
    BY <1>5, RowsTyped DEF rows
  <2> QED
    BY <1>3, <2>1, DecodeTyped DEF kv1
<1>11. \A x \in C : tree.node[x].st = kPostCandidate
  BY <1>1 DEF TopBeams, WithStatus
<1>12. Batch(tree, bet.prefix, tree.end, C)
  <2>1. C \subseteq bet.prefix - 1 .. tree.end - 1
    BY <1>3, <1>4
  <2> QED
    BY <1>11, <2>1 DEF Batch
<1>13. ASSUME DecodeOk(kv, rows)
       PROVE  /\ Backed(t1, kv1, pool, bet.prefix, bet.end, tree.end)
              /\ \A x \in C : /\ t1.node[x].st \in {kProcessed, kPostProcessed}
                              /\ \A y \in kv1[t1.node[x].seq] : y[1] <= t1.node[x].pos
              /\ kv1[CommittedSeq] = kv[CommittedSeq]
  BY <1>3, <1>6, <1>12, <1>13, BackedBatch DEF t1, kv1, rows
<1>14. bet.prefix - 1 \in 0 .. tree.end - 1 /\ Shaped(tree, bet.prefix, tree.end) /\ Shaped(t1, bet.prefix, t1.end)
  <2>1. bet.prefix - 1 \in 0 .. tree.end - 1
    BY <1>3
  <2> QED
    BY <1>3, <1>8, <1>9, <2>1 DEF Grown
<1>15. PathTo(t1, bet.prefix - 1) = PathTo(tree, bet.prefix - 1)
  BY <1>9, <1>14, PathStays
<1>16. Spent(t1, bet.prefix, t1.end, C)
  BY <1>3, <1>5, <1>9, <1>11, MarkSpends DEF t1
<1>17. ASSUME DecodeOk(kv, rows), NEW top \in [C -> TopKRows]
       PROVE  /\ Grown(t2(top), bet.prefix, bet.end, t2(top).end) /\ t2(top).prefix = bet.end
              /\ Backed(t2(top), kv2(top), pool2(top), bet.prefix, bet.end, t2(top).end)
              /\ Recurrent => kv2(top)[CommittedSeq] = PathTo(t2(top), bet.prefix - 1)
  <2> DEFINE K == keep(top)
             W == want(top)
  <2>1. W \subseteq Flats(C, ProWidth) /\ Cardinality(W) <= MaxLen - t1.end
    BY <1>5, <1>9, DraftKeepFits DEF want
  <2>2. /\ K \subseteq W /\ Cardinality(Forks(C, ProWidth, K)) \in Nat
        /\ Cardinality(Forks(C, ProWidth, K)) <= Cardinality(FreeSeqs(pool))
    <3> HIDE DEF W
    <3>1. K = Affordable(C, W)
      BY DEF keep, W
    <3> HIDE DEF K
    <3> QED
      BY <1>5, <2>1, <3>1, AffordableFits
  <2>3. ProWidth \in 1 .. Width /\ ProWidth \in Nat \ {0}
    BY SpecExecAssumption
  <2>4. kv2(top) = ForkCache(kv1, t1, pool, C, ProWidth, K)
        /\ pool2(top) = AfterAlloc(pool, Cardinality(Forks(C, ProWidth, K)))
    BY DEF kv2, pool2
  <2>5. Recurrent => kv1[CommittedSeq] = PathTo(t1, bet.prefix - 1)
    BY <1>6, <1>13, <1>15, <1>17
  <2>6. CASE K = {}
    <3>1. t2(top) = t1
      BY <2>6 DEF t2
    <3>2. Forks(C, ProWidth, K) = {}
      BY <2>6 DEF Forks
    <3>3. pool2(top) = pool
      <4>1. Cardinality(Forks(C, ProWidth, K)) = 0
        BY <3>2, FS_EmptySet
      <4> QED
        BY <2>4, <4>1 DEF AfterAlloc
    <3>4. kv2(top) = kv1
      <4>1. kv1 = [s \in DOMAIN kv1 |-> kv1[s]]
        BY <1>10 DEF KvTyped
      <4>2. kv2(top) = [s \in DOMAIN kv1 |-> kv1[s]]
        BY <2>4, <3>2 DEF ForkCache
      <4> QED
        BY <4>1, <4>2
    <3> QED
      BY <1>8, <1>9, <1>13, <1>17, <2>5, <3>1, <3>3, <3>4
  <2>7. CASE K # {}
    <3> HIDE DEF K, W
    <3>1. Cardinality(K) <= MaxLen - t1.end /\ K \subseteq Flats(C, ProWidth)
      <4>1. IsFiniteSet(W) /\ Cardinality(W) \in Nat
        BY <1>5, <2>1, <2>3, FlatSets
      <4>2. Cardinality(K) <= Cardinality(W) /\ IsFiniteSet(K)
        BY <2>2, <4>1, FS_Subset
      <4>3. Cardinality(K) \in Nat
        BY <4>2, FS_CardinalityType
      <4>4. Cardinality(K) <= MaxLen - t1.end
        BY <1>3, <1>9, <2>1, <4>1, <4>2, <4>3
      <4> QED
        BY <2>1, <2>2, <4>4
    <3> DEFINE u == Add(t1, Children(t1, pool, C, ProWidth, top, K, kPostCandidate))
    <3>2. Grown(u, bet.prefix, bet.end, u.end) /\ u.prefix = t1.prefix /\ SameRows(t1, u, t1.end)
      <4>1. /\ Grown(t1, bet.prefix, bet.end, t1.end) /\ bet.end < t1.end /\ C \subseteq bet.end .. t1.end - 1
        BY <1>3, <1>4, <1>8, <1>9
      <4>2. /\ K \subseteq Flats(C, ProWidth) /\ Cardinality(K) <= MaxLen - t1.end /\ pool \in Pool
            /\ Cardinality(Forks(C, ProWidth, K)) <= Cardinality(FreeSeqs(pool))
            /\ top \in [C -> TopKRows] /\ Spent(t1, bet.prefix, t1.end, C)
        BY <1>3, <1>16, <1>17, <2>2, <3>1
      <4>3. LET v == Add(t1, Children(t1, pool, C, ProWidth, top, K, kPostCandidate))
            IN /\ Grown(v, bet.prefix, bet.end, v.end) /\ v.prefix = t1.prefix /\ v.end >= t1.end
               /\ SameRows(t1, v, t1.end)
        BY <4>1, <4>2, DraftAdds
      <4> QED
        BY <4>3
    <3>3. t2(top) = u
      BY <2>7 DEF t2, kids, K
    <3>4. u = Add(t1, Children(t1, pool, C, ProWidth, top, K, kPostCandidate))
      OBVIOUS
    <3> HIDE DEF u
    <3>5. Beamed(t1, kv1, bet.prefix, C)
      <4>1. C \subseteq bet.prefix - 1 .. t1.end - 1
        BY <1>9, <1>12 DEF Batch
      <4> QED
        BY <1>13, <1>16, <1>17, <4>1 DEF Beamed
    <3>6. Bears(t1, bet.prefix, bet.end, bet.end, pool, C, ProWidth, top, K, kPostCandidate, u)
      <4>1. kPostCandidate \in {kCandidate, kPostCandidate}
        OBVIOUS
      <4> QED
        BY <1>17, <2>2, <2>3, <3>1, <3>2, <3>4, <4>1 DEF Bears
    <3>7. /\ Backed(u, ForkCache(kv1, t1, pool, C, ProWidth, K), AfterAlloc(pool, Cardinality(Forks(C, ProWidth, K))),
                    bet.prefix, bet.end, u.end)
          /\ ForkCache(kv1, t1, pool, C, ProWidth, K)[CommittedSeq] = kv1[CommittedSeq]
      <4>1. Grown(t1, bet.prefix, bet.end, t1.end) /\ Backed(t1, kv1, pool, bet.prefix, bet.end, t1.end)
        BY <1>8, <1>9, <1>13, <1>17
      <4> QED
        BY <1>3, <1>10, <3>5, <3>6, <4>1, BackedFork
    <3>8. PathTo(u, bet.prefix - 1) = PathTo(t1, bet.prefix - 1)
      <4>1. bet.prefix - 1 \in 0 .. t1.end - 1
        BY <1>9, <1>14
      <4> QED
        BY <1>14, <3>2, <4>1, PathStays
    <3> QED
      BY <1>9, <2>4, <2>5, <3>2, <3>3, <3>7, <3>8
  <2> QED
    BY <2>6, <2>7
<1>18. ASSUME DecodeOk(kv, rows), NEW top \in [C -> TopKRows], EndDraft(t2(top), kv2(top), pool2(top))
       PROVE  Cached' /\ cause' = cause
  BY <1>1, <1>17, <1>18, EndDraftCached
<1>19. ASSUME DecodeOk(kv, rows), NEW top \in [C -> TopKRows], level + 1 # ProLen,
              tree' = t2(top), kv' = kv2(top), pool' = pool2(top), level' = level + 1,
              UNCHANGED <<pc, prevHit, rpc, bet, gen, srv, cause>>
       PROVE  Cached' /\ cause' = cause
  <2>1. /\ t2(top).prefix = bet.end
        /\ Backed(t2(top), kv2(top), pool2(top), bet.prefix, bet.end, t2(top).end)
        /\ Recurrent => kv2(top)[CommittedSeq] = PathTo(t2(top), bet.prefix - 1)
    BY <1>17, <1>19
  <2>2. CommittedLen' = bet.prefix /\ RoundEnd' = bet.end /\ Extent' = tree'.end /\ ~Opening' /\ bet'.st = "drafting"
    BY <1>1, <1>19 DEF CommittedLen, RoundEnd, Extent, Drafting, Opening
  <2>3. /\ Backed(tree', kv', pool', CommittedLen', RoundEnd', Extent')
        /\ Recurrent => kv'[CommittedSeq] = PathTo(tree', CommittedLen' - 1)
    BY <1>19, <2>1, <2>2
  <2>4. \A s \in FreeSeqs(pool') : kv'[s] = {}
    BY <2>3 DEF Backed
  <2> QED
    BY <1>19, <2>2, <2>3, <2>4 DEF Cached
<1> QED
  BY <1>2, <1>7, <1>18, <1>19

-----------------------------------------------------------------------------
(* Committing a path *)

\* The cells of node b's root path, its own included.
Row(t, b) == PathTo(t, b) \cup {Cell(t.node[b].pos, t.node[b].tok)}

\* A row as the set of its cells.
LEMMA RowAsCells ==
  ASSUME NEW t, NEW c, NEW e, Shaped(t, c, e), NEW b \in 0 .. e - 1
  PROVE  Row(t, b) = {Cell(t.node[a].pos, t.node[a].tok) : a \in t.mask[b]}
<1>1. b \in t.mask[b]
  BY RowBounds
<1> QED
  BY <1>1 DEF Row, PathTo

\* What a row spells once it is the committed chain of a tree: the path of the
\* slot behind it.
LEMMA CommittedRow ==
  ASSUME NEW t, NEW c, NEW e, Shaped(t, c, e), NEW b \in 0 .. e - 1,
         NEW u, NEW n \in Nat, n = Cardinality(t.mask[b]), NEW m, Shaped(u, n + 1, m),
         \A i \in 0 .. n - 1 : u.node[i].tok = t.node[Nth(t.mask[b], i)].tok
  PROVE  PathTo(u, n) = Row(t, b)
<1> DEFINE S == t.mask[b]
<1>1. PathTo(u, (n + 1) - 1) = {Cell(i, u.node[i].tok) : i \in 0 .. (n + 1) - 2}
  BY ChainCells
<1>2. (n + 1) - 1 = n /\ (n + 1) - 2 = n - 1
  OBVIOUS
<1>3. PathTo(u, n) = {Cell(i, u.node[i].tok) : i \in 0 .. n - 1}
  BY <1>1, <1>2
<1>4. n = t.node[b].pos + 1 /\ t.node[b].pos \in Nat
  BY PosIsDepth
<1>5. Row(t, b) = {Cell(t.node[a].pos, t.node[a].tok) : a \in S}
  BY RowAsCells
<1>6. ASSUME NEW i \in 0 .. n - 1
      PROVE  Nth(S, i) \in S /\ t.node[Nth(S, i)].pos = i
  <2>1. i \in 0 .. t.node[b].pos
    BY <1>4
  <2> QED
    BY <2>1, RowByPos
<1>7. ASSUME NEW a \in S
      PROVE  t.node[a].pos \in 0 .. n - 1 /\ Nth(S, t.node[a].pos) = a
  <2>1. Nth(S, t.node[a].pos) = a
    BY RowByPos
  <2>2. t.node[a].pos \in Nat /\ t.node[a].pos <= t.node[b].pos
    BY PathBelow, RowBounds
  <2>3. t.node[a].pos \in 0 .. n - 1
    BY <1>4, <2>2
  <2> QED
    BY <2>1, <2>3
<1> HIDE DEF S
<1>8. \A i \in 0 .. n - 1 : Cell(i, u.node[i].tok) = Cell(t.node[Nth(S, i)].pos, t.node[Nth(S, i)].tok)
  BY <1>6 DEF S
<1>9. {Cell(i, u.node[i].tok) : i \in 0 .. n - 1} \subseteq {Cell(t.node[a].pos, t.node[a].tok) : a \in S}
  BY <1>6, <1>8
<1>10. ASSUME NEW a \in S
       PROVE  Cell(t.node[a].pos, t.node[a].tok) \in {Cell(i, u.node[i].tok) : i \in 0 .. n - 1}
  <2> DEFINE k == t.node[a].pos
  <2>1. k \in 0 .. n - 1 /\ Nth(S, k) = a
    BY <1>7
  <2>2. Cell(k, u.node[k].tok) = Cell(t.node[a].pos, t.node[a].tok)
    BY <1>8, <2>1
  <2> QED
    BY <2>1, <2>2
<1> QED
  BY <1>3, <1>5, <1>9, <1>10

\* The slots of a row from the last committed one on, in order: consecutive
\* positions up to the row's own.
LEMMA RowAbove ==
  ASSUME NEW t, NEW c, NEW e, Shaped(t, c, e), NEW b \in c - 1 .. e - 1,
         NEW P, P = {i \in t.mask[b] : i >= c - 1}, NEW N, N = Cardinality(P)
  PROVE  /\ c \in Nat /\ 1 <= c /\ N \in Nat /\ 1 <= N /\ IsFiniteSet(P) /\ P \subseteq Int
         /\ \A k \in 0 .. N - 1 : Nth(P, k) \in P /\ t.node[Nth(P, k)].pos = (c - 1) + k
         /\ \A a \in P : Rank(P, a) \in 0 .. N - 1 /\ Nth(P, Rank(P, a)) = a
         /\ Nth(P, N - 1) = b
<1> DEFINE S == t.mask[b]
           F == 0 .. c - 2
<1>0. c \in 1 .. e /\ e \in Nat /\ c \in Nat /\ 1 <= c /\ b \in 0 .. e - 1 /\ b \in Nat /\ b >= c - 1
  BY MaxLenAssumption DEF Shaped
<1>1. S \subseteq 0 .. b /\ b \in S /\ 0 .. c - 1 \subseteq S
  BY <1>0, RowBounds, RowOfChain
<1>2. IsFiniteSet(S) /\ S \subseteq Int /\ S \subseteq Nat /\ Cardinality(S) = t.node[b].pos + 1
  BY <1>0, <1>1, PosIsDepth
<1>3. P \subseteq S /\ b \in P /\ c - 1 \in P
  BY <1>0, <1>1
<1>4. IsFiniteSet(P) /\ P \subseteq Int
  BY <1>2, <1>3, FS_Subset
<1>5. N \in Nat /\ N # 0
  BY <1>3, <1>4, FS_CardinalityType, FS_EmptySet
<1>6. IsFiniteSet(F) /\ Cardinality(F) = c - 1
  <2>1. (c - 1) - 1 = c - 2 /\ c - 1 \in Nat
    BY <1>0
  <2> QED
    BY <2>1, FirstNumbers
<1>7. ASSUME NEW x \in P
      PROVE  Rank(S, x) = (c - 1) + Rank(P, x) /\ Rank(P, x) \in 0 .. N - 1
  <2> DEFINE A == {y \in S : y < x}
             B == {y \in P : y < x}
  <2>1. x \in Int /\ x >= c - 1
    BY <1>4, <1>3
  <2>2. A = F \cup B /\ F \cap B = {}
    <3>1. \A y \in F : y \in S /\ y < x /\ y \notin P
      BY <1>0, <1>1, <2>1
    <3>2. \A y \in S : y \in F \/ y \in P
      BY <1>0, <1>2
    <3> QED
      BY <1>3, <3>1, <3>2
  <2>3. IsFiniteSet(B)
    BY <1>4, FS_Subset
  <2> HIDE DEF A, B, F
  <2>4. Cardinality(F \cup B) = Cardinality(F) + Cardinality(B) - Cardinality(F \cap B)
    BY <1>6, <2>3, FS_Union
  <2>5. Cardinality(F \cap B) = 0 /\ Cardinality(B) \in Nat
    BY <2>2, <2>3, FS_EmptySet, FS_CardinalityType
  <2>6. Cardinality(A) = (c - 1) + Cardinality(B)
    BY <1>0, <1>6, <2>2, <2>4, <2>5
  <2>7. Rank(S, x) = Cardinality(A) /\ Rank(P, x) = Cardinality(B)
    BY DEF Rank, A, B
  <2>8. Rank(P, x) \in 0 .. N - 1
    BY <1>4, RankRange
  <2> QED
    BY <2>6, <2>7, <2>8
<1>8. \A x \in S : Rank(S, x) = t.node[x].pos
  BY <1>0, RowByPos
<1>9. \A k \in 0 .. N - 1 : Nth(P, k) \in P /\ Rank(P, Nth(P, k)) = k
  BY <1>4, NthWorks
<1>10. \A a \in P : Nth(P, Rank(P, a)) = a
  BY <1>4, NthOfRank
<1> HIDE DEF S, F
<1>11. \A k \in 0 .. N - 1 : t.node[Nth(P, k)].pos = (c - 1) + k
  BY <1>3, <1>7, <1>8, <1>9
<1>12. Rank(P, b) = N - 1
  <2>1. Rank(P, b) \in 0 .. N - 1
    BY <1>3, <1>7
  <2>2. CASE Rank(P, b) < N - 1
    <3>1. N - 1 \in 0 .. N - 1
      BY <1>5
    <3>2. Nth(P, Rank(P, b)) < Nth(P, N - 1)
      BY <1>4, <2>1, <2>2, <3>1, NthGrows
    <3>3. b < Nth(P, N - 1) /\ Nth(P, N - 1) \in S
      BY <1>3, <1>9, <1>10, <3>1, <3>2
    <3>4. Nth(P, N - 1) \in 0 .. b
      BY <1>1, <3>3
    <3> QED
      BY <1>0, <3>3, <3>4
  <2> QED
    BY <1>5, <2>1, <2>2
<1> QED
  BY <1>0, <1>3, <1>4, <1>5, <1>7, <1>9, <1>10, <1>11, <1>12

\* The accepted path: the cells from the last committed slot to slot b of a tree,
\* in order.
Walk(t, c, b, path) ==
  LET P == {i \in t.mask[b] : i >= c - 1}
  IN path = [k \in 1 .. Cardinality(P) |-> Cell(t.node[Nth(P, k - 1)].pos, t.node[Nth(P, k - 1)].tok)]

\* Such a path has consecutive positions, ends at slot b, and leads from what is
\* committed to all of b's row.
LEMMA WalkCells ==
  ASSUME NEW t, NEW c, NEW e, Shaped(t, c, e), NEW b \in c - 1 .. e - 1,
         NEW path, Walk(t, c, b, path)
  PROVE  /\ path # <<>> /\ path[1][1] = c - 1
         /\ \A k \in DOMAIN path : k > 1 => path[k][1] = path[k - 1][1] + 1
         /\ path[Len(path)] = Cell(t.node[b].pos, t.node[b].tok)
         /\ PathTo(t, c - 1) \cup CellsOf(path) = Row(t, b)
<1> DEFINE S == t.mask[b]
           P == {i \in S : i >= c - 1}
           N == Cardinality(P)
           cell(a) == Cell(t.node[a].pos, t.node[a].tok)
<1>0. c \in 1 .. e /\ e \in Nat /\ c \in Nat /\ 1 <= c /\ b \in 0 .. e - 1 /\ c - 1 \in 0 .. e - 1
  BY MaxLenAssumption DEF Shaped
<1>1. /\ N \in Nat /\ 1 <= N
      /\ \A k \in 0 .. N - 1 : Nth(P, k) \in P /\ t.node[Nth(P, k)].pos = (c - 1) + k
      /\ \A a \in P : Rank(P, a) \in 0 .. N - 1 /\ Nth(P, Rank(P, a)) = a
      /\ Nth(P, N - 1) = b
  <2>1. P = {i \in t.mask[b] : i >= c - 1}
    OBVIOUS
  <2> HIDE DEF P
  <2> QED
    BY <2>1, RowAbove
<1>2. path = [k \in 1 .. N |-> cell(Nth(P, k - 1))]
  BY DEF Walk
<1>3. t.mask[c - 1] = 0 .. c - 1 /\ S \subseteq 0 .. b /\ 0 .. c - 1 \subseteq S
  <2>1. c - 1 < c /\ b >= c - 1
    BY <1>0
  <2>2. t.mask[c - 1] = 0 .. c - 1
    BY <1>0, <2>1, RowOfChain
  <2>3. t.mask[b] \subseteq 0 .. b /\ 0 .. c - 1 \subseteq t.mask[b]
    BY <1>0, <2>1, RowBounds, RowOfChain
  <2> QED
    BY <2>2, <2>3
<1>4. PathTo(t, c - 1) = {cell(a) : a \in 0 .. c - 2}
  <2>1. (0 .. c - 1) \ {c - 1} = 0 .. c - 2
    BY <1>0
  <2> QED
    BY <1>3, <2>1 DEF PathTo
<1>5. Row(t, b) = {cell(a) : a \in S}
  BY <1>0, RowAsCells
<1>6. S = (0 .. c - 2) \cup P
  BY <1>0, <1>3
<1>7. \A a : cell(a)[1] = t.node[a].pos
  BY DEF Cell
<1> HIDE DEF S, P, N, cell
<1>8. DOMAIN path = 1 .. N /\ Len(path) = N
  BY <1>1, <1>2
<1>9. \A k \in 1 .. N : k - 1 \in 0 .. N - 1 /\ path[k] = cell(Nth(P, k - 1))
  BY <1>1, <1>2
<1>10. \A k \in 1 .. N : path[k][1] = (c - 1) + (k - 1)
  BY <1>1, <1>7, <1>9
<1>11. path # <<>> /\ path[1][1] = c - 1
  <2>1. 1 \in 1 .. N /\ (c - 1) + (1 - 1) = c - 1
    BY <1>0, <1>1
  <2>2. Len(path) # 0
    BY <1>1, <1>8
  <2> QED
    BY <1>10, <2>1, <2>2
<1>12. \A k \in DOMAIN path : k > 1 => path[k][1] = path[k - 1][1] + 1
  <2> TAKE k \in DOMAIN path
  <2> HAVE k > 1
  <2>1. k \in 1 .. N /\ k - 1 \in 1 .. N
    BY <1>1, <1>8
  <2>2. path[k][1] = (c - 1) + (k - 1) /\ path[k - 1][1] = (c - 1) + ((k - 1) - 1)
    BY <1>10, <2>1
  <2> QED
    BY <1>0, <2>1, <2>2
<1>13. path[Len(path)] = cell(b)
  <2>1. N \in 1 .. N
    BY <1>1
  <2> QED
    BY <1>1, <1>8, <1>9, <2>1
<1>14. CellsOf(path) = {cell(a) : a \in P}
  <2>1. ASSUME NEW k \in DOMAIN path PROVE path[k] \in {cell(a) : a \in P}
    BY <1>1, <1>8, <1>9, <2>1
  <2>2. ASSUME NEW a \in P PROVE \E k \in DOMAIN path : path[k] = cell(a)
    <3>1. Rank(P, a) \in 0 .. N - 1 /\ Nth(P, Rank(P, a)) = a
      BY <1>1
    <3>2. Rank(P, a) + 1 \in 1 .. N /\ (Rank(P, a) + 1) - 1 = Rank(P, a)
      BY <1>1, <3>1
    <3> QED
      BY <1>8, <1>9, <3>1, <3>2
  <2> QED
    BY <2>1, <2>2 DEF CellsOf
<1>15. PathTo(t, c - 1) \cup CellsOf(path) = Row(t, b)
  BY <1>4, <1>5, <1>6, <1>14
<1> QED
  BY <1>11, <1>12, <1>13, <1>15 DEF cell

\* The committed state of a recurrent model takes the accepted path, from where it
\* stands behind the committed tokens but the last.
LEMMA StateAdvances ==
  ASSUME NEW t, NEW c, NEW e, Shaped(t, c, e), NEW b \in c - 1 .. e - 1,
         NEW path, Walk(t, c, b, path), NEW q, KvTyped(q), q[CommittedSeq] = PathTo(t, c - 1)
  PROVE  /\ AdvanceCommittedOk(q, path)
         /\ AdvanceCommitted(q, path)[CommittedSeq] = Row(t, b)
         /\ \A s \in Seqs : AdvanceCommitted(q, path)[s] = q[s]
<1>1. /\ path # <<>> /\ path[1][1] = c - 1
      /\ \A k \in DOMAIN path : k > 1 => path[k][1] = path[k - 1][1] + 1
      /\ PathTo(t, c - 1) \cup CellsOf(path) = Row(t, b)
  BY WalkCells
<1>2. c - 1 \in 0 .. e - 1 /\ c - 1 \in Nat /\ c \in Nat
  BY MaxLenAssumption DEF Shaped
<1>3. t.node[c - 1].pos = c - 1
  BY <1>2, RowOfChain
<1>4. Extends(q, CommittedSeq, c - 1)
  <2>1. /\ \A x \in q[CommittedSeq] : x[1] < c - 1
        /\ c - 1 > 0 => \E x \in q[CommittedSeq] : x[1] = (c - 1) - 1
    BY <1>2, <1>3, PathBelow
  <2> DEFINE p == c - 1
  <2> HIDE DEF p
  <2>2. p \in Nat /\ (\A x \in q[CommittedSeq] : x[1] < p) /\ (p > 0 => \E x \in q[CommittedSeq] : x[1] = p - 1)
    BY <1>2, <2>1 DEF p
  <2>3. Extends(q, CommittedSeq, p)
    BY <2>2, FreshExtends
  <2> QED
    BY <2>3 DEF p
<1>5. CommittedSeq \in DOMAIN q /\ CommittedSeq \notin Seqs /\ DOMAIN q = Seqs \cup {CommittedSeq}
  BY SeqsAssumption DEF KvTyped, CommittedSeq, Seqs
<1>6. AdvanceCommitted(q, path) = [q EXCEPT ![CommittedSeq] = q[CommittedSeq] \cup CellsOf(path)]
  BY DEF AdvanceCommitted, DecodePath
<1> QED
  BY <1>1, <1>4, <1>5, <1>6 DEF AdvanceCommittedOk, DecodePathOk

\* The last accepted slot b, its path, and the cache before the path is accepted.
Standing(t, c, e, b, path, q) ==
  /\ Shaped(t, c, e) /\ b \in c - 1 .. e - 1 /\ Walk(t, c, b, path) /\ KvTyped(q) /\ Holds(t, q, b)
  /\ t.node[b].seq \in Seqs /\ (Recurrent => q[CommittedSeq] = PathTo(t, c - 1))

\* accept_path is never refused, and leaves the row of the last accepted slot on
\* seq 0 and, in a recurrent model, on the committed sequence; nothing else.
LEMMA PathAccepted ==
  ASSUME NEW t, NEW c, NEW e, NEW b, NEW path, NEW q, Standing(t, c, e, b, path, q)
  PROVE  /\ AcceptPathOk(q, t.node[b].seq, path)
         /\ AcceptPath(q, t.node[b].seq, path)[0] = Row(t, b)
         /\ \A s \in Seqs \ {0} : AcceptPath(q, t.node[b].seq, path)[s] = {}
         /\ Recurrent => AcceptPath(q, t.node[b].seq, path)[CommittedSeq] = Row(t, b)
<1>00. /\ Shaped(t, c, e) /\ b \in c - 1 .. e - 1 /\ Walk(t, c, b, path) /\ KvTyped(q) /\ Holds(t, q, b)
       /\ t.node[b].seq \in Seqs /\ (Recurrent => q[CommittedSeq] = PathTo(t, c - 1))
  BY DEF Standing
<1> USE <1>00
<1> DEFINE keep == t.node[b].seq
           v == AcceptPath(q, keep, path)
<1>0. /\ 0 \in Seqs /\ CommittedSeq \notin Seqs /\ DOMAIN q = Seqs \cup {CommittedSeq}
      /\ c \in Nat /\ b \in 0 .. e - 1
  BY SeqsAssumption, MaxLenAssumption DEF KvTyped, CommittedSeq, Seqs, Shaped
<1>1. CASE Recurrent
  <2> DEFINE q1 == DroppedBranches(q)
             q2 == AdvanceCommitted(q1, path)
  <2>1. KvTyped(q1) /\ q1[CommittedSeq] = q[CommittedSeq] /\ \A s \in Seqs : q1[s] = {}
    BY <1>0 DEF KvTyped, DroppedBranches
  <2> HIDE DEF q1
  <2>2. /\ AdvanceCommittedOk(q1, path) /\ q2[CommittedSeq] = Row(t, b)
        /\ \A s \in Seqs : q2[s] = {}
    BY <1>1, <2>1, StateAdvances
  <2>3. v = SeqCp(q2, CommittedSeq, 0)
    BY <1>1 DEF AcceptPath, q1
  <2>4. DOMAIN q2 = Seqs \cup {CommittedSeq}
    BY <2>1 DEF AdvanceCommitted, DecodePath, KvTyped
  <2> HIDE DEF q2
  <2>5. /\ v[0] = Row(t, b) /\ v[CommittedSeq] = Row(t, b)
        /\ \A s \in Seqs \ {0} : v[s] = {}
    <3> HIDE DEF v
    <3> QED
      BY <1>0, <2>2, <2>3, <2>4 DEF SeqCp
  <2>6. AcceptPathOk(q, keep, path)
    BY <1>1, <2>2 DEF AcceptPathOk, q1
  <2> QED
    BY <2>5, <2>6
<1>2. CASE ~Recurrent
  <2> DEFINE p == t.node[b].pos
             tip == path[Len(path)]
             q1 == CollapseToSeq(q, keep, tip[1] - 1)
  <2>1. tip = Cell(p, t.node[b].tok) /\ tip[1] = p
    BY WalkCells DEF Cell
  <2>2. p \in Nat /\ (\A x \in PathTo(t, b) : x[1] < p) /\ (p > 0 => \E x \in PathTo(t, b) : x[1] = p - 1)
    BY <1>0, PathBelow
  <2>3. {x \in q[keep] : x[1] < p} = PathTo(t, b)
    BY DEF Holds
  <2>4. (tip[1] - 1) + 1 = p
    BY <2>1, <2>2
  <2>5. SeqRm(q, keep, p)[keep] = {x \in q[keep] : x[1] < p}
    BY <1>0 DEF SeqRm
  <2>6. q1 = [s \in DOMAIN q |-> IF s = 0 THEN {x \in q[keep] : x[1] < p} ELSE {}]
    BY <2>4, <2>5 DEF CollapseToSeq
  <2> HIDE DEF q1
  <2>7. q1[0] = PathTo(t, b) /\ \A s \in Seqs \ {0} : q1[s] = {}
    BY <1>0, <2>3, <2>6
  <2>8. KvTyped(q1) /\ DOMAIN q1 = Seqs \cup {CommittedSeq}
    BY <1>0, <2>6 DEF KvTyped
  <2>9. Extends(q1, 0, p)
    <3> HIDE DEF p
    <3>1. /\ \A x \in q1[0] : x[1] < p
          /\ p > 0 => \E x \in q1[0] : x[1] = p - 1
      BY <2>2, <2>7
    <3>2. 0 \in Seqs \cup {CommittedSeq}
      BY <1>0
    <3> QED
      BY <2>2, <2>8, <3>1, <3>2, FreshExtends
  <2>10. v = Decode(q1, [s \in {0} |-> tip])
    BY <1>2 DEF AcceptPath, q1
  <2>11. v[0] = q1[0] \cup {tip} /\ \A s \in Seqs \ {0} : v[s] = q1[s]
    <3> HIDE DEF v, tip
    <3> QED
      BY <1>0, <2>8, <2>10 DEF Decode
  <2>12. AcceptPathOk(q, keep, path)
    BY <1>2, <2>1, <2>9 DEF AcceptPathOk, q1
  <2> QED
    BY <1>2, <2>1, <2>7, <2>11, <2>12 DEF Row
<1> QED
  BY <1>1, <1>2

\* What the answer's reader finds: a settled tree, the last accepted slot among
\* the seed and the drafted nodes, and the accepted slots and path as its row.
LEMMA AcceptedWalk ==
  ASSUME CInv, pc = "join", rpc.st = "answered", NEW acc, acc = Accepted(rpc.sel)
  PROVE  /\ LastSlot(acc) \in tree.prefix - 1 .. tree.end - 1
         /\ LastSlot(acc) \in tree.prefix - 1 .. Extent - 1
         /\ acc = tree.mask[LastSlot(acc)] /\ Walk(tree, tree.prefix, LastSlot(acc), AcceptedPath(acc))
         /\ tree.node[LastSlot(acc)].seq \in Seqs
         /\ Backed(tree, kv, pool, tree.prefix, tree.end, Extent)
         /\ Recurrent => kv[CommittedSeq] = PathTo(tree, tree.prefix - 1)
<1>1. /\ Grown(tree, tree.prefix, tree.end, Extent) /\ CommittedLen = tree.prefix /\ RoundEnd = tree.end
      /\ tree.prefix \in Nat /\ tree.end \in Nat /\ Extent \in Nat /\ tree.end <= Extent
      /\ rpc.inputs = tree.prefix - 1 .. tree.end - 1
      /\ \A i \in rpc.inputs : i \in Slots
  BY Joined, Settled DEF CInv
<1>2. LastSlot(acc) \in rpc.inputs /\ acc = tree.mask[LastSlot(acc)]
  BY AcceptedFacts DEF CInv
<1> DEFINE b == LastSlot(acc)
<1> HIDE DEF b
<1>3. b \in tree.prefix - 1 .. tree.end - 1 /\ b \in tree.prefix - 1 .. Extent - 1 /\ b \in Slots
  BY <1>1, <1>2 DEF b
<1>4. Walk(tree, tree.prefix, b, AcceptedPath(acc))
  <2>1. acc = tree.mask[b]
    BY <1>2 DEF b
  <2> QED
    BY <2>1 DEF Walk, AcceptedPath
<1>5. tree.node[b].seq \in Seqs
  BY <1>1, <1>3, NodeFields DEF Grown
<1>6. /\ Backed(tree, kv, pool, tree.prefix, tree.end, Extent)
      /\ Recurrent => kv[CommittedSeq] = PathTo(tree, tree.prefix - 1)
  <2>1. ~Opening /\ pc # "fatal"
    BY DEF Opening
  <2> QED
    BY <1>1, <2>1 DEF CInv, Cached
<1> QED
  BY <1>2, <1>3, <1>4, <1>5, <1>6 DEF b

\* What Commit puts back behind the tree.
LEMMA CommitCached ==
  ASSUME NEW u, NEW kvp, NEW hit, Commit(u, kvp, hit), Backed(u, kvp, PoolOf(u), u.prefix, u.end, u.end),
         Recurrent => kvp[CommittedSeq] = PathTo(u, u.prefix - 1), Records
  PROVE  Cached' /\ cause' = cause
<1>1. /\ tree' = u /\ kv' = kvp /\ pool' = PoolOf(u) /\ bet' = NoBet /\ cause' = cause
      /\ gen' = [gen EXCEPT !.first = FALSE,
                            !.warm = IF gen.first THEN u.prefix - tree.prefix ELSE gen.warm,
                            !.eog = ~gen.first /\ {u.node[i].tok : i \in tree.prefix .. u.prefix - 1} \cap Eog # {}]
  BY DEF Commit, Return
<1>2. gen \in [orig : 1 .. MaxLen, first : BOOLEAN, warm : Nat, eog : BOOLEAN]
  BY DEF Records
<1>3. gen'.first = FALSE /\ bet'.st = "none"
  BY <1>1, <1>2 DEF NoBet
<1>4. ~Opening'
  BY <1>3 DEF Opening
<1> QED
  BY <1>1, <1>3, <1>4, PlainCached

\* The miss path: accept_path takes the path, and leaves it behind the seed.
LEMMA AcceptMissCached ==
  ASSUME CInv, AcceptMiss
  PROVE  Cached' /\ (cause' = cause \/ cause' = "max_len")
<1>0. PICK acc \in {Accepted(rpc.sel)} :
     LET path == AcceptedPath(acc)
         keep == tree.node[LastSlot(acc)].seq
         t1   == ReorderBySequence(tree, acc)
         seed == [tok |-> Bonus(acc), pos |-> t1.node[t1.end - 1].pos + 1,
                  par |-> t1.end - 1, st |-> kCandidate, lp |-> 0, seq |-> 0]
         t2   == Add(t1, <<seed>>)
     IN /\ ~BetWon(acc)
        /\ IF ~AcceptPathOk(kv, keep, path) THEN Die("decode")
           ELSE IF ~AddOk(t1, <<seed>>) THEN Die("max_len")
           ELSE Commit(SetStatus(SetPrefixLen(t2, t2.end), 0 .. t2.end - 2, kPrompt),
                       AcceptPath(kv, keep, path),
                       FALSE)
  BY DEF AcceptMiss
<1> DEFINE path == AcceptedPath(acc)
           keep == tree.node[LastSlot(acc)].seq
           t1   == ReorderBySequence(tree, acc)
           seed == [tok |-> Bonus(acc), pos |-> t1.node[t1.end - 1].pos + 1,
                    par |-> t1.end - 1, st |-> kCandidate, lp |-> 0, seq |-> 0]
           n == Cardinality(acc)
           kvp == AcceptPath(kv, keep, path)
<1>1. pc = "join" /\ rpc.st = "answered" /\ acc = Accepted(rpc.sel)
  BY DEF AcceptMiss
<1>2. \/ ~AcceptPathOk(kv, keep, path) \/ Die("max_len")
      \/ AddOk(t1, <<seed>>) /\ Commit(Reseeded(t1, seed), kvp, FALSE)
  BY <1>0 DEF Reseeded
<1> HIDE DEF path, keep, t1, seed, kvp
<1>3. /\ Grown(tree, tree.prefix, tree.end, Extent) /\ bet.st # "drafting"
      /\ MaxLen \in Nat /\ tree.prefix \in Nat /\ tree.end \in Nat /\ Extent \in Nat
      /\ 1 <= tree.prefix /\ tree.prefix < tree.end /\ tree.end <= Extent /\ Extent <= MaxLen
      /\ \A i \in rpc.inputs : i \in Slots
  BY <1>1, Joined, Settled DEF CInv
<1>4. /\ acc \subseteq Slots /\ ReorderOk(tree, acc) /\ LastSlot(acc) \in rpc.inputs
      /\ Bonus(acc) \in Tok /\ \A i \in acc : tree.node[i].tok \in Tok
  BY <1>1, AcceptedFacts DEF CInv
<1>b. IInv /\ Cached
  BY DEF CInv
<1> DEFINE tip == LastSlot(acc)
<1> HIDE DEF tip
<1>p. /\ tip \in tree.prefix - 1 .. Extent - 1 /\ acc = tree.mask[tip]
      /\ Walk(tree, tree.prefix, tip, path) /\ keep = tree.node[tip].seq /\ keep \in Seqs
      /\ Backed(tree, kv, pool, tree.prefix, tree.end, Extent)
      /\ Recurrent => kv[CommittedSeq] = PathTo(tree, tree.prefix - 1)
  BY <1>1, AcceptedWalk DEF path, keep, tip
<1>q. /\ AcceptPathOk(kv, keep, path) /\ kvp[0] = Row(tree, tip)
      /\ \A s \in Seqs \ {0} : kvp[s] = {}
      /\ Recurrent => kvp[CommittedSeq] = Row(tree, tip)
  <2>1. Shaped(tree, tree.prefix, Extent) /\ Holds(tree, kv, tip) /\ KvTyped(kv)
    BY <1>3, <1>b, <1>p DEF Grown, Backed, IInv, Rest
  <2>2. /\ AcceptPathOk(kv, tree.node[tip].seq, path)
        /\ AcceptPath(kv, tree.node[tip].seq, path)[0] = Row(tree, tip)
        /\ \A s \in Seqs \ {0} : AcceptPath(kv, tree.node[tip].seq, path)[s] = {}
        /\ Recurrent => AcceptPath(kv, tree.node[tip].seq, path)[CommittedSeq] = Row(tree, tip)
    <3>1. /\ tip \in tree.prefix - 1 .. Extent - 1 /\ Walk(tree, tree.prefix, tip, path)
          /\ tree.node[tip].seq \in Seqs /\ (Recurrent => kv[CommittedSeq] = PathTo(tree, tree.prefix - 1))
      BY <1>p
    <3>2. Standing(tree, tree.prefix, Extent, tip, path, kv)
      BY <2>1, <3>1 DEF Standing
    <3> QED
      BY <3>2, PathAccepted
  <2> QED
    BY <1>p, <2>2 DEF kvp
<1>5. ASSUME Die("max_len") PROVE Cached' /\ cause' = "max_len"
  <2>1. Cached'
    BY <1>5, <1>b, DieCached
  <2> QED
    BY <1>5, <2>1 DEF Die
<1>6. ASSUME AddOk(t1, <<seed>>), Commit(Reseeded(t1, seed), kvp, FALSE) PROVE Cached' /\ cause' = cause
  <2>1. TreeTyped(tree) /\ 0 \in Seqs
    BY <1>3, SeqsAssumption DEF Grown, Seqs
  <2>2. TreeTyped(t1) /\ Shaped(t1, n, n) /\ Reordered(tree, acc, t1)
    BY <1>4, <2>1, ReorderShape DEF TreeTyped, t1
  <2>3. /\ n \in tree.prefix .. tree.end /\ t1.prefix = n /\ t1.end = n
        /\ \A i \in 0 .. n - 1 : t1.node[i].tok = tree.node[Nth(acc, i)].tok /\ t1.node[i].pos = i
        /\ \A i \in 0 .. tree.prefix - 1 : t1.node[i].tok = tree.node[i].tok
    BY <2>2 DEF Reordered
  <2>4. n \in Nat /\ n >= tree.prefix /\ n <= MaxLen /\ n >= 1 /\ n - 1 \in 0 .. n - 1
    BY <1>3, <2>3
  <2>5. IsFiniteSet(acc) /\ acc \subseteq Int
    BY <1>4, SlotSets
  <2>6. \A i \in 0 .. n - 1 : t1.node[i].tok \in Tok
    <3>1. \A i \in 0 .. n - 1 : Nth(acc, i) \in acc
      BY <2>5, NthWorks
    <3> QED
      BY <1>4, <2>3, <3>1
  <2>7. seed = [tok |-> Bonus(acc), pos |-> t1.node[n - 1].pos + 1, par |-> n - 1, st |-> kCandidate,
                lp |-> 0, seq |-> 0]
    BY <2>3 DEF seed
  <2>8. t1.node[n - 1].pos + 1 \in 0 .. MaxLen
    <3>1. t1.node[n - 1].pos = n - 1
      BY <2>3, <2>4
    <3> HIDE DEF n
    <3> QED
      BY <1>3, <2>4, <3>1
  <2>9. n - 1 \in Slots
    <3> HIDE DEF n
    <3> QED
      BY <1>3, <2>4 DEF Slots
  <2>10. /\ seed \in NodeRec(Tok \cup {0}, Seqs) /\ seed.tok = Bonus(acc) /\ seed.par = n - 1
         /\ seed.pos = t1.node[n - 1].pos + 1 /\ seed.st = kCandidate /\ seed.seq = 0
    <3> HIDE DEF n
    <3> QED
      BY <1>4, <2>1, <2>7, <2>8, <2>9 DEF NodeRec, Status
  <2>11. 1 <= MaxLen - n
    <3>1. Len(<<seed>>) = 1
      OBVIOUS
    <3> QED
      BY <1>6, <2>3, <3>1 DEF AddOk
  <2> DEFINE u == Reseeded(t1, seed)
  <2>12. /\ Grown(u, n + 1, n + 1, n + 1) /\ u.prefix = n + 1 /\ u.end = n + 1
         /\ \A i \in 0 .. n - 1 : u.node[i].tok = t1.node[i].tok
         /\ u.node[n].seq = 0 /\ u.node[n].st = kCandidate
    <3> HIDE DEF n, u, seed, t1
    <3>1. TreeTyped(t1) /\ Shaped(t1, n, n) /\ t1.end = n /\ t1.prefix = n /\ n \in Nat
      BY <2>2, <2>3, <2>4
    <3>2. seed.tok \in Tok
      BY <1>4, <2>10
    <3>4. Seeds(t1, n, seed)
      BY <2>6, <2>10, <2>11, <3>1, <3>2 DEF Seeds
    <3>3. /\ Grown(Reseeded(t1, seed), n + 1, n + 1, n + 1)
          /\ Reseeded(t1, seed).prefix = n + 1 /\ Reseeded(t1, seed).end = n + 1
          /\ \A i \in 0 .. n - 1 : Reseeded(t1, seed).node[i].tok = t1.node[i].tok
          /\ Reseeded(t1, seed).node[n].tok = seed.tok
          /\ Reseeded(t1, seed).node[n].seq = seed.seq /\ Reseeded(t1, seed).node[n].st = kCandidate
      BY <3>4, ReseedGrown
    <3> QED
      BY <2>10, <3>3 DEF u
  <2> HIDE DEF u, n
  <2>13. Shaped(u, n + 1, n + 1) /\ n \in 0 .. (n + 1) - 1
    BY <2>4, <2>12 DEF Grown
  <2>14. PathTo(u, n) = Row(tree, tip)
    <3>1. tip \in 0 .. Extent - 1
      BY <1>3, <1>p
    <3>2. Shaped(tree, tree.prefix, Extent)
      BY <1>3 DEF Grown
    <3>3. n = Cardinality(tree.mask[tip])
      BY <1>p DEF n
    <3>4. \A i \in 0 .. n - 1 : u.node[i].tok = tree.node[Nth(tree.mask[tip], i)].tok
      BY <1>p, <2>3, <2>12
    <3> QED
      BY <2>4, <2>13, <3>1, <3>2, <3>3, <3>4, CommittedRow
  <2>15. Fresh(u, kvp, n) /\ Holds(u, kvp, n)
    <3>1. u.node[n].pos \in Nat /\ \A x \in PathTo(u, n) : x[1] \in Nat /\ x[1] < u.node[n].pos
      BY <2>13, PathBelow
    <3>2. kvp[u.node[n].seq] = PathTo(u, n)
      BY <1>q, <2>12, <2>14
    <3>3. u.node[n].st \notin {kProcessed, kPostProcessed}
      BY <2>12 DEF kCandidate, kProcessed, kPostProcessed
    <3> QED
      BY <3>1, <3>2, <3>3 DEF Fresh, Holds
  <2>16. /\ 0 \notin FreeSeqs(PoolOf(u)) /\ FreeSeqs(PoolOf(u)) \subseteq Seqs \ {0}
    BY DEF FreeSeqs
  <2>17. n \in u.mask[n] /\ \A i \in (n + 1) - 1 .. (n + 1) - 1 : i = n
    BY <2>4, <2>13, RowBounds
  <2> DEFINE m == n + 1
  <2>18. Backed(u, kvp, PoolOf(u), m, m, m)
    <3>1. /\ \A i \in m - 1 .. m - 1 : i = n
          /\ u.node[n].seq = 0
      BY <2>12, <2>17
    <3> HIDE DEF m
    <3> QED
      BY <1>q, <2>15, <2>16, <2>17, <3>1 DEF Backed
  <2>19. Commit(u, kvp, FALSE)
    BY <1>6 DEF u
  <2>20. Recurrent => kvp[CommittedSeq] = PathTo(u, u.prefix - 1)
    <3>1. u.prefix - 1 = n
      BY <2>4, <2>12
    <3> QED
      BY <1>q, <2>14, <3>1
  <2>21. Backed(u, kvp, PoolOf(u), u.prefix, u.end, u.end) /\ Records
    BY <1>b, <2>12, <2>18 DEF m, IInv
  <2> QED
    BY <2>19, <2>20, <2>21, CommitCached
<1> QED
  BY <1>2, <1>5, <1>6, <1>q

\* A bet's subtree that hangs from slot l keeps its sequences when it is spliced in
\* behind l's row, and so does the cache: the tags of every other one are dropped.
LEMMA BackedSplice ==
  ASSUME NEW t, NEW e, Grown(t, t.prefix, t.end, e), NEW l \in t.prefix - 1 .. t.end - 1,
         NEW acc, acc = t.mask[l], ReorderProactiveOk(t, acc, t.end, e),
         t.node[t.end].par = l, t.node[t.end].st = kPostProcessed,
         NEW u, u = ReorderProactive(t, acc, t.end, e, t.node[t.end].seq),
         NEW q, NEW po, Backed(t, q, po, t.prefix, t.end, e),
         NEW q2, \A i \in t.end .. e - 1 : q2[t.node[i].seq] = q[t.node[i].seq],
         \A s \in Seqs : (\A i \in t.end .. e - 1 : t.node[i].seq # s) => q2[s] = {}
  PROVE  /\ Backed(u, q2, PoolOf(u), u.prefix, u.end, u.end)
         /\ PathTo(u, u.prefix - 1) = Row(t, l)
<1> DEFINE b == t.end
           n == Cardinality(acc)
           m == n + (e - b)
           c == t.prefix
           h == [s \in n .. m - 1 |-> b + (s - n)]
           y(s) == n + (s - b)
<1>1. /\ MaxLen \in Nat /\ c \in Nat /\ b \in Nat /\ e \in Nat
      /\ 1 <= c /\ c <= b /\ b <= e /\ e <= MaxLen /\ 0 .. e - 1 \subseteq Slots
  BY GrownNumbers
<1>2. b < e /\ m <= MaxLen
  BY DEF ReorderProactiveOk
<1>3. TreeTyped(t) /\ Shaped(t, c, e)
  BY DEF Grown
<1>4. l \in 0 .. e - 1 /\ l \in Nat /\ l < b /\ l >= c - 1
  BY <1>1, <1>2
<1>5. /\ n = t.node[l].pos + 1 /\ n \in Nat /\ acc \subseteq 0 .. l /\ IsFiniteSet(acc) /\ acc \subseteq Int
      /\ acc \subseteq Slots
  <2>1. n = t.node[l].pos + 1 /\ t.node[l].pos \in 0 .. l /\ acc \subseteq 0 .. l /\ IsFiniteSet(acc)
    BY <1>3, <1>4, PosIsDepth, RowBounds
  <2>2. 0 .. l \subseteq Slots /\ 0 .. l \subseteq Int
    BY <1>1, <1>4
  <2> HIDE DEF n
  <2>3. n \in Nat
    BY <1>4, <2>1
  <2> QED
    BY <2>1, <2>2, <2>3
<1>6. b \in Slots /\ t.node[b].seq \in Seqs
  <2>1. b \in 0 .. e - 1
    BY <1>1, <1>2
  <2> HIDE DEF b
  <2> QED
    BY <1>1, <1>3, <2>1, NodeFields
<1>7. \A i \in acc : t.node[i].tok \in Tok
  <2>1. acc \subseteq 0 .. e - 1
    BY <1>1, <1>4, <1>5
  <2> QED
    BY <2>1 DEF Grown
<1>8. Grown(u, u.prefix, u.end, u.end) /\ Spliced(t, acc, b, e, t.node[b].seq, u)
  BY <1>5, <1>6, <1>7, SpliceGrown
<1>9. u.prefix = n + 1 /\ u.end = m /\ \A i \in 0 .. n - 1 : u.node[i].tok = t.node[Nth(acc, i)].tok
  BY <1>8 DEF Spliced
<1>10. ASSUME NEW s \in b .. e - 1
       PROVE  /\ u.node[y(s)].tok = t.node[s].tok /\ u.node[y(s)].pos = t.node[s].pos
              /\ u.node[y(s)].seq = t.node[s].seq
              /\ u.node[y(s)].st = IF s = b THEN kProcessed ELSE Promoted(t.node[s].st)
              /\ s > b => u.node[y(s)].par = y(t.node[s].par)
  <2> DEFINE z == t.node[b].seq
  <2>1. Spliced(t, acc, b, e, z, u)
    BY <1>8
  <2> HIDE DEF z, b
  <2>2. /\ u.node[y(s)].tok = t.node[s].tok /\ u.node[y(s)].pos = t.node[s].pos
        /\ u.node[y(s)].seq = (IF s = b THEN z ELSE t.node[s].seq)
        /\ u.node[y(s)].st = (IF s = b THEN kProcessed ELSE Promoted(t.node[s].st))
        /\ s > b => u.node[y(s)].par = y(t.node[s].par)
    BY <2>1 DEF Spliced
  <2>3. u.node[y(s)].seq = t.node[s].seq
    BY <2>2 DEF z
  <2> QED
    BY <2>2, <2>3
<1>11. ASSUME NEW s \in b + 1 .. e - 1 PROVE t.node[s].par \in b .. s - 1
  <2> HIDE DEF b, c
  <2>1. s \in 1 .. e - 1 /\ s \in b + 1 .. e - 1
    BY <1>1
  <2>2. t.node[s].par \in 0 .. s - 1
    BY <1>3, <2>1 DEF Shaped, Hangs
  <2>3. t.node[s].par >= b
    BY DEF Grown, b, c
  <2> QED
    BY <1>1, <2>2, <2>3
<1>12. \A s \in b .. e - 1 : t.node[s].st \in {kPostCandidate, kPostProcessed}
  BY DEF Grown
<1> HIDE DEF n
<1>13. ASSUME NEW s \in n .. m - 1
       PROVE  /\ h[s] \in b .. e - 1 /\ s = y(h[s]) /\ (s > n => h[s] > b) /\ (s = n => h[s] = b)
  <2>1. h[s] = b + (s - n)
    OBVIOUS
  <2> HIDE DEF h
  <2> QED
    BY <1>1, <1>2, <1>5, <2>1
<1>14. \A s \in b .. e - 1 : y(s) \in n .. m - 1 /\ h[y(s)] = s
  <2> TAKE s \in b .. e - 1
  <2>1. y(s) \in n .. m - 1 /\ b + (y(s) - n) = s
    BY <1>1, <1>5
  <2> QED
    BY <2>1
<1>15. \A s, k \in n .. m - 1 : h[s] = h[k] => s = k
  <2> TAKE s, k \in n .. m - 1
  <2> HIDE DEF h, y, m
  <2> QED
    BY <1>13
<1>16. n \in n .. m - 1 /\ h[n] = b /\ n + 1 <= m /\ m \in Nat
  <2>1. n \in n .. m - 1 /\ n + 1 <= m /\ m \in Nat
    BY <1>1, <1>2, <1>5
  <2> QED
    BY <1>13, <2>1
<1>17. ASSUME NEW s \in n .. m - 1
       PROVE  /\ u.node[s].tok = t.node[h[s]].tok /\ u.node[s].pos = t.node[h[s]].pos
              /\ u.node[s].seq = t.node[h[s]].seq
              /\ u.node[s].st = IF h[s] = b THEN kProcessed ELSE Promoted(t.node[h[s]].st)
              /\ h[s] > b => u.node[s].par = y(t.node[h[s]].par)
  <2> DEFINE x == h[s]
  <2>1. x \in b .. e - 1 /\ s = y(x)
    BY <1>13
  <2> HIDE DEF x, h
  <2>2. /\ u.node[y(x)].tok = t.node[x].tok /\ u.node[y(x)].pos = t.node[x].pos
        /\ u.node[y(x)].seq = t.node[x].seq
        /\ u.node[y(x)].st = IF x = b THEN kProcessed ELSE Promoted(t.node[x].st)
        /\ x > b => u.node[y(x)].par = y(t.node[x].par)
    BY <1>10, <2>1
  <2> HIDE DEF y
  <2> QED
    BY <2>1, <2>2 DEF x
<1>18. PathTo(u, n) = Row(t, l)
  <2>1. Shaped(u, n + 1, m)
    BY <1>8, <1>9 DEF Grown
  <2>2. n = Cardinality(t.mask[l]) /\ \A i \in 0 .. n - 1 : u.node[i].tok = t.node[Nth(t.mask[l], i)].tok
    BY <1>9 DEF n
  <2>3. Shaped(t, c, e) /\ l \in 0 .. e - 1 /\ n \in Nat
    BY <1>3, <1>4, <1>5
  <2> HIDE DEF c
  <2> QED
    BY <2>1, <2>2, <2>3, CommittedRow
<1>19. PathTo(t, b) = Row(t, l)
  <2>1. b \in 0 .. e - 1 /\ b > 0
    BY <1>1, <1>2
  <2> QED
    BY <1>3, <2>1, PathBelow DEF Row
<1>20. t.mask[b] \subseteq 0 .. b
  <2>1. b \in 0 .. e - 1
    BY <1>1, <1>2
  <2> QED
    BY <1>3, <2>1, RowBounds
<1> HIDE DEF y
<1>21. ASSUME NEW s \in n + 1 .. m - 1
       PROVE  /\ h[s] > 0 /\ u.node[s].par \in n .. s - 1 /\ h[u.node[s].par] = t.node[h[s]].par
  <2>1. s \in n .. m - 1 /\ s > n
    BY <1>5, <1>16
  <2> DEFINE x == h[s]
             p == t.node[x].par
  <2>2. x \in b .. e - 1 /\ s = y(x) /\ x > b
    BY <1>13, <2>1
  <2> HIDE DEF x, h
  <2>3. x \in b + 1 .. e - 1 /\ x > 0
    BY <1>1, <2>2
  <2>4. p \in b .. x - 1
    BY <1>11, <2>3
  <2>5. u.node[s].par = y(p)
    BY <1>17, <2>1, <2>2 DEF x
  <2> HIDE DEF p
  <2>6. p \in b .. e - 1 /\ y(p) \in n .. s - 1
    BY <1>1, <1>5, <2>2, <2>3, <2>4 DEF y
  <2>7. h[y(p)] = p
    BY <1>14, <2>6
  <2> QED
    BY <2>3, <2>5, <2>6, <2>7 DEF x, p
<1>22. ASSUME NEW k \in n .. m - 1, h[k] \in t.mask[b] PROVE k = n
  <2>1. h[k] \in 0 .. b
    BY <1>20, <1>22
  <2> HIDE DEF h
  <2> QED
    BY <1>1, <1>5, <1>13, <2>1
<1>23. ASSUME NEW s \in n .. m - 1
       PROVE  /\ u.node[s].st \in {kProcessed, kPostProcessed} => t.node[h[s]].st \in {kProcessed, kPostProcessed}
              /\ u.node[s].st \in {kCandidate, kPostCandidate} =>
                   t.node[h[s]].st \in {kCandidate, kPostCandidate} /\ h[s] # b
  <2> DEFINE x == h[s]
  <2>1. /\ x \in b .. e - 1
        /\ u.node[s].st = IF x = b THEN kProcessed ELSE Promoted(t.node[x].st)
    BY <1>13, <1>17
  <2> HIDE DEF x
  <2>2. t.node[x].st \in {kPostCandidate, kPostProcessed}
    BY <1>12, <2>1
  <2>3. CASE x = b
    <3>1. u.node[s].st = kProcessed /\ t.node[x].st = kPostProcessed
      BY <2>1, <2>3
    <3> QED
      BY <3>1 DEF x, kProcessed, kPostProcessed, kCandidate, kPostCandidate
  <2>4. CASE x # b
    <3>1. u.node[s].st = Promoted(t.node[x].st)
      BY <2>1, <2>4
    <3>2. CASE t.node[x].st = kPostCandidate
      <4>1. u.node[s].st = kCandidate
        BY <3>1, <3>2 DEF Promoted, kPostCandidate, kPostProcessed
      <4> QED
        BY <2>4, <3>2, <4>1 DEF x, kProcessed, kPostProcessed, kCandidate
    <3>3. CASE t.node[x].st = kPostProcessed
      <4>1. u.node[s].st = kProcessed
        BY <3>1, <3>3 DEF Promoted, kPostCandidate, kPostProcessed
      <4> QED
        BY <3>3, <4>1 DEF x, kProcessed, kCandidate, kPostCandidate
    <3> QED
      BY <2>2, <3>2, <3>3
  <2> QED
    BY <2>3, <2>4
<1> HIDE DEF h, m
<1>24. \A s \in n .. m - 1 : h[s] \in c - 1 .. e - 1
  BY <1>1, <1>13
<1> DEFINE d == n + 1
<1>25. d - 1 = n /\ Shaped(u, d, m) /\ u.prefix = d /\ u.end = m
  <2>1. d - 1 = n
    BY <1>5
  <2>2. u.prefix = d /\ u.end = m
    BY <1>9
  <2>3. Shaped(u, d, m)
    BY <1>8, <2>2 DEF Grown
  <2> QED
    BY <2>1, <2>2, <2>3
<1>26. \A s \in d .. m - 1 : /\ h[s] > 0 /\ u.node[s].par \in n .. s - 1
                             /\ h[u.node[s].par] = t.node[h[s]].par
  BY <1>21
<1> HIDE DEF d
<1>27. Carries(t, c, b, e, u, d, m, h)
  <2>1. \A s \in d - 1 .. m - 1 :
       /\ h[s] \in c - 1 .. e - 1
       /\ u.node[s].tok = t.node[h[s]].tok /\ u.node[s].pos = t.node[h[s]].pos
       /\ u.node[s].seq = t.node[h[s]].seq
       /\ u.node[s].st \in {kProcessed, kPostProcessed} => t.node[h[s]].st \in {kProcessed, kPostProcessed}
       /\ u.node[s].st \in {kCandidate, kPostCandidate} =>
            t.node[h[s]].st \in {kCandidate, kPostCandidate} /\ h[s] # b
    BY <1>17, <1>23, <1>24, <1>25
  <2>2. \A s, k \in d - 1 .. m - 1 : h[s] = h[k] => s = k
    BY <1>15, <1>25
  <2>3. \A s \in d .. m - 1 : /\ h[s] > 0 /\ u.node[s].par \in d - 1 .. s - 1
                              /\ h[u.node[s].par] = t.node[h[s]].par
    BY <1>25, <1>26
  <2>4. /\ PathTo(u, d - 1) = PathTo(t, h[d - 1])
        /\ \A k \in d - 1 .. m - 1 : h[k] \in t.mask[h[d - 1]] => k = d - 1
    BY <1>16, <1>18, <1>19, <1>22, <1>25
  <2> QED
    BY <1>3, <1>25, <2>1, <2>2, <2>3, <2>4 DEF Carries
<1>28. \A s \in d - 1 .. m - 1 : q2[u.node[s].seq] = q[u.node[s].seq]
  <2> TAKE s \in d - 1 .. m - 1
  <2>1. s \in n .. m - 1
    BY <1>25
  <2>2. h[s] \in b .. e - 1
    BY <1>13, <2>1
  <2>3. u.node[s].seq = t.node[h[s]].seq
    BY <1>17, <2>1
  <2> QED
    BY <2>2, <2>3
<1>29. \A s \in d - 1 .. m - 1 : u.node[s].seq \notin FreeSeqs(PoolOf(u))
  <2>1. \A s \in n .. m - 1 : s \in Live(u)
    BY <1>5, <1>9 DEF Live
  <2> QED
    BY <1>25, <2>1 DEF FreeSeqs, PoolOf
<1>30. \A s \in FreeSeqs(PoolOf(u)) : q2[s] = {}
  <2>1. ASSUME NEW s \in FreeSeqs(PoolOf(u)), NEW i \in b .. e - 1 PROVE t.node[i].seq # s
    <3>1. y(i) \in n .. m - 1 /\ h[y(i)] = i
      BY <1>14
    <3>2. u.node[y(i)].seq = t.node[i].seq
      BY <1>17, <3>1
    <3>3. y(i) \in d - 1 .. m - 1
      BY <1>25, <3>1
    <3>4. u.node[y(i)].seq \notin FreeSeqs(PoolOf(u))
      BY <1>29, <3>3
    <3> QED
      BY <3>2, <3>4
  <2>2. FreeSeqs(PoolOf(u)) \subseteq Seqs
    BY DEF FreeSeqs
  <2> QED
    BY <2>1, <2>2
<1>31. Backed(u, q2, PoolOf(u), d, m, m)
  <2> HIDE DEF b
  <2>1. Backed(t, q, po, c, b, e)
    BY DEF b, c
  <2>2. Keeps(u, d, m, q, q2, PoolOf(u))
    BY <1>28, <1>29, <1>30 DEF Keeps
  <2> HIDE DEF c
  <2> QED
    BY <1>27, <2>1, <2>2, BackedCarry
<1> QED
  BY <1>18, <1>25, <1>31

\* A bet that was won can be spliced: reorder_by_sequence_proactive never throws.
LEMMA WonBetFits ==
  ASSUME IInv, pc = "join", rpc.st = "answered", NEW acc, acc = Accepted(rpc.sel), BetWon(acc)
  PROVE  /\ ReorderProactiveOk(tree, acc, bet.begin, bet.stop)
         /\ bet.st = "placed" /\ bet.begin = tree.end /\ Extent = bet.stop
         /\ tree.node[tree.end].par = LastSlot(acc)
<1> DEFINE b == tree.end
           c == tree.prefix
           e == bet.stop
           l == LastSlot(acc)
           n == Cardinality(acc)
<1>1. bet.st = "placed" /\ bet.leaf = l
  BY DEF BetWon
<1>2. /\ ~Drafting /\ RoundEnd = b /\ Extent = e /\ bet.begin = b /\ b + 1 < e
      /\ tree.node[b].par = l
  BY <1>1 DEF Extent, Drafting, RoundEnd, IInv, Bets
<1>3. /\ Grown(tree, c, b, e) /\ MaxLen \in Nat /\ c \in Nat /\ b \in Nat /\ e \in Nat
      /\ 1 <= c /\ c < b /\ b <= e /\ e <= MaxLen /\ rpc.inputs = c - 1 .. b - 1
  BY <1>2, Joined, Settled
<1>4. /\ ReorderOk(tree, acc) /\ acc \subseteq Live(tree) /\ l \in rpc.inputs /\ l \in acc /\ acc = tree.mask[l]
      /\ acc \subseteq Slots
  BY AcceptedFacts
<1> HIDE DEF l, b, c, e
<1>5. l \in c - 1 .. b - 1 /\ l \in 0 .. e - 1 /\ l \in Nat
  BY <1>3, <1>4
<1>6. Shaped(tree, c, e)
  BY <1>3 DEF Grown
<1>7. /\ n = tree.node[l].pos + 1 /\ tree.node[l].pos \in 0 .. l /\ n \in Nat /\ n <= b
      /\ Rank(acc, l) = n - 1
  <2>1. n = tree.node[l].pos + 1 /\ tree.node[l].pos \in 0 .. l
    BY <1>4, <1>5, <1>6, PosIsDepth
  <2>2. Rank(acc, l) = tree.node[l].pos
    BY <1>4, <1>5, <1>6, RowByPos
  <2> DEFINE p == tree.node[l].pos
  <2>3. n = p + 1 /\ p \in 0 .. l /\ Rank(acc, l) = p
    BY <2>1, <2>2
  <2> HIDE DEF n, p
  <2>4. n = p + 1 /\ p \in 0 .. l /\ n \in Nat /\ n <= b /\ Rank(acc, l) = n - 1
    <3>1. p \in Nat /\ p <= l /\ l <= b - 1 /\ b \in Nat
      BY <1>3, <1>5, <2>3
    <3>2. p + 1 \in Nat /\ p + 1 <= b /\ p = (p + 1) - 1
      BY <1>5, <3>1
    <3> QED
      BY <2>3, <3>2
  <2> QED
    BY <2>4 DEF p
<1>8. Hangs(tree, c, b) /\ tree.node[b].pos = tree.node[l].pos + 1
  <2>1. b \in 1 .. e - 1
    BY <1>2, <1>3
  <2>2. Hangs(tree, c, b)
    BY <1>6, <2>1 DEF Shaped
  <2> QED
    BY <1>2, <2>2 DEF Hangs
<1>9. ASSUME NEW s \in b .. e - 1 PROVE tree.node[s].par \in acc \cup (b .. s - 1)
  <2>1. CASE s = b
    BY <1>2, <1>4, <2>1
  <2>2. CASE s # b
    <3>1. s \in 1 .. e - 1 /\ s \in b + 1 .. e - 1
      BY <1>3, <2>2
    <3>2. tree.node[s].par \in 0 .. s - 1
      BY <1>6, <3>1 DEF Shaped, Hangs
    <3>3. tree.node[s].par >= b
      BY <1>3, <3>1 DEF Grown
    <3> QED
      BY <1>3, <3>1, <3>2, <3>3
  <2> QED
    BY <2>1, <2>2
<1>10. NewSlot(acc, b, tree.node[b].par) = n - 1
  <2>1. ~(l >= b)
    BY <1>3, <1>5
  <2> QED
    BY <1>2, <1>7, <2>1 DEF NewSlot
<1>11. tree.end <= b /\ b < e /\ e <= MaxLen /\ n + (e - b) <= MaxLen
  <2>1. tree.end = b
    BY DEF b
  <2> HIDE DEF n
  <2>2. n \in Nat /\ n <= b
    BY <1>7
  <2>3. b \in Nat /\ e \in Nat /\ MaxLen \in Nat /\ b + 1 < e /\ e <= MaxLen
    BY <1>2, <1>3
  <2> QED
    BY <2>1, <2>2, <2>3
<1>12. ReorderProactiveOk(tree, acc, b, e)
  BY <1>2, <1>4, <1>7, <1>8, <1>9, <1>10, <1>11 DEF ReorderProactiveOk
<1> QED
  BY <1>1, <1>2, <1>12 DEF b, e, l

\* The hit path: the committed state of a recurrent model takes the accepted path,
\* the subtree keeps its sequences.
LEMMA AcceptHitCached ==
  ASSUME CInv, AcceptHit
  PROVE  Cached' /\ cause' = cause
<1>0. PICK acc \in {Accepted(rpc.sel)} :
     LET path == AcceptedPath(acc)
         kv1  == IF Recurrent THEN AdvanceCommitted(kv, path) ELSE kv
     IN /\ BetWon(acc)
        /\ IF Recurrent /\ ~AdvanceCommittedOk(kv, path) THEN Die("decode")
           ELSE IF ~ReorderProactiveOk(tree, acc, bet.begin, bet.stop)
           THEN Die("splice")
           ELSE Commit(ReorderProactive(tree, acc, bet.begin, bet.stop,
                                        tree.node[bet.begin].seq),
                       CollapseToSeqs(kv1, bet.seqs),
                       TRUE)
  BY DEF AcceptHit
<1> DEFINE path == AcceptedPath(acc)
           kv1 == IF Recurrent THEN AdvanceCommitted(kv, path) ELSE kv
           q == tree.node[bet.begin].seq
           u == ReorderProactive(tree, acc, bet.begin, bet.stop, q)
           kvp == CollapseToSeqs(kv1, bet.seqs)
<1>1. pc = "join" /\ rpc.st = "answered" /\ acc = Accepted(rpc.sel) /\ BetWon(acc)
  BY <1>0 DEF AcceptHit
<1>2. \/ Recurrent /\ ~AdvanceCommittedOk(kv, path)
      \/ ~ReorderProactiveOk(tree, acc, bet.begin, bet.stop)
      \/ Commit(u, kvp, TRUE)
  BY <1>0
<1> HIDE DEF path, kv1, u, kvp, q
<1> DEFINE l == LastSlot(acc)
           b == tree.end
           c == tree.prefix
           e == bet.stop
<1>3. /\ ReorderProactiveOk(tree, acc, b, e) /\ bet.st = "placed" /\ bet.begin = b /\ Extent = e
      /\ tree.node[b].par = l
  BY <1>1, WonBetFits DEF CInv
<1>4. /\ Grown(tree, c, b, e) /\ RoundEnd = b /\ c \in Nat /\ b \in Nat /\ e \in Nat
  BY <1>1, <1>3, Joined, Settled DEF CInv
<1>5. /\ l \in c - 1 .. b - 1 /\ l \in c - 1 .. e - 1
      /\ acc = tree.mask[l] /\ Walk(tree, c, l, path)
      /\ Backed(tree, kv, pool, c, b, e)
      /\ Recurrent => kv[CommittedSeq] = PathTo(tree, c - 1)
  BY <1>1, <1>3, AcceptedWalk DEF path
<1>6. /\ bet.seqs = {tree.node[i].seq : i \in b .. e - 1}
      /\ tree.node[b].st = kPostProcessed
  BY <1>3, <1>4 DEF CInv, Cached
<1>7. KvTyped(kv) /\ Shaped(tree, c, e)
  BY <1>4 DEF CInv, IInv, Rest, Grown
<1> HIDE DEF l, b, c, e
<1>9. /\ Recurrent => AdvanceCommittedOk(kv, path) /\ kv1[CommittedSeq] = Row(tree, l)
      /\ \A s \in Seqs : kv1[s] = kv[s]
      /\ DOMAIN kv1 = Seqs \cup {CommittedSeq}
  <2>1. CASE Recurrent
    <3>1. kv[CommittedSeq] = PathTo(tree, c - 1) /\ kv1 = AdvanceCommitted(kv, path)
      BY <1>5, <2>1 DEF kv1
    <3>2. /\ AdvanceCommittedOk(kv, path)
          /\ AdvanceCommitted(kv, path)[CommittedSeq] = Row(tree, l)
          /\ \A s \in Seqs : AdvanceCommitted(kv, path)[s] = kv[s]
      BY <1>5, <1>7, <3>1, StateAdvances
    <3>3. DOMAIN AdvanceCommitted(kv, path) = DOMAIN kv
      BY DEF AdvanceCommitted, DecodePath
    <3> QED
      BY <1>7, <3>1, <3>2, <3>3 DEF KvTyped
  <2>2. CASE ~Recurrent
    <3>1. kv1 = kv
      BY <2>2 DEF kv1
    <3> QED
      BY <1>7, <2>2, <3>1 DEF KvTyped
  <2> QED
    BY <2>1, <2>2
<1>10. Commit(u, kvp, TRUE)
  <2>1. ReorderProactiveOk(tree, acc, bet.begin, bet.stop)
    BY <1>3 DEF b, e
  <2> QED
    BY <1>2, <1>9, <2>1
<1>11. /\ \A s \in Seqs : kvp[s] = IF s \in bet.seqs THEN kv[s] ELSE {}
       /\ kvp[CommittedSeq] = kv1[CommittedSeq]
  <2>1. CommittedSeq \notin Seqs
    BY SeqsAssumption DEF CommittedSeq, Seqs
  <2> QED
    BY <1>9, <2>1 DEF kvp, CollapseToSeqs
<1>12. \A i \in b .. e - 1 : tree.node[i].seq \in Seqs
  <2>1. \A i \in b .. e - 1 : i \in Slots
    BY <1>4, GrownNumbers DEF Slots
  <2>2. TreeTyped(tree)
    BY <1>4 DEF Grown
  <2> QED
    BY <2>1, <2>2, NodeFields
<1>13. /\ \A i \in b .. e - 1 : kvp[tree.node[i].seq] = kv[tree.node[i].seq]
       /\ \A s \in Seqs : (\A i \in b .. e - 1 : tree.node[i].seq # s) => kvp[s] = {}
  BY <1>6, <1>11, <1>12
<1>14. u = ReorderProactive(tree, acc, b, e, tree.node[b].seq)
  BY <1>3 DEF u, q, e
<1>15. /\ Backed(u, kvp, PoolOf(u), u.prefix, u.end, u.end)
       /\ PathTo(u, u.prefix - 1) = Row(tree, l)
  <2>1. /\ Grown(tree, tree.prefix, tree.end, e) /\ l \in tree.prefix - 1 .. tree.end - 1
        /\ ReorderProactiveOk(tree, acc, tree.end, e) /\ tree.node[tree.end].par = l
        /\ tree.node[tree.end].st = kPostProcessed
        /\ u = ReorderProactive(tree, acc, tree.end, e, tree.node[tree.end].seq)
        /\ Backed(tree, kv, pool, tree.prefix, tree.end, e)
        /\ \A i \in tree.end .. e - 1 : kvp[tree.node[i].seq] = kv[tree.node[i].seq]
        /\ \A s \in Seqs : (\A i \in tree.end .. e - 1 : tree.node[i].seq # s) => kvp[s] = {}
    BY <1>3, <1>4, <1>5, <1>6, <1>13, <1>14 DEF b, c
  <2> QED
    BY <1>5, <2>1, BackedSplice
<1>16. Recurrent => kvp[CommittedSeq] = PathTo(u, u.prefix - 1)
  BY <1>9, <1>11, <1>15
<1>17. Records
  BY DEF CInv, IInv
<1> QED
  BY <1>10, <1>15, <1>16, <1>17, CommitCached

\* The steps that leave tree, cache, pool and bet alone.
LEMMA PlainStepCached ==
  ASSUME CInv, StartValidate \/ ServerAnswer \/ OracleAnswer \/ ServerFail \/ JoinFailed \/ UNCHANGED vars
  PROVE  Cached'
<1>1. Cached
  BY DEF CInv
<1>2. CASE UNCHANGED <<tree, kv, pool, bet>> /\ (Opening' => Opening /\ prevHit' = prevHit)
             /\ (pc' # "fatal" /\ ~Opening' => ~Opening /\ pc # "fatal")
  <2>1. CommittedLen' = CommittedLen /\ RoundEnd' = RoundEnd /\ Extent' = Extent
    BY <1>2 DEF CommittedLen, RoundEnd, Extent, Drafting
  <2> QED
    BY <1>1, <1>2, <2>1 DEF Cached, Opened
<1>3. ASSUME NEW why, Die(why) PROVE Cached'
  BY <1>1, <1>3, DieCached
<1>4. CASE StartValidate
  <2>1. CASE Die("no_targets")
    BY <1>3, <2>1
  <2>2. CASE ~Die("no_targets")
    <3>1. /\ pc = "validate" /\ pc' \in {"join", "bet"}
          /\ UNCHANGED <<tree, kv, pool, level, prevHit, bet, gen, srv, cause>>
      BY <1>4, <2>2 DEF StartValidate
    <3>2. ~Opening /\ ~Opening' /\ pc # "fatal"
      BY <3>1 DEF Opening
    <3> QED
      BY <1>2, <3>1, <3>2
  <2> QED
    BY <2>1, <2>2
<1>5. CASE ServerAnswer \/ OracleAnswer \/ ServerFail
  <2>1. UNCHANGED <<tree, kv, pool, pc, level, prevHit, bet, gen, cause>>
    BY <1>5 DEF ServerAnswer, OracleAnswer, ServerFail
  <2>2. Opening' = Opening
    BY <2>1 DEF Opening
  <2> QED
    BY <1>2, <2>1, <2>2
<1>6. CASE JoinFailed
  BY <1>3, <1>6 DEF JoinFailed
<1>7. CASE UNCHANGED vars
  <2>1. UNCHANGED <<tree, kv, pool, pc, level, prevHit, bet, gen, cause>>
    BY <1>7 DEF vars
  <2>2. Opening' = Opening
    BY <2>1 DEF Opening
  <2> QED
    BY <1>2, <2>1, <2>2
<1> QED
  BY <1>4, <1>5, <1>6, <1>7

\* A request starts with an empty engine and the prompt on sequence 0.
LEMMA InitCached ==
  ASSUME Init
  PROVE  Cached
<1>1. PICK p \in Prompts : /\ tree = NewTree(p)
                           /\ gen = [orig |-> Len(p), first |-> TRUE, warm |-> 0, eog |-> FALSE]
  BY DEF Init
<1>2. /\ kv = EmptyCache /\ pc = "grow" /\ level = 0 /\ prevHit = FALSE /\ bet = NoBet
  BY DEF Init
<1>3. \A s \in FreeSeqs(pool) : kv[s] = {}
  <2>1. FreeSeqs(pool) \subseteq Seqs
    BY DEF FreeSeqs
  <2> QED
    BY <1>2, <2>1 DEF EmptyCache
<1>4. gen.first /\ Opening
  BY <1>1, <1>2 DEF Opening
<1>5. Len(p) \in 1 .. MaxLen /\ Len(p) \in Nat
  BY SpecExecAssumption, MaxLenAssumption DEF NewTreeOk
<1>6. /\ tree.end = Len(p) /\ tree.prefix = Len(p)
      /\ tree.node[Len(p) - 1].st = kCandidate /\ tree.node[Len(p) - 1].seq = 0
  <2> DEFINE n == Len(p)
             rec(s) == IF s < n
                       THEN [tok |-> p[s + 1], pos |-> s, par |-> IF s = 0 THEN 0 ELSE s - 1,
                             st  |-> IF s = n - 1 THEN kCandidate ELSE kPrompt, lp  |-> 0, seq |-> 0]
                       ELSE BlankNode
  <2>1. tree.end = n /\ tree.prefix = n /\ tree.node = [s \in Slots |-> rec(s)]
    BY <1>1 DEF NewTree
  <2>2. n - 1 \in Slots /\ n - 1 < n
    BY <1>5, MaxLenAssumption DEF Slots
  <2> HIDE DEF n
  <2>3. tree.node[n - 1] = rec(n - 1)
    BY <2>1, <2>2
  <2>4. tree.node[n - 1].st = kCandidate /\ tree.node[n - 1].seq = 0
    BY <2>2, <2>3
  <2> QED
    BY <2>1, <2>4 DEF n
<1>7. Opened
  BY <1>2, <1>6 DEF Opened
<1> QED
  BY <1>2, <1>3, <1>4, <1>7 DEF Cached, NoBet

\* What the proofs below rest on: the tree is one tree in three parts, and the
\* cache stays behind it node by node, with the pool knowing of every sequence in
\* use; the engine is empty before the first decode.  Every step of the client, the
\* bet, the server and the oracle keeps it.
THEOREM AlwaysCached == Spec => []CInv
<1>1. Init => CInv
  BY InitIInv, InitCached DEF CInv
<1>2. ASSUME CInv, [Next]_vars PROVE CInv'
  <2>1. IInv'
    BY <1>2, Steps DEF CInv
  <2>2. Cached'
    <3>1. CASE GrowLevel
      BY <1>2, <3>1, GrowLevelCached
    <3>2. CASE GrowDone
      BY <1>2, <3>2, GrowDoneCached
    <3>3. CASE ChooseBet
      BY <1>2, <3>3, ChooseBetCached
    <3>4. CASE DraftLevel
      BY <1>2, <3>4, DraftLevelCached
    <3>5. CASE AcceptHit
      BY <1>2, <3>5, AcceptHitCached
    <3>6. CASE AcceptMiss
      BY <1>2, <3>6, AcceptMissCached
    <3>7. CASE StartValidate \/ ServerAnswer \/ OracleAnswer \/ ServerFail \/ JoinFailed \/ UNCHANGED vars
      BY <1>2, <3>7, PlainStepCached
    <3> QED
      BY <1>2, <3>1, <3>2, <3>3, <3>4, <3>5, <3>6, <3>7 DEF Next, Finished
  <2> QED
    BY <2>1, <2>2 DEF CInv
<1> QED
  BY <1>1, <1>2, PTL DEF Spec

\* A sequence id AllocSeq may hand out tags no cell, so that seq_cp never mixes two
\* branches.
THEOREM FreeIdsAreEmpty == Spec => []FreeSeqsEmpty
<1>1. CInv => FreeSeqsEmpty
  BY DEF CInv, Cached, FreeSeqsEmpty
<1> QED
  BY <1>1, AlwaysCached, PTL

\* The committed sequence of a recurrent model holds the committed tokens but the
\* seed at all times, on hit and miss paths alike.
THEOREM CommittedStateInStep == Spec => []CommittedSeqInStep
<1>1. CInv => CommittedSeqInStep
  BY DEF CInv, Cached, CommittedSeqInStep, Opening
<1> QED
  BY <1>1, AlwaysCached, PTL

\* Up to a node's position, its sequence tags exactly the cells of the node's own
\* root path, plus its own cell once it is marked decoded -- across forks, trims,
\* bets, splices and collapses.
THEOREM CacheFollowsTree == Spec => []BranchesInCache
<1>1. CInv => BranchesInCache
  <2> SUFFICES ASSUME CInv, ~(gen.first /\ level = 0 /\ pc = "grow") /\ pc # "fatal",
                      NEW i \in Branches
               PROVE  Holds(tree, kv, i)
    BY DEF BranchesInCache, Holds
  <2>1. Backed(tree, kv, pool, CommittedLen, RoundEnd, Extent)
    BY DEF CInv, Cached, Opening
  <2>2. i \in CommittedLen - 1 .. Extent - 1
    <3>1. Grown(tree, CommittedLen, RoundEnd, Extent) /\ bet.st \in {"none", "drafting", "placed"}
      BY DEF CInv, IInv, Trees, Phases
    <3>2. CommittedLen \in Nat /\ RoundEnd \in Nat /\ Extent \in Nat /\ CommittedLen <= RoundEnd /\ RoundEnd <= Extent
      BY <3>1, GrownNumbers
    <3>3. CASE bet.st = "placed"
      <4>1. bet.begin = tree.end /\ Extent = bet.stop /\ RoundEnd = tree.end
        BY <3>3 DEF CInv, IInv, Bets, Extent, RoundEnd, Drafting
      <4>2. i \in CommittedLen - 1 .. tree.end - 1 \/ i \in bet.begin .. bet.stop - 1
        BY <3>3 DEF Branches
      <4> QED
        BY <3>2, <4>1, <4>2
    <3>4. CASE bet.st # "placed"
      BY <3>4 DEF Branches, Extent
    <3> QED
      BY <3>3, <3>4
  <2> QED
    BY <2>1, <2>2 DEF Backed
<1> QED
  BY <1>1, AlwaysCached, PTL

-----------------------------------------------------------------------------
(* The sequences a round can fork *)

\* One child of each beam inherits its sequence, so at most w - 1 fork.
LEMMA ForksSize ==
  ASSUME NEW C, C \subseteq Slots, NEW w \in Nat \ {0}, NEW keep, keep \subseteq Flats(C, w)
  PROVE  /\ IsFiniteSet(Forks(C, w, keep)) /\ Cardinality(Forks(C, w, keep)) \in Nat
         /\ Cardinality(Forks(C, w, keep)) <= Cardinality(C) * (w - 1)
<1> DEFINE n == Cardinality(C)
           A == Flats(C, w)
           Z == {f \in A : f % w = 0}
           F == Forks(C, w, keep)
<1>1. IsFiniteSet(C) /\ C \subseteq Int /\ n \in Nat
  BY SlotSets
<1>2. \A f \in A : f \div w \in 0 .. n - 1 /\ f % w \in 0 .. w - 1 /\ f \in Nat
  BY FlatRow
<1>3. F \subseteq A \ Z
  <2> SUFFICES ASSUME NEW f \in F, f % w = 0 PROVE FALSE
    BY DEF Forks
  <2>1. PICK g \in keep : g < f /\ BeamOf(C, w, g) = BeamOf(C, w, f)
    BY DEF Forks
  <2>2. f \in A /\ g \in A
    BY <2>1 DEF Forks
  <2>3. Nth(C, g \div w) = Nth(C, f \div w)
    BY <2>1 DEF BeamOf
  <2>4. g \div w = f \div w
    <3>1. \A k \in 0 .. n - 1 : Rank(C, Nth(C, k)) = k
      BY <1>1, NthWorks
    <3>2. f \div w \in 0 .. n - 1 /\ g \div w \in 0 .. n - 1
      BY <1>2, <2>2
    <3> QED
      BY <2>3, <3>1, <3>2
  <2>5. f \in Nat /\ g \in Nat
    BY <1>2, <2>2
  <2>6. f = w * (f \div w) + (f % w)
    BY <2>5
  <2>7. g = w * (g \div w) + (g % w) /\ g % w \in Nat
    BY <2>5
  <2> DEFINE x == w * (f \div w)
             y == g % w
  <2>8. x \in Int
    BY <2>5
  <2>9. f = x /\ g = x + y /\ y \in Nat
    <3>1. f = x + (f % w) /\ g = x + y /\ y \in Nat
      BY <2>4, <2>6, <2>7
    <3> HIDE DEF x, y
    <3> QED
      BY <2>8, <3>1
  <2> HIDE DEF x, y
  <2> QED
    BY <2>1, <2>8, <2>9
<1>4. IsFiniteSet(A) /\ Cardinality(A) = n * w
  <2>1. n * w \in Nat
    BY <1>1
  <2>2. A = 0 .. (n * w) - 1
    BY DEF Flats
  <2> DEFINE m == n * w
  <2> HIDE DEF m
  <2>3. IsFiniteSet(0 .. m - 1) /\ Cardinality(0 .. m - 1) = m
    BY <2>1, FirstNumbers DEF m
  <2> QED
    BY <2>2, <2>3 DEF m
<1>5. IsFiniteSet(Z) /\ n <= Cardinality(Z) /\ Cardinality(Z) \in Nat
  <2> DEFINE h == [k \in 0 .. n - 1 |-> k * w]
  <2>1. IsFiniteSet(Z)
    BY <1>4, FS_Subset
  <2>2. ASSUME NEW k \in 0 .. n - 1 PROVE k * w \in Z
    <3>1. k \in Nat /\ n \in Nat /\ k + 1 <= n /\ w \in Nat /\ w # 0
      BY <1>1
    <3>2. (k + 1) * w <= n * w
      <4>1. k + 1 \in Nat
        BY <3>1
      <4> HIDE DEF n
      <4> QED
        BY <3>1, <4>1, MoreTimes
    <3>3. (k + 1) * w = k * w + w
      BY <3>1
    <3>4. k * w \in Nat /\ n * w \in Nat
      BY <3>1
    <3>5. k * w \in A
      <4> DEFINE x == k * w
                 y == n * w
      <4>1. x + w <= y /\ x \in Nat /\ y \in Nat
        BY <3>2, <3>3, <3>4
      <4>2. A = 0 .. y - 1
        BY DEF Flats
      <4> HIDE DEF x, y, A
      <4> QED
        BY <3>1, <4>1, <4>2 DEF x
    <3>6. (k * w) % w = 0
      BY <3>1
    <3> QED
      BY <3>5, <3>6
  <2>3. \A k, l \in 0 .. n - 1 : k * w = l * w => k = l
    <3> TAKE k, l \in 0 .. n - 1
    <3> HAVE k * w = l * w
    <3>1. (k - l) * w = 0
      BY <1>1
    <3> QED
      BY <1>1, <3>1
  <2> HIDE DEF Z, n
  <2>4. h \in Injection(0 .. n - 1, Z)
    BY <2>2, <2>3 DEF Injection, IsInjective
  <2>5. Cardinality(0 .. n - 1) <= Cardinality(Z)
    BY <2>1, <2>4, FS_Injection
  <2> QED
    BY <1>1, <2>1, <2>5, FirstNumbers, FS_CardinalityType
<1>6. IsFiniteSet(A \ Z) /\ Cardinality(A \ Z) = n * w - Cardinality(Z)
  <2>1. A \cap Z = Z
    OBVIOUS
  <2> HIDE DEF A, Z
  <2>2. IsFiniteSet(A \ Z) /\ Cardinality(A \ Z) = Cardinality(A) - Cardinality(A \cap Z)
    BY <1>4, FS_Difference
  <2> QED
    BY <1>4, <2>1, <2>2
<1>7. IsFiniteSet(F) /\ Cardinality(F) <= Cardinality(A \ Z)
  <2> HIDE DEF F, A, Z
  <2> QED
    BY <1>3, <1>6, FS_Subset
<1>8. Cardinality(F) \in Nat
  BY <1>7, FS_CardinalityType
<1>9. n * (w - 1) = n * w - n
  BY <1>1
<1> DEFINE p == n * w
<1>10. p \in Nat
  BY <1>1
<1>11. Cardinality(F) <= p - n
  <2> HIDE DEF p, n, F, Z, A
  <2>1. Cardinality(A \ Z) = p - Cardinality(Z)
    BY <1>6 DEF p
  <2> QED
    BY <1>1, <1>5, <1>7, <1>8, <1>10, <2>1
<1> QED
  BY <1>7, <1>8, <1>9, <1>11

\* A free id is one that is neither in use nor 0.
LEMMA FreeCount ==
  ASSUME NEW po \in Pool
  PROVE  /\ IsFiniteSet(po.used \cup {0}) /\ Cardinality(po.used \cup {0}) \in Nat
         /\ Cardinality(FreeSeqs(po)) = MaxSeqs - Cardinality(po.used \cup {0})
<1> DEFINE U == po.used \cup {0}
<1>1. U \subseteq Seqs /\ Seqs = 0 .. MaxSeqs - 1 /\ MaxSeqs \in Nat
  BY SeqsAssumption DEF Pool, Seqs
<1>2. IsFiniteSet(Seqs) /\ Cardinality(Seqs) = MaxSeqs
  BY <1>1, FirstNumbers
<1>3. FreeSeqs(po) = Seqs \ U /\ Seqs \cap U = U
  BY <1>1 DEF FreeSeqs
<1> HIDE DEF U
<1>4. IsFiniteSet(U)
  BY <1>1, <1>2, FS_Subset
<1>5. Cardinality(Seqs \ U) = Cardinality(Seqs) - Cardinality(Seqs \cap U)
  BY <1>2, FS_Difference
<1> QED
  BY <1>2, <1>3, <1>4, <1>5, FS_CardinalityType DEF U

\* A set of sequences that grows by what n calls of AllocSeq hand out.
Gains(S, po, n, T) == T \subseteq S \cup {AllocNth(po, k) : k \in 0 .. n - 1}

\* It gains at most n.
LEMMA GainsFew ==
  ASSUME NEW S, IsFiniteSet(S), NEW po, NEW n \in Nat, NEW T, Gains(S, po, n, T)
  PROVE  /\ IsFiniteSet(T) /\ Cardinality(T) \in Nat /\ Cardinality(S) \in Nat
         /\ Cardinality(T) <= Cardinality(S) + n
<1> DEFINE N == {AllocNth(po, k) : k \in 0 .. n - 1}
           f == [k \in 0 .. n - 1 |-> AllocNth(po, k)]
<1>1. IsFiniteSet(0 .. n - 1) /\ Cardinality(0 .. n - 1) = n
  BY FirstNumbers
<1>2. f \in Surjection(0 .. n - 1, N)
  BY DEF Surjection
<1> HIDE DEF N, f
<1>3. IsFiniteSet(N) /\ Cardinality(N) <= n
  BY <1>1, <1>2, FS_Surjection
<1>4. IsFiniteSet(S \cap N)
  BY <1>3, FS_Intersection
<1>5. IsFiniteSet(S \cup N) /\ Cardinality(S \cup N) = Cardinality(S) + Cardinality(N) - Cardinality(S \cap N)
  BY <1>3, FS_Union
<1>6. T \subseteq S \cup N
  BY DEF Gains, N
<1>7. IsFiniteSet(T) /\ Cardinality(T) <= Cardinality(S \cup N)
  BY <1>5, <1>6, FS_Subset
<1>8. /\ Cardinality(T) \in Nat /\ Cardinality(S) \in Nat /\ Cardinality(N) \in Nat
      /\ Cardinality(S \cap N) \in Nat /\ Cardinality(S \cup N) \in Nat
  BY <1>3, <1>4, <1>5, <1>7, FS_CardinalityType
<1> QED
  BY <1>3, <1>5, <1>7, <1>8

\* A stable sort cut at n leaves no more than n beams, and they fork at most w - 1
\* times each.
LEMMA BeamsFork ==
  ASSUME NEW t, TreeTyped(t), NEW S, S \subseteq Slots, NEW n \in Nat, NEW w \in Nat \ {0},
         NEW C, C = TopBeams(t, S, n), NEW keep, keep \subseteq Flats(C, w)
  PROVE  /\ Cardinality(Forks(C, w, keep)) \in Nat /\ n * (w - 1) \in Nat
         /\ Cardinality(Forks(C, w, keep)) <= n * (w - 1)
<1>1. C \subseteq S /\ (n <= Cardinality(S) => Cardinality(C) = n)
  BY TopBeamsSize
<1>2. IsFiniteSet(S) /\ Cardinality(S) \in Nat /\ C \subseteq Slots
  BY <1>1, SlotSets
<1>3. Cardinality(C) \in Nat /\ Cardinality(C) <= Cardinality(S)
  BY <1>1, <1>2, FS_Subset, SlotSets
<1>4. Cardinality(C) <= n
  BY <1>1, <1>2, <1>3
<1>5. Cardinality(Forks(C, w, keep)) \in Nat /\ Cardinality(Forks(C, w, keep)) <= Cardinality(C) * (w - 1)
  BY <1>2, ForksSize
<1>6. w - 1 \in Nat
  OBVIOUS
<1> DEFINE x == Cardinality(C)
           y == w - 1
           f == Cardinality(Forks(C, w, keep))
<1> HIDE DEF x, y, f
<1>7. x * y \in Nat /\ n * y \in Nat /\ x * y <= n * y
  BY <1>3, <1>4, <1>6, MoreTimes DEF x, y
<1>8. f \in Nat /\ f <= x * y
  BY <1>5 DEF x, y, f
<1>9. f <= n * y
  <2> DEFINE a == x * y
             b == n * y
  <2>1. a \in Nat /\ b \in Nat /\ a <= b /\ f \in Nat /\ f <= a
    BY <1>7, <1>8
  <2> HIDE DEF a, b
  <2>2. f <= b
    BY <2>1
  <2> QED
    BY <2>2 DEF b
<1> QED
  BY <1>7, <1>8, <1>9 DEF f, y

\* The pool has what derive_max_seqs counts: an id for the committed tokens, the ids
\* of a bet, and those that the levels of a round fork.
Roomy == 1 + BetSeqs(ProLen) + BeamLen * (Beams * (Width - 1)) <= MaxSeqs

\* What derive_max_seqs asks for is enough, where its clamp does not cut.
LEMMA DerivedIsRoomy ==
  ASSUME MaxSeqs >= DeriveMaxSeqs, DeriveMaxSeqs < 256
  PROVE  Roomy
<1> DEFINE x == Beams * (Width - 1)
           y == ProBeams * (ProWidth - 1)
<1>1. /\ Beams \in Nat /\ BeamLen \in Nat /\ ProBeams \in Nat /\ ProLen \in Nat
      /\ Width - 1 \in Nat /\ ProWidth - 1 \in Nat
  BY SpecExecAssumption, BeamAssumption
<1>2. BeamLen * Beams * (Width - 1) = BeamLen * x /\ ProLen * ProBeams * (ProWidth - 1) = ProLen * y
  BY <1>1
<1>3. x \in Nat /\ y \in Nat
  BY <1>1
<1>4. BeamLen * x \in Nat /\ ProLen * y \in Nat
  BY <1>1, <1>3
<1> DEFINE forks == 1 + BeamLen * x
           more == IF ProType = "disabled" THEN 0 ELSE 1 + ProLen * y
<1>5. DeriveMaxSeqs = IF forks + more < 2 THEN 2
                      ELSE IF forks + more > 256 THEN 256 ELSE forks + more
  <2> HIDE DEF x, y
  <2> QED
    BY <1>2 DEF DeriveMaxSeqs, x, y
<1>6. BetSeqs(ProLen) = more
  BY DEF BetSeqs
<1>7. forks \in Nat /\ more \in Nat
  BY <1>4
<1> HIDE DEF more
<1>8. forks + more <= MaxSeqs
  <2> HIDE DEF forks
  <2>1. MaxSeqs \in Nat
    BY SeqsAssumption
  <2> QED
    BY <1>5, <1>7, <2>1
<1>9. 1 + more + BeamLen * x <= MaxSeqs
  <2> DEFINE z == BeamLen * x
  <2>1. z \in Nat /\ (1 + z) + more <= MaxSeqs /\ MaxSeqs \in Nat
    BY <1>4, <1>8, SeqsAssumption
  <2> HIDE DEF z
  <2>2. 1 + more + z <= MaxSeqs
    BY <1>7, <2>1
  <2> QED
    BY <2>2 DEF z
<1> QED
  BY <1>6, <1>9 DEF Roomy

\* The bounds are numbers, and deeper bets may use more sequences.
LEMMA BudgetNumbers ==
  /\ \A n \in Nat : BetSeqs(n) \in Nat
  /\ \A m, n \in Nat : m <= n => BetSeqs(m) <= BetSeqs(n)
  /\ Beams * (Width - 1) \in Nat /\ ProBeams * (ProWidth - 1) \in Nat
  /\ ProType # "disabled" => /\ BetSeqs(0) = 1
                             /\ \A n \in Nat : BetSeqs(n + 1) = BetSeqs(n) + ProBeams * (ProWidth - 1)
<1> DEFINE y == ProBeams * (ProWidth - 1)
<1>1. /\ Beams \in Nat /\ ProBeams \in Nat /\ Width - 1 \in Nat /\ ProWidth - 1 \in Nat
  BY SpecExecAssumption, BeamAssumption
<1>2. y \in Nat /\ Beams * (Width - 1) \in Nat
  BY <1>1
<1>3. \A n \in Nat : BetSeqs(n) = IF ProType = "disabled" THEN 0 ELSE 1 + n * y
  BY DEF BetSeqs
<1> HIDE DEF y
<1>4. ASSUME NEW m \in Nat, NEW n \in Nat, m <= n PROVE m * y \in Nat /\ n * y \in Nat /\ m * y <= n * y
  BY <1>2, <1>4, MoreTimes
<1>5. ASSUME NEW n \in Nat PROVE BetSeqs(n) \in Nat
  BY <1>3, <1>4
<1>6. ASSUME NEW m \in Nat, NEW n \in Nat, m <= n PROVE BetSeqs(m) <= BetSeqs(n)
  BY <1>3, <1>4, <1>6
<1>7. ASSUME ProType # "disabled"
      PROVE  /\ BetSeqs(0) = 1
             /\ \A n \in Nat : BetSeqs(n + 1) = BetSeqs(n) + y
  <2>1. 0 * y = 0
    BY <1>2
  <2>2. ASSUME NEW n \in Nat PROVE BetSeqs(n + 1) = BetSeqs(n) + y
    <3>1. (n + 1) * y = n * y + y /\ n * y \in Nat
      BY <1>2
    <3>2. BetSeqs(n + 1) = 1 + (n + 1) * y /\ BetSeqs(n) = 1 + n * y
      BY <1>3, <1>7
    <3> QED
      BY <1>2, <3>1, <3>2
  <2> QED
    BY <1>3, <1>7, <2>1, <2>2
<1> QED
  BY <1>2, <1>5, <1>6, <1>7 DEF y

\* What AllocSeq handed out is in use.
LEMMA UsedGrows ==
  ASSUME NEW po \in Pool, NEW n \in Nat
  PROVE  /\ Cardinality(AfterAlloc(po, n).used \cup {0}) \in Nat
         /\ Cardinality(AfterAlloc(po, n).used \cup {0}) <= Cardinality(po.used \cup {0}) + n
<1> DEFINE U == po.used \cup {0}
           T == AfterAlloc(po, n).used \cup {0}
<1>1. IsFiniteSet(U)
  BY FreeCount
<1>2. Gains(U, po, n, T)
  BY DEF AfterAlloc, Gains
<1> HIDE DEF U, T
<1>3. Cardinality(T) \in Nat /\ Cardinality(T) <= Cardinality(U) + n
  BY <1>1, <1>2, GainsFew
<1> QED
  BY <1>3 DEF U, T

\* The next level of a round always finds the sequences it forks.
LEMMA LevelFindsSeqs ==
  ASSUME Roomy, SeqBudget, pc = "grow", level \in Nat, level < BeamLen, pool \in Pool
  PROVE  Beams * (Width - 1) <= Cardinality(FreeSeqs(pool))
<1> DEFINE x == Beams * (Width - 1)
           b == BetSeqs(ProLen)
           u == Cardinality(pool.used \cup {0})
           f == Cardinality(FreeSeqs(pool))
<1>1. x \in Nat /\ b \in Nat /\ BeamLen \in Nat
  BY BudgetNumbers, SpecExecAssumption
<1>2. u \in Nat /\ f = MaxSeqs - u /\ MaxSeqs \in Nat
  BY FreeCount, SeqsAssumption
<1>3. u <= 1 + b + level * x
  BY DEF SeqBudget
<1>4. 1 + b + BeamLen * x <= MaxSeqs
  BY DEF Roomy
<1> HIDE DEF x, b, u, f
<1>5. (level + 1) * x <= BeamLen * x /\ BeamLen * x \in Nat
  <2>1. level + 1 \in Nat /\ level + 1 <= BeamLen
    BY <1>1
  <2> QED
    BY <1>1, <2>1, MoreTimes
<1>6. (level + 1) * x = level * x + x /\ level * x \in Nat
  BY <1>1
<1> DEFINE y == level * x
           z == BeamLen * x
<1>7. y \in Nat /\ z \in Nat /\ y + x <= z /\ u <= 1 + b + y /\ 1 + b + z <= MaxSeqs
  BY <1>3, <1>4, <1>5, <1>6
<1> HIDE DEF y, z
<1>8. x <= f
  BY <1>1, <1>2, <1>7
<1> QED
  BY <1>8 DEF x, f

\* The first level keeps a child, whatever the budget.
LEMMA FirstLevelKeeps ==
  ASSUME NEW t, TreeTyped(t), Drafted(t) = {}, NEW C, C \subseteq Slots, C # {},
         NEW top \in [C -> TopKRows]
  PROVE  GrowKeep(t, C, top) # {}
<1> DEFINE F == Flats(C, Width)
           k == IF Budget < JointSize(t, C) THEN Budget ELSE JointSize(t, C)
           sc(f) == FlatScore(t, C, Width, top, f)
<1>1. Width \in Nat \ {0} /\ Width \in 1 .. Width /\ Budget \in Nat \ {0}
  BY BeamAssumption, SpecExecAssumption
<1>2. IsFiniteSet(F) /\ F \subseteq Int /\ Cardinality(F) \in Nat
  BY <1>1, FlatSets
<1>3. 0 \in F
  <2> DEFINE n == Cardinality(C)
             m == n * Width
  <2>1. n \in Nat /\ n # 0
    BY SlotSets, FS_EmptySet
  <2> HIDE DEF n
  <2>2. n \in Nat /\ 1 <= n /\ Width \in Nat
    BY <1>1, <2>1
  <2>3. 1 * Width <= n * Width /\ n * Width \in Nat
    BY <2>2, MoreTimes
  <2>4. 1 * Width = Width
    BY <1>1
  <2>5. m \in Nat /\ Width <= m
    BY <2>3, <2>4
  <2>6. F = 0 .. m - 1
    BY DEF Flats, m, n
  <2> HIDE DEF m, F
  <2> QED
    BY <1>1, <2>5, <2>6
<1> HIDE DEF F
<1>4. CASE ~Squeezed(t, C)
  BY <1>3, <1>4 DEF GrowKeep, F
<1>5. CASE Squeezed(t, C)
  <2>1. Cardinality(F) # 0 /\ Cardinality({}) = 0
    BY <1>2, <1>3, FS_EmptySet
  <2>2. k \in Nat /\ 1 <= k
    <3>1. JointSize(t, C) = 0 + Cardinality(F)
      BY <2>1 DEF JointSize, F
    <3> QED
      BY <1>1, <1>2, <2>1, <3>1
  <2>3. 1 \in 0 .. Cardinality(F)
    BY <1>2, <2>1
  <2> DEFINE B == BestFlats(t, C, Width, top, F, 1)
  <2>4. B \subseteq F /\ Cardinality(B) = 1
    BY <1>1, <2>3, BestFlatsSize DEF F
  <2>5. B # {}
    <3> HIDE DEF B
    <3> QED
      BY <2>1, <2>4
  <2> DEFINE A(f) == {g \in F : \/ sc(g) > sc(f)
                                \/ sc(g) = sc(f) /\ g < f}
  <2>6. B = {f \in F : Cardinality(A(f)) < 1}
    BY DEF BestFlats
  <2>7. PICK f \in F : Cardinality(A(f)) < 1
    <3> HIDE DEF A, B
    <3> QED
      BY <2>5, <2>6
  <2>8. IsFiniteSet(A(f)) /\ Cardinality(A(f)) \in Nat
    <3>1. A(f) \subseteq F
      OBVIOUS
    <3> HIDE DEF A
    <3> QED
      BY <1>2, <3>1, FS_Subset, FS_CardinalityType
  <2>9. A(f) = {}
    <3> HIDE DEF A
    <3> QED
      BY <2>7, <2>8, FS_EmptySet
  <2>10. {g \in F : sc(g) > sc(f)} = {}
    BY <2>9
  <2>11. Better(t, C, Width, top, sc(f)) = 0
    <3>1. {i \in Drafted(t) : t.node[i].lp > sc(f)} = {}
      OBVIOUS
    <3>2. Better(t, C, Width, top, sc(f))
            = Cardinality({i \in Drafted(t) : t.node[i].lp > sc(f)})
                + Cardinality({g \in F : sc(g) > sc(f)})
      BY DEF Better, F
    <3>3. Better(t, C, Width, top, sc(f)) = 0 + 0
      BY <2>1, <2>10, <3>1, <3>2
    <3> QED
      BY <3>3
  <2>12. Better(t, C, Width, top, sc(f)) < k
    <3> HIDE DEF k, sc
    <3> QED
      BY <2>2, <2>11
  <2>13. f \in InBudget(t, C, Width, top, k)
    BY <2>12 DEF InBudget, F
  <2> QED
    BY <1>5, <2>13 DEF GrowKeep
<1> QED
  BY <1>4, <1>5

-----------------------------------------------------------------------------
(* Dying of nothing but the server and a full tree *)

\* A request that dies takes its tree with it.
LEMMA DieLives ==
  ASSUME LInv, NEW why, Die(why)
  PROVE  SeqBudget' /\ SomethingDrafted' /\ cause' = why
<1>1. pc' = "fatal" /\ cause' = why /\ UNCHANGED <<tree, pool, level, prevHit, bet>>
  BY DEF Die
<1>2. RoundEnd' = RoundEnd /\ Extent' = Extent /\ (Drafting' <=> Drafting)
  BY <1>1 DEF RoundEnd, Extent, Drafting
<1>3. SeqBudget
  BY DEF LInv
<1>4. SeqBudget'
  BY <1>1, <1>2, <1>3 DEF SeqBudget
<1>5. SomethingDrafted'
  BY <1>1 DEF SomethingDrafted
<1> QED
  BY <1>1, <1>4, <1>5

\* Nor does leaving a round without a bet need sequences.
LEMMA NoBetLives ==
  ASSUME NEW t, NEW kvp, NEW poolp, NoBetPlaced(t, kvp, poolp)
  PROVE  SeqBudget' /\ SomethingDrafted'
<1>1. pc' = "join" /\ bet'.st = "none"
  BY DEF NoBetPlaced, NoBet
<1> QED
  BY <1>1 DEF SeqBudget, SomethingDrafted, Drafting

\* A level of the main draft: it has something to add, finds the sequences for it,
\* or leaves what earlier levels drafted.
LEMMA GrowLevelLives ==
  ASSUME LInv, Roomy, GrowLevel
  PROVE  /\ SeqBudget' /\ SomethingDrafted'
         /\ cause' # "seqs" \/ cause' = cause
<1>0. PICK C \in {TopBeams(tree, Candidates(tree), Beams)} :
     LET kv0  == EngineFor(C)
         rows == RowsOf(tree, C)
     IN IF ~DecodeOk(kv0, rows) THEN Die("decode")
        ELSE \E top \in [C -> TopKRows] :
          LET t1      == SetStatus(tree, C, kProcessed)
              kv1     == Decode(kv0, rows)
              drafted == Cardinality(Drafted(tree))
              keep    == GrowKeep(t1, C, top)
              forks   == Forks(C, Width, keep)
              kids    == Children(t1, pool, C, Width, top, keep, kCandidate)
          IN IF Squeezed(t1, C) /\ Cardinality(keep) + tree.end > MaxLen
             THEN Die("max_len")
             ELSE IF \/ keep = {}
                     \/ drafted >= Budget /\ ~NewTokenInBudget(t1, C, top, keep)
             THEN /\ tree' = TrimByBudget(t1)
                  /\ kv' = kv1
                  /\ pc' = "validate"
                  /\ UNCHANGED <<pool, level, prevHit, rpc, bet, gen, srv, cause>>
             ELSE IF Cardinality(forks) > Cardinality(FreeSeqs(pool))
             THEN Die("seqs")
             ELSE IF ~AddOk(t1, kids) THEN Die("max_len")
             ELSE /\ tree' = Add(t1, kids)
                  /\ kv' = ForkCache(kv1, t1, pool, C, Width, keep)
                  /\ pool' = AfterAlloc(pool, Cardinality(forks))
                  /\ level' = level + 1
                  /\ UNCHANGED <<pc, prevHit, rpc, bet, gen, srv, cause>>
  BY DEF GrowLevel
<1> DEFINE t1 == SetStatus(tree, C, kProcessed)
           keep(top) == GrowKeep(t1, C, top)
           forks(top) == Forks(C, Width, keep(top))
           kids(top) == Children(t1, pool, C, Width, top, keep(top), kCandidate)
           c == tree.prefix
           e == tree.end
           x == Beams * (Width - 1)
<1>1. /\ pc = "grow" /\ level < BeamLimit /\ Candidates(tree) # {}
      /\ C = TopBeams(tree, Candidates(tree), Beams)
  BY DEF GrowLevel
<1>2. \/ \E why \in {"decode", "max_len"} : Die(why)
      \/ \E top \in [C -> TopKRows] : Cardinality(forks(top)) > Cardinality(FreeSeqs(pool))
      \/ \E top \in [C -> TopKRows] :
           /\ keep(top) = {} \/ Cardinality(Drafted(tree)) >= Budget
           /\ tree' = TrimByBudget(t1) /\ pc' = "validate" /\ UNCHANGED <<level, bet, cause>>
      \/ \E top \in [C -> TopKRows] :
           /\ keep(top) # {} /\ AddOk(t1, kids(top)) /\ tree' = Add(t1, kids(top))
           /\ pool' = AfterAlloc(pool, Cardinality(forks(top)))
           /\ level' = level + 1 /\ UNCHANGED <<pc, prevHit, bet, cause>>
  BY <1>0
<1> HIDE DEF t1, keep, forks, kids, x
<1>3. /\ Grown(tree, c, e, e) /\ bet.st = "none" /\ pool \in Pool /\ TreeTyped(tree)
      /\ level \in Nat /\ SeqBudget /\ SomethingDrafted
  <2>1. IInv /\ SeqBudget /\ SomethingDrafted
    BY DEF LInv, CInv
  <2>2. /\ Grown(tree, c, e, e) /\ bet.st = "none" /\ pool \in Pool /\ level \in 0 .. BeamLen + ProLen
    BY <1>1, <2>1, Growing
  <2> QED
    BY <2>1, <2>2 DEF Grown
<1>4. /\ MaxLen \in Nat /\ c \in Nat /\ e \in Nat /\ 1 <= c /\ c <= e /\ e <= MaxLen
      /\ 0 .. e - 1 \subseteq Slots
  BY <1>3, GrownNumbers
<1>5. Candidates(tree) \subseteq Slots
  BY <1>4 DEF Candidates, WithStatus, Live
<1>6. C \subseteq Slots /\ C # {} /\ C \subseteq c - 1 .. e - 1
  <2>1. C # {}
    BY <1>1, <1>3, <1>5, TopBeamsSome, SpecExecAssumption
  <2>2. C \subseteq Candidates(tree)
    BY <1>1 DEF TopBeams
  <2>3. \A i \in 0 .. c - 2 : tree.node[i].st # kCandidate
    BY <1>3 DEF Grown, kPrompt, kCandidate
  <2>4. \A i \in Candidates(tree) : i \in c - 1 .. e - 1
    BY <1>4, <2>3 DEF Candidates, WithStatus, Live
  <2> QED
    BY <1>5, <2>1, <2>2, <2>4
<1>7. Grown(t1, c, e, e) /\ t1.prefix = c /\ t1.end = e /\ TreeTyped(t1)
  <2>1. \A i \in C : tree.node[i].st \in {kCandidate, kPostCandidate}
    BY <1>1 DEF TopBeams, Candidates, WithStatus
  <2>2. Grown(t1, c, e, e) /\ Marked(tree, C, kProcessed, t1)
    BY <1>3, <1>6, <2>1, GrownMark DEF t1
  <2> QED
    BY <2>2 DEF Marked, Grown
<1>8. ASSUME NEW top \in [C -> TopKRows]
      PROVE  /\ Cardinality(forks(top)) \in Nat /\ x \in Nat /\ Cardinality(forks(top)) <= x
             /\ Cardinality(forks(top)) <= Cardinality(FreeSeqs(pool))
  <2>1. keep(top) \subseteq Flats(C, Width)
    BY GrowKeepFlats DEF keep
  <2>2. Beams \in Nat /\ Width \in Nat \ {0}
    BY SpecExecAssumption, BeamAssumption
  <2>3. Cardinality(forks(top)) \in Nat /\ x \in Nat /\ Cardinality(forks(top)) <= x
    BY <1>1, <1>3, <1>5, <2>1, <2>2, BeamsFork DEF forks, x
  <2>4. level < BeamLen
    <3>1. BeamLimit <= BeamLen
      BY SpecExecAssumption DEF BeamLimit
    <3>2. BeamLimit \in Int /\ BeamLen \in Int
      BY SpecExecAssumption DEF BeamLimit
    <3> QED
      BY <1>1, <1>3, <3>1, <3>2
  <2>5. x <= Cardinality(FreeSeqs(pool))
    BY <1>1, <1>3, <2>4, LevelFindsSeqs DEF x
  <2> QED
    BY <2>3, <2>5, FreeSize
<1>9. ASSUME NEW why \in {"decode", "max_len"}, Die(why)
      PROVE  SeqBudget' /\ SomethingDrafted' /\ cause' # "seqs"
  <2>1. SeqBudget' /\ SomethingDrafted' /\ cause' = why
    BY <1>9, DieLives
  <2> QED
    BY <2>1
<1>10. ASSUME NEW top \in [C -> TopKRows], keep(top) = {} \/ Cardinality(Drafted(tree)) >= Budget,
              tree' = TrimByBudget(t1), pc' = "validate", UNCHANGED <<level, bet, cause>>
       PROVE  SeqBudget' /\ SomethingDrafted' /\ cause' = cause
  <2>1. Drafted(t1) # {}
    <3> SUFFICES ASSUME Drafted(t1) = {} PROVE FALSE
      OBVIOUS
    <3>1. Drafted(tree) = {}
      BY <1>7 DEF Drafted
    <3>2. keep(top) # {}
      BY <1>6, <1>7, FirstLevelKeeps DEF keep
    <3>3. Cardinality(Drafted(tree)) = 0 /\ Budget \in Nat \ {0}
      BY <3>1, FS_EmptySet, SpecExecAssumption
    <3> QED
      BY <1>10, <3>2, <3>3
  <2>2. t1.prefix < t1.end
    BY <1>4, <1>7, <2>1 DEF Drafted
  <2>3. Grown(t1, t1.prefix, t1.end, t1.end)
    BY <1>7
  <2>4. tree'.prefix = t1.prefix /\ tree'.end \in t1.prefix .. t1.end /\ t1.prefix < tree'.end
    BY <1>10, <2>2, <2>3, GrownTrim
  <2>5. tree'.prefix \in Drafted(tree')
    BY <1>4, <1>7, <2>4 DEF Drafted
  <2>6. SomethingDrafted'
    BY <1>10, <2>5 DEF SomethingDrafted
  <2>7. SeqBudget'
    BY <1>3, <1>10 DEF SeqBudget, Drafting
  <2> QED
    BY <1>10, <2>6, <2>7
<1>11. ASSUME NEW top \in [C -> TopKRows],
              keep(top) # {}, AddOk(t1, kids(top)), tree' = Add(t1, kids(top)),
              pool' = AfterAlloc(pool, Cardinality(forks(top))),
              level' = level + 1, UNCHANGED <<pc, prevHit, bet, cause>>
       PROVE  SeqBudget' /\ SomethingDrafted' /\ cause' = cause
  <2>1. IsFiniteSet(keep(top)) /\ Cardinality(keep(top)) \in Nat
    <3>1. keep(top) \subseteq Flats(C, Width) /\ Width \in Nat \ {0}
      BY GrowKeepFlats, BeamAssumption DEF keep
    <3> QED
      BY <1>6, <3>1, FlatSets
  <2>2. Cardinality(keep(top)) # 0
    BY <1>11, <2>1, FS_EmptySet
  <2>3. Len(kids(top)) = Cardinality(keep(top))
    BY <2>1 DEF kids, Children
  <2>4. tree'.prefix = c /\ tree'.end = e + Cardinality(keep(top))
    <3>1. t1 = [node |-> t1.node, mask |-> t1.mask, prefix |-> t1.prefix, end |-> t1.end]
      BY <1>7 DEF TreeTyped, Typed
    <3> QED
      BY <1>7, <1>11, <2>3, <3>1 DEF Add
  <2>5. tree'.prefix \in Drafted(tree')
    BY <1>4, <2>1, <2>2, <2>4 DEF Drafted
  <2>6. SomethingDrafted'
    <3>1. pc' = "grow"
      BY <1>1, <1>11
    <3> QED
      BY <2>5, <3>1 DEF SomethingDrafted
  <2>7. SeqBudget'
    <3> DEFINE u == Cardinality(pool.used \cup {0})
               v == Cardinality(pool'.used \cup {0})
               b == BetSeqs(ProLen)
               f == Cardinality(forks(top))
    <3>1. v \in Nat /\ v <= u + f /\ u \in Nat /\ f \in Nat /\ f <= x /\ x \in Nat
      BY <1>3, <1>8, <1>11, UsedGrows, FreeCount
    <3>2. u <= 1 + b + level * x
      BY <1>1, <1>3 DEF SeqBudget, x
    <3>3. b \in Nat
      BY BudgetNumbers, SpecExecAssumption
    <3>4. level' * x = level * x + x /\ level * x \in Nat
      BY <1>3, <1>11, <3>1
    <3> HIDE DEF u, v, b, f
    <3>5. v <= 1 + b + level' * x
      <4> DEFINE y == level * x
                 z == level' * x
      <4>1. z = y + x /\ y \in Nat /\ u <= 1 + b + y
        BY <3>2, <3>4
      <4> HIDE DEF y, z
      <4>2. v <= 1 + b + z
        BY <3>1, <3>3, <4>1
      <4> QED
        BY <4>2 DEF z
    <3>6. Cardinality(pool'.used \cup {0}) <= 1 + BetSeqs(ProLen) + level' * (Beams * (Width - 1))
      BY <3>5 DEF v, b, x
    <3>7. bet'.st = "none" /\ pc' = "grow"
      BY <1>1, <1>3, <1>11
    <3> QED
      BY <3>6, <3>7 DEF SeqBudget, Drafting, BetSeqs
  <2> QED
    BY <1>11, <2>6, <2>7
<1>12. ASSUME NEW top \in [C -> TopKRows] PROVE ~(Cardinality(forks(top)) > Cardinality(FreeSeqs(pool)))
  BY <1>8, FreeSize
<1> QED
  BY <1>2, <1>9, <1>10, <1>11, <1>12

\* Leaving the loop: never before a level has drafted something.
LEMMA GrowDoneLives ==
  ASSUME LInv, GrowDone
  PROVE  SeqBudget' /\ SomethingDrafted'
<1>1. /\ pc = "grow" /\ tree' = TrimByBudget(tree) /\ pc' = "validate"
      /\ UNCHANGED <<level, bet>>
      /\ level >= BeamLimit \/ Candidates(tree) = {}
  BY DEF GrowDone
<1>2. IInv /\ SeqBudget /\ SomethingDrafted
  BY DEF LInv, CInv
<1>3. Grown(tree, tree.prefix, tree.end, tree.end) /\ bet.st = "none"
  BY <1>1, <1>2, Growing
<1>4. /\ tree.prefix \in Nat /\ tree.end \in Nat /\ 1 <= tree.prefix /\ tree.prefix <= tree.end
  BY <1>3, GrownNumbers
<1>5. Drafted(tree) # {}
  <2> SUFFICES ASSUME Drafted(tree) = {} PROVE FALSE
    OBVIOUS
  <2>1. tree.node[tree.prefix - 1].st = kCandidate /\ ~prevHit /\ level = 0
    BY <1>1, <1>2 DEF SomethingDrafted
  <2>2. tree.prefix - 1 \in 0 .. tree.end - 1
    BY <1>4
  <2>3. Candidates(tree) # {}
    BY <2>1, <2>2 DEF Candidates, WithStatus, Live
  <2>4. BeamLimit = BeamLen /\ BeamLen \in Nat \ {0}
    BY <2>1, SpecExecAssumption DEF BeamLimit
  <2> QED
    BY <1>1, <2>1, <2>3, <2>4
<1>6. tree.prefix < tree.end
  BY <1>4, <1>5 DEF Drafted
<1>7. tree'.prefix = tree.prefix /\ tree'.end \in tree.prefix .. tree.end /\ tree.prefix < tree'.end
  BY <1>1, <1>3, <1>6, GrownTrim
<1>8. tree'.prefix \in Drafted(tree')
  BY <1>4, <1>7 DEF Drafted
<1>9. SomethingDrafted'
  BY <1>1, <1>8 DEF SomethingDrafted
<1>10. SeqBudget'
  BY <1>1, <1>3 DEF SeqBudget, Drafting
<1> QED
  BY <1>9, <1>10

\* The steps that leave tree, pool and bet alone: there is always something to send,
\* so only a failed call ends the request.
LEMMA PlainStepLives ==
  ASSUME LInv, StartValidate \/ ServerAnswer \/ OracleAnswer \/ ServerFail \/ JoinFailed \/ UNCHANGED vars
  PROVE  SeqBudget' /\ SomethingDrafted' /\ (cause' = cause \/ cause' = "rpc")
<1>1. IInv /\ SeqBudget /\ SomethingDrafted
  BY DEF LInv, CInv
<1>2. ASSUME UNCHANGED <<tree, pool, level, bet>> PROVE RoundEnd' = RoundEnd /\ Extent' = Extent /\ (Drafting' <=> Drafting)
  BY <1>2 DEF RoundEnd, Extent, Drafting
<1>3. CASE StartValidate
  <2>1. pc = "validate"
    BY <1>3 DEF StartValidate
  <2>2. Grown(tree, tree.prefix, tree.end, tree.end) /\ bet.st = "none"
    BY <1>1, <2>1, Growing
  <2>3. Targets(tree) # {}
    <3>1. Targets(tree) = tree.prefix .. tree.end - 1
      BY <2>2, InputsAreTree
    <3> QED
      BY <1>1, <2>1, <3>1 DEF SomethingDrafted, Drafted
  <2>4. /\ pc' = IF ProType = "disabled" THEN "join" ELSE "bet"
        /\ UNCHANGED <<bet, cause>>
    BY <1>3, <2>3 DEF StartValidate
  <2>5. SeqBudget'
    <3>1. pc' # "grow" /\ (pc' = "bet" => ProType # "disabled") /\ bet'.st = "none"
      BY <2>2, <2>4
    <3> QED
      BY <3>1 DEF SeqBudget, Drafting, BetSeqs
  <2>6. SomethingDrafted'
    BY <2>4 DEF SomethingDrafted
  <2> QED
    BY <2>4, <2>5, <2>6
<1>4. CASE ServerAnswer \/ OracleAnswer \/ ServerFail \/ UNCHANGED vars
  <2>1. UNCHANGED <<tree, pool, pc, level, prevHit, bet, cause>>
    BY <1>4 DEF ServerAnswer, OracleAnswer, ServerFail, vars
  <2>2. SeqBudget'
    BY <1>1, <1>2, <2>1 DEF SeqBudget
  <2>3. SomethingDrafted'
    BY <1>1, <2>1 DEF SomethingDrafted
  <2> QED
    BY <2>1, <2>2, <2>3
<1>5. CASE JoinFailed
  <2>1. Die("rpc")
    BY <1>5 DEF JoinFailed
  <2> QED
    BY <2>1, DieLives
<1> QED
  BY <1>3, <1>4, <1>5

\* The root of a bet takes one sequence.
LEMMA ChooseBetLives ==
  ASSUME LInv, ChooseBet
  PROVE  SeqBudget' /\ SomethingDrafted'
<1>0. PICK leaves \in {FrontierLeaves(tree)} :
     LET again  == Rescored(tree, leaves)
         free   == Cardinality(FreeSeqs(pool))
         served == {l \in again : Rank(again, l) < free}
         kv1    == ScratchCache(tree, leaves, served)
         pool1  == AfterAlloc(pool, Cardinality(served))
         rows   == LeafRows(tree, leaves)
     IN IF MaxLen - tree.end < 2 \/ leaves = {}
        THEN NoBetPlaced(tree, kv, pool)
        ELSE IF Cardinality(again) > free \/ ~DecodeOk(kv1, rows)
        THEN NoBetPlaced(tree, kv1, pool1)
        ELSE \E top \in [leaves -> TopKRows] :
          LET kv2  == Decode(kv1, rows)
              t1   == SetStatus(tree, leaves, kProcessed)
              leaf == BestLeaf(tree, leaves, top)
              root == AllocNth(pool1, 0)
              kid  == [tok |-> top[leaf][1].tok,
                       pos |-> tree.node[leaf].pos + 1,
                       par |-> leaf,
                       st  |-> kPostCandidate,
                       lp  |-> 0,
                       seq |-> root]
          IN IF FreeSeqs(pool1) = {} THEN NoBetPlaced(t1, kv2, pool1)
             ELSE /\ tree' = Add(SetPrefixLen(t1, tree.end), <<kid>>)
                  /\ kv' = SeqCp(kv2, tree.node[leaf].seq, root)
                  /\ pool' = AfterAlloc(pool1, 1)
                  /\ bet' = [NoBet EXCEPT !.st = "drafting",
                               !.leaf = leaf, !.tok = kid.tok,
                               !.prefix = tree.prefix, !.end = tree.end]
                  /\ level' = 0
                  /\ UNCHANGED <<pc, prevHit, rpc, gen, srv, cause>>
  BY DEF ChooseBet
<1>1. pc = "bet" /\ ProType # "disabled"
  BY DEF ChooseBet, LInv, SeqBudget
<1>2. \/ \E t, kvp, poolp : NoBetPlaced(t, kvp, poolp)
      \/ \E kid, b : /\ tree' = Add(SetPrefixLen(SetStatus(tree, leaves, kProcessed), tree.end), <<kid>>)
                     /\ bet' = [NoBet EXCEPT !.st = "drafting", !.leaf = b, !.tok = kid.tok,
                                  !.prefix = tree.prefix, !.end = tree.end]
                     /\ level' = 0 /\ pc' = pc
  BY <1>0
<1>3. ASSUME NEW kid, NEW b,
             tree' = Add(SetPrefixLen(SetStatus(tree, leaves, kProcessed), tree.end), <<kid>>),
             bet' = [NoBet EXCEPT !.st = "drafting", !.leaf = b, !.tok = kid.tok,
                       !.prefix = tree.prefix, !.end = tree.end],
             level' = 0, pc' = pc
      PROVE  SeqBudget' /\ SomethingDrafted'
  <2>1. bet'.st = "drafting" /\ bet'.end = tree.end
    BY <1>3 DEF NoBet
  <2>2. /\ tree = [node |-> tree.node, mask |-> tree.mask, prefix |-> tree.prefix, end |-> tree.end]
        /\ tree.end \in Nat
    <3>1. Grown(tree, CommittedLen, RoundEnd, Extent)
      BY DEF LInv, CInv, IInv, Trees
    <3>2. TreeTyped(tree)
      BY <3>1 DEF Grown
    <3> QED
      BY <3>2, MaxLenAssumption DEF TreeTyped, Typed
  <2>3. tree'.end = tree.end + 1
    <3>1. Len(<<kid>>) = 1
      OBVIOUS
    <3> QED
      BY <1>3, <2>2, <3>1 DEF Add, SetPrefixLen, SetStatus
  <2>4. RoundEnd' = tree.end /\ Extent' = tree.end + 1
    BY <2>1, <2>3 DEF RoundEnd, Extent, Drafting
  <2> DEFINE q == tree'.node[tree.end].seq
  <2>5. {tree'.node[i].seq : i \in RoundEnd' .. Extent' - 1} = {q}
    <3>1. RoundEnd' .. Extent' - 1 = {tree.end}
      BY <2>2, <2>4
    <3> QED
      BY <3>1
  <2>6. Cardinality({q}) = 1
    BY FS_Singleton
  <2>7. BetSeqs(level') = 1
    BY <1>1, <1>3, BudgetNumbers
  <2>8. Cardinality({tree'.node[i].seq : i \in RoundEnd' .. Extent' - 1}) <= BetSeqs(level')
    <3> DEFINE S == {tree'.node[i].seq : i \in RoundEnd' .. Extent' - 1}
    <3>1. S = {q}
      BY <2>5
    <3> HIDE DEF S, q
    <3>2. Cardinality(S) = 1
      BY <2>6, <3>1
    <3>3. Cardinality(S) <= BetSeqs(level')
      BY <2>7, <3>2
    <3> QED
      BY <3>3 DEF S
  <2>9. SeqBudget'
    BY <1>1, <1>3, <2>1, <2>8 DEF SeqBudget
  <2> QED
    BY <1>1, <1>3, <2>9 DEF SomethingDrafted
<1> QED
  BY <1>2, <1>3, NoBetLives

\* The end of Draft: a bet that is placed keeps to its sequences.
LEMMA EndDraftLives ==
  ASSUME LInv, pc = "bet", bet.st = "drafting", NEW t, NEW kvp, NEW poolp, EndDraft(t, kvp, poolp),
         Cardinality({t.node[i].seq : i \in Drafted(t)}) <= BetSeqs(ProLen)
  PROVE  SeqBudget' /\ SomethingDrafted'
<1>1. ProType # "disabled"
  BY DEF LInv, SeqBudget
<1>2. CASE /\ pc' = "join"
           /\ bet' = [bet EXCEPT !.st = "placed", !.begin = t.prefix, !.stop = t.end,
                        !.seqs = {t.node[i].seq : i \in Drafted(t)}]
  <2>1. bet \in [st : {"none", "drafting", "placed"}, leaf : Int, tok : Tok \cup {0}, prefix : Int,
                 end : Int, begin : Int, stop : Int, seqs : SUBSET Seqs]
    BY DEF LInv, CInv, IInv, Records
  <2>2. bet'.st = "placed" /\ bet'.seqs = {t.node[i].seq : i \in Drafted(t)}
    BY <1>2, <2>1
  <2>3. SeqBudget'
    BY <1>1, <1>2, <2>2 DEF SeqBudget, Drafting
  <2> QED
    BY <1>2, <2>3 DEF SomethingDrafted
<1>3. CASE NoBetPlaced(Restored(t), kvp, poolp)
  BY <1>3, NoBetLives
<1> QED
  BY <1>2, <1>3 DEF EndDraft

\* u is t with the kept children of beams C appended, as GrowTree and DraftLevel do.
AddsChildren(t, C, w, top, keep, po, status, u) ==
  /\ TreeTyped(t) /\ C \subseteq Slots /\ \A x \in C : t.node[x].pos < MaxLen
  /\ w \in 1 .. Width /\ top \in [C -> TopKRows] /\ keep \subseteq Flats(C, w)
  /\ po \in Pool /\ Cardinality(Forks(C, w, keep)) <= Cardinality(FreeSeqs(po))
  /\ status \in Status /\ Cardinality(keep) <= MaxLen - t.end
  /\ u = Add(t, Children(t, po, C, w, top, keep, status))

\* An added node takes its beam's sequence, or one that was forked for it.
LEMMA AddedSeqs ==
  ASSUME NEW t, NEW C, NEW w, NEW top, NEW keep, NEW po, NEW status, NEW u,
         AddsChildren(t, C, w, top, keep, po, status, u)
  PROVE  /\ Cardinality(keep) \in Nat /\ u.prefix = t.prefix /\ u.end = t.end + Cardinality(keep)
         /\ \A s \in Slots : s < t.end => u.node[s] = t.node[s]
         /\ \A s \in t.end .. u.end - 1 :
              \/ \E x \in C : u.node[s].seq = t.node[x].seq
              \/ \E k \in 0 .. Cardinality(Forks(C, w, keep)) - 1 : u.node[s].seq = AllocNth(po, k)
<1>0. /\ TreeTyped(t) /\ C \subseteq Slots /\ \A x \in C : t.node[x].pos < MaxLen
      /\ w \in 1 .. Width /\ top \in [C -> TopKRows] /\ keep \subseteq Flats(C, w)
      /\ po \in Pool /\ Cardinality(Forks(C, w, keep)) <= Cardinality(FreeSeqs(po))
      /\ status \in Status /\ Cardinality(keep) <= MaxLen - t.end
      /\ u = Add(t, Children(t, po, C, w, top, keep, status))
  BY DEF AddsChildren
<1> USE <1>0
<1> DEFINE kids == Children(t, po, C, w, top, keep, status)
           F == Forks(C, w, keep)
           m == Cardinality(keep)
           e == t.end
<1>1. w \in Nat \ {0}
  BY BeamAssumption
<1>2. IsFiniteSet(keep) /\ keep \subseteq Int /\ m \in Nat
  BY <1>1, FlatSets
<1>3. kids \in Seq(NodeRec(Tok \cup {0}, Seqs)) /\ Len(kids) = m
  <2>1. /\ kids \in Seq(NodeRec(Tok \cup {0}, Seqs))
        /\ Len(kids) = Cardinality(keep)
        /\ Bred(t, C, status, kids) /\ Siblings(kids)
    BY ChildrenFacts
  <2> QED
    BY <2>1
<1>4. Added(t, kids, u)
  <2>1. Len(kids) <= MaxLen - t.end /\ u = Add(t, kids)
    BY <1>3
  <2> HIDE DEF kids
  <2> QED
    BY <1>3, <2>1, AddFields
<1>5. F \subseteq keep
  BY DEF Forks
<1>6. IsFiniteSet(F) /\ F \subseteq Int
  BY <1>2, <1>5, FS_Subset
<1>7. ASSUME NEW f \in keep
      PROVE  \/ \E x \in C : ChildSeq(t, po, C, w, keep, f) = t.node[x].seq
             \/ \E k \in 0 .. Cardinality(F) - 1 : ChildSeq(t, po, C, w, keep, f) = AllocNth(po, k)
  <2>1. CASE f \in F
    <3>1. Rank(F, f) \in 0 .. Cardinality(F) - 1
      BY <1>6, <2>1, RankRange
    <3>2. ChildSeq(t, po, C, w, keep, f) = AllocNth(po, Rank(F, f))
      BY <2>1 DEF ChildSeq
    <3> QED
      BY <3>1, <3>2
  <2>2. CASE f \notin F
    <3>1. BeamOf(C, w, f) \in C
      BY <1>1, <1>7, FlatBeam
    <3>2. ChildSeq(t, po, C, w, keep, f) = t.node[BeamOf(C, w, f)].seq
      BY <2>2 DEF ChildSeq
    <3> QED
      BY <3>1, <3>2
  <2> QED
    BY <2>1, <2>2
<1>8. ASSUME NEW k \in 1 .. m
      PROVE  Nth(keep, k - 1) \in keep /\ kids[k].seq = ChildSeq(t, po, C, w, keep, Nth(keep, k - 1))
  <2>1. k - 1 \in 0 .. m - 1
    BY <1>2
  <2>2. Nth(keep, k - 1) \in keep
    BY <1>2, <2>1, NthWorks
  <2> QED
    BY <2>2 DEF Children
<1>9. e \in Nat
  BY MaxLenAssumption DEF TreeTyped, Typed
<1>10. /\ u.prefix = t.prefix /\ u.end = e + m
       /\ \A s \in Slots : s < e => u.node[s] = t.node[s]
       /\ \A s \in e .. e + m - 1 : u.node[s] = kids[s - e + 1]
  BY <1>3, <1>4 DEF Added
<1>11. ASSUME NEW s \in e .. u.end - 1
       PROVE  \/ \E x \in C : u.node[s].seq = t.node[x].seq
              \/ \E k \in 0 .. Cardinality(F) - 1 : u.node[s].seq = AllocNth(po, k)
  <2> HIDE DEF kids, m, e, F
  <2>1. s \in e .. e + m - 1 /\ s - e + 1 \in 1 .. m
    BY <1>2, <1>9, <1>10
  <2>2. u.node[s] = kids[s - e + 1]
    BY <1>10, <2>1
  <2>3. Nth(keep, (s - e + 1) - 1) \in keep
        /\ kids[s - e + 1].seq = ChildSeq(t, po, C, w, keep, Nth(keep, (s - e + 1) - 1))
    BY <1>8, <2>1
  <2> QED
    BY <1>7, <2>2, <2>3
<1> QED
  BY <1>2, <1>10, <1>11

\* A level of the bet forks what the bound allows for it.
LEMMA DraftLevelLives ==
  ASSUME LInv, DraftLevel
  PROVE  SeqBudget' /\ SomethingDrafted'
<1>0. PICK C \in {TopBeams(tree, WithStatus(tree, Drafted(tree), kPostCandidate), ProBeams)} :
     LET rows == RowsOf(tree, C)
     IN IF ~DecodeOk(kv, rows) THEN NoBetPlaced(Restored(tree), kv, pool)
        ELSE \E top \in [C -> TopKRows] :
          LET t1   == SetStatus(tree, C, kPostProcessed)
              kv1  == Decode(kv, rows)
              want == DraftKeep(t1, C, top)
              keep == Affordable(C, want)
              kids == Children(t1, pool, C, ProWidth, top, keep, kPostCandidate)
              t2   == IF keep = {} THEN t1 ELSE Add(t1, kids)
              kv2  == ForkCache(kv1, t1, pool, C, ProWidth, keep)
              pool2 == AfterAlloc(pool, Cardinality(Forks(C, ProWidth, keep)))
          IN IF keep # want \/ keep = {} \/ level + 1 = ProLen
             THEN EndDraft(t2, kv2, pool2)
             ELSE /\ tree' = t2
                  /\ kv' = kv2
                  /\ pool' = pool2
                  /\ level' = level + 1
                  /\ UNCHANGED <<pc, prevHit, rpc, bet, gen, srv, cause>>
  BY DEF DraftLevel
<1> DEFINE D == WithStatus(tree, Drafted(tree), kPostCandidate)
           t1 == SetStatus(tree, C, kPostProcessed)
           want(top) == DraftKeep(t1, C, top)
           keep(top) == Affordable(C, want(top))
           kids(top) == Children(t1, pool, C, ProWidth, top, keep(top), kPostCandidate)
           t2(top) == IF keep(top) = {} THEN t1 ELSE Add(t1, kids(top))
           forks(top) == Cardinality(Forks(C, ProWidth, keep(top)))
           Ids(t) == {t.node[i].seq : i \in bet.end .. t.end - 1}
           y == ProBeams * (ProWidth - 1)
<1>1. /\ pc = "bet" /\ bet.st = "drafting" /\ C = TopBeams(tree, D, ProBeams)
  BY DEF DraftLevel
<1>2. \/ NoBetPlaced(Restored(tree), kv, pool)
      \/ \E top \in [C -> TopKRows] :
           \/ \E kvp, poolp : EndDraft(t2(top), kvp, poolp)
           \/ tree' = t2(top) /\ level' = level + 1 /\ UNCHANGED <<pc, bet>>
  BY <1>0
<1> HIDE DEF t1, want, keep, kids, t2, forks, Ids, y
<1>3. /\ tree.prefix = bet.end /\ Grown(tree, bet.prefix, bet.end, tree.end)
      /\ RoundEnd = bet.end /\ Extent = tree.end
      /\ bet.prefix \in Nat /\ bet.end \in Nat /\ tree.end \in Nat /\ MaxLen \in Nat
      /\ 1 <= bet.prefix /\ bet.prefix < bet.end /\ bet.end < tree.end /\ tree.end <= MaxLen
      /\ level < ProLen /\ level \in Nat /\ pool \in Pool
  BY <1>1, DraftingFacts DEF LInv, CInv
<1>4. /\ TreeTyped(tree) /\ 0 .. tree.end - 1 \subseteq Slots
      /\ \A i \in 0 .. tree.end - 1 : tree.node[i].pos < MaxLen
  BY <1>3, GrownNumbers DEF Grown
<1>5. /\ D \subseteq Slots /\ C \subseteq bet.end .. tree.end - 1 /\ C \subseteq Slots
      /\ \A x \in C : x \in 0 .. tree.end - 1
  <2>1. D \subseteq bet.end .. tree.end - 1
    BY <1>3 DEF WithStatus, Drafted
  <2>2. C \subseteq D
    BY <1>1 DEF TopBeams
  <2>3. \A i \in bet.end .. tree.end - 1 : i \in 0 .. tree.end - 1
    BY <1>3
  <2> QED
    BY <1>4, <2>1, <2>2, <2>3
<1>6. /\ TreeTyped(t1) /\ t1.prefix = bet.end /\ t1.end = tree.end
      /\ \A s \in Slots : t1.node[s].seq = tree.node[s].seq /\ t1.node[s].pos = tree.node[s].pos
  <2>1. kPostProcessed \in Status
    BY DEF Status
  <2>2. TreeTyped(t1) /\ Marked(tree, C, kPostProcessed, t1)
    BY <1>4, <2>1, StatusFields DEF TreeTyped, t1
  <2>3. \A s \in Slots : tree.node[s] \in NodeRec(Tok \cup {0}, Seqs)
    BY <1>4, NodeFields
  <2> QED
    BY <1>3, <2>2, <2>3 DEF Marked, NodeRec
<1>7. /\ Cardinality(Ids(tree)) <= BetSeqs(level) /\ ProType # "disabled"
  BY <1>1, <1>3 DEF LInv, SeqBudget, Drafting, Ids
<1>8. IsFiniteSet(Ids(tree)) /\ Cardinality(Ids(tree)) \in Nat
  <2>1. Ids(tree) \subseteq Seqs
    <3>1. \A i \in bet.end .. tree.end - 1 : i \in 0 .. tree.end - 1
      BY <1>3
    <3>2. \A i \in bet.end .. tree.end - 1 : tree.node[i].seq \in Seqs
      BY <1>4, <3>1, NodeFields
    <3> QED
      BY <3>2 DEF Ids
  <2>2. IsFiniteSet(Seqs)
    BY SeqsAssumption, FirstNumbers DEF Seqs
  <2> QED
    BY <2>1, <2>2, FS_Subset, FS_CardinalityType
<1>9. ASSUME NEW top \in [C -> TopKRows]
      PROVE  /\ Cardinality(Ids(t2(top))) \in Nat /\ Cardinality(Ids(t2(top))) <= BetSeqs(level + 1)
             /\ t2(top).prefix = bet.end
  <2> DEFINE K == keep(top)
             W == want(top)
             u == t2(top)
             new == {AllocNth(pool, k) : k \in 0 .. forks(top) - 1}
  <2>1. W \subseteq Flats(C, ProWidth) /\ Cardinality(W) <= MaxLen - t1.end
    BY <1>5, <1>6, DraftKeepFits DEF want
  <2>2. K \subseteq W /\ forks(top) \in Nat /\ forks(top) <= Cardinality(FreeSeqs(pool))
    <3> HIDE DEF W
    <3>1. K = Affordable(C, W)
      BY DEF keep, W
    <3> HIDE DEF K
    <3>2. /\ K \subseteq W /\ Cardinality(Forks(C, ProWidth, K)) \in Nat
          /\ Cardinality(Forks(C, ProWidth, K)) <= Cardinality(FreeSeqs(pool))
      BY <1>5, <2>1, <3>1, AffordableFits
    <3> QED
      BY <3>2 DEF forks, K
  <2>3. ProWidth \in 1 .. Width /\ ProWidth \in Nat \ {0} /\ ProBeams \in Nat
    BY SpecExecAssumption
  <2>4. forks(top) <= y /\ y \in Nat
    BY <1>1, <1>4, <1>5, <2>1, <2>2, <2>3, BeamsFork DEF forks, y
  <2>5. Cardinality(K) <= MaxLen - t1.end /\ K \subseteq Flats(C, ProWidth)
    <3> HIDE DEF K, W
    <3>1. IsFiniteSet(W) /\ Cardinality(W) \in Nat
      BY <1>5, <2>1, <2>3, FlatSets
    <3>2. Cardinality(K) <= Cardinality(W) /\ IsFiniteSet(K)
      BY <2>2, <3>1, FS_Subset
    <3>3. Cardinality(K) \in Nat
      BY <3>2, FS_CardinalityType
    <3>4. Cardinality(K) <= MaxLen - t1.end
      BY <1>3, <1>6, <2>1, <3>1, <3>2, <3>3
    <3> QED
      BY <2>1, <2>2, <3>4
  <2>6. u.prefix = bet.end /\ Ids(u) \subseteq Ids(tree) \cup new
    <3>1. CASE K = {}
      <4>1. u = t1
        BY <3>1 DEF t2
      <4>2. \A i \in bet.end .. tree.end - 1 : i \in Slots
        BY <1>3, <1>4
      <4>3. Ids(t1) = Ids(tree)
        BY <1>6, <4>2 DEF Ids
      <4> QED
        BY <1>6, <4>1, <4>3
    <3>2. CASE K # {}
      <4>1. u = Add(t1, Children(t1, pool, C, ProWidth, top, K, kPostCandidate))
        BY <3>2 DEF t2, kids
      <4>2. kPostCandidate \in Status /\ \A x \in C : t1.node[x].pos < MaxLen
        BY <1>4, <1>5, <1>6 DEF Status
      <4>3. Cardinality(Forks(C, ProWidth, K)) <= Cardinality(FreeSeqs(pool))
        BY <2>2 DEF forks
      <4> HIDE DEF u, K, W
      <4>4. /\ Cardinality(K) \in Nat /\ u.prefix = t1.prefix /\ u.end = t1.end + Cardinality(K)
            /\ \A s \in Slots : s < t1.end => u.node[s] = t1.node[s]
            /\ \A s \in t1.end .. u.end - 1 :
                 \/ \E x \in C : u.node[s].seq = t1.node[x].seq
                 \/ \E k \in 0 .. Cardinality(Forks(C, ProWidth, K)) - 1 : u.node[s].seq = AllocNth(pool, k)
        <5>1. AddsChildren(t1, C, ProWidth, top, K, pool, kPostCandidate, u)
          BY <1>3, <1>5, <1>6, <1>9, <2>3, <2>5, <4>1, <4>2, <4>3 DEF AddsChildren
        <5> QED
          BY <5>1, AddedSeqs
      <4>5. ASSUME NEW i \in bet.end .. u.end - 1 PROVE u.node[i].seq \in Ids(tree) \cup new
        <5>1. CASE i < tree.end
          <6>1. i \in bet.end .. tree.end - 1 /\ i \in 0 .. tree.end - 1
            BY <1>3, <4>5, <5>1
          <6>2. u.node[i].seq = tree.node[i].seq
            BY <1>4, <1>6, <4>4, <5>1, <6>1
          <6> QED
            BY <6>1, <6>2 DEF Ids
        <5>2. CASE i >= tree.end
          <6>1. i \in t1.end .. u.end - 1
            BY <1>3, <1>6, <4>5, <5>2
          <6>2. CASE \E x \in C : u.node[i].seq = t1.node[x].seq
            BY <1>5, <1>6, <6>2 DEF Ids
          <6>3. CASE \E k \in 0 .. Cardinality(Forks(C, ProWidth, K)) - 1 : u.node[i].seq = AllocNth(pool, k)
            BY <6>3 DEF forks, K
          <6> QED
            BY <4>4, <6>1, <6>2, <6>3
        <5> QED
          BY <1>3, <5>1, <5>2
      <4>6. Ids(u) \subseteq Ids(tree) \cup new
        <5> HIDE DEF new
        <5> QED
          BY <4>5 DEF Ids
      <4> QED
        BY <1>6, <4>4, <4>6
    <3> QED
      BY <3>1, <3>2
  <2> HIDE DEF u, K, W
  <2>7. Cardinality(Ids(u)) \in Nat /\ Cardinality(Ids(u)) <= Cardinality(Ids(tree)) + forks(top)
    <3> HIDE DEF forks
    <3>1. Gains(Ids(tree), pool, forks(top), Ids(u))
      BY <2>6 DEF Gains
    <3> QED
      BY <1>8, <2>2, <3>1, GainsFew
  <2>8. BetSeqs(level + 1) = BetSeqs(level) + y /\ BetSeqs(level) \in Nat
    BY <1>3, <1>7, BudgetNumbers DEF y
  <2>9. Cardinality(Ids(u)) <= BetSeqs(level + 1)
    <3> DEFINE a == Cardinality(Ids(u))
               b == Cardinality(Ids(tree))
               f == forks(top)
    <3>1. a \in Nat /\ b \in Nat /\ f \in Nat /\ a <= b + f /\ f <= y /\ y \in Nat /\ b <= BetSeqs(level)
      BY <1>7, <1>8, <2>2, <2>4, <2>7
    <3> HIDE DEF a, b, f
    <3>2. a <= BetSeqs(level + 1)
      BY <2>8, <3>1
    <3> QED
      BY <3>2 DEF a
  <2> QED
    BY <2>6, <2>7, <2>9 DEF u
<1>10. BetSeqs(level + 1) <= BetSeqs(ProLen) /\ BetSeqs(level + 1) \in Nat /\ BetSeqs(ProLen) \in Nat
  <2>1. level + 1 \in Nat /\ ProLen \in Nat /\ level + 1 <= ProLen
    BY <1>3, SpecExecAssumption
  <2> QED
    BY <2>1, BudgetNumbers
<1>11. ASSUME NEW top \in [C -> TopKRows], NEW kvp, NEW poolp, EndDraft(t2(top), kvp, poolp)
       PROVE  SeqBudget' /\ SomethingDrafted'
  <2> DEFINE u == t2(top)
  <2>1. Cardinality(Ids(u)) \in Nat /\ Cardinality(Ids(u)) <= BetSeqs(level + 1) /\ u.prefix = bet.end
    BY <1>9
  <2>2. Ids(u) = {u.node[i].seq : i \in Drafted(u)}
    BY <2>1 DEF Ids, Drafted
  <2>3. EndDraft(u, kvp, poolp)
    BY <1>11
  <2> HIDE DEF u
  <2>4. Cardinality(Ids(u)) <= BetSeqs(ProLen)
    BY <1>10, <2>1
  <2> QED
    BY <1>1, <2>2, <2>3, <2>4, EndDraftLives
<1>12. ASSUME NEW top \in [C -> TopKRows], tree' = t2(top), level' = level + 1, UNCHANGED <<pc, bet>>
       PROVE  SeqBudget' /\ SomethingDrafted'
  <2>1. bet'.st = "drafting" /\ pc' = "bet" /\ RoundEnd' = bet.end /\ Extent' = tree'.end
    BY <1>1, <1>12 DEF RoundEnd, Extent, Drafting
  <2>2. Cardinality({tree'.node[i].seq : i \in RoundEnd' .. Extent' - 1}) <= BetSeqs(level')
    BY <1>9, <1>12, <2>1 DEF Ids
  <2>3. SeqBudget'
    BY <1>7, <2>1, <2>2 DEF SeqBudget
  <2> QED
    BY <2>1, <2>3 DEF SomethingDrafted
<1>13. CASE NoBetPlaced(Restored(tree), kv, pool)
  BY <1>13, NoBetLives
<1> QED
  BY <1>2, <1>11, <1>12, <1>13

\* A round that commits starts the next one with the sequences its tree kept.
LEMMA CommitLives ==
  ASSUME NEW u, NEW kvp, NEW hit, Commit(u, kvp, hit),
         NEW T, IsFiniteSet(T), Cardinality(T) <= BetSeqs(ProLen),
         \A i \in Live(u) : u.node[i].seq \in {0} \cup T,
         Drafted(u) # {} \/ (~hit /\ u.node[u.prefix - 1].st = kCandidate)
  PROVE  SeqBudget' /\ SomethingDrafted' /\ cause' = cause
<1>1. /\ tree' = u /\ pool' = PoolOf(u) /\ level' = 0 /\ prevHit' = hit /\ bet' = NoBet
      /\ cause' = cause /\ pc' \in {"grow", "done"}
  BY DEF Commit, Return
<1>2. bet'.st = "none"
  BY <1>1 DEF NoBet
<1>3. pool'.used \cup {0} \subseteq {0} \cup T
  BY <1>1 DEF PoolOf
<1> DEFINE U == pool'.used \cup {0}
           Z == {0} \cup T
           x == Beams * (Width - 1)
<1>4. IsFiniteSet(Z) /\ Cardinality(Z) <= 1 + Cardinality(T) /\ Cardinality(T) \in Nat /\ Cardinality(Z) \in Nat
  <2>1. CASE 0 \in T
    <3>1. Z = T
      BY <2>1
    <3>2. Cardinality(T) \in Nat
      BY FS_CardinalityType
    <3> HIDE DEF Z
    <3> QED
      BY <3>1, <3>2
  <2>2. CASE 0 \notin T
    <3>1. Z = T \cup {0}
      OBVIOUS
    <3> HIDE DEF Z
    <3>2. IsFiniteSet(T \cup {0}) /\ Cardinality(T \cup {0}) = Cardinality(T) + 1
      BY <2>2, FS_AddElement
    <3>3. Cardinality(T) \in Nat
      BY FS_CardinalityType
    <3> QED
      BY <3>1, <3>2, <3>3
  <2> QED
    BY <2>1, <2>2
<1> HIDE DEF U, Z, x
<1>5. Cardinality(U) <= Cardinality(Z) /\ Cardinality(U) \in Nat
  <2>1. U \subseteq Z
    BY <1>3 DEF U, Z
  <2>2. IsFiniteSet(U) /\ Cardinality(U) <= Cardinality(Z)
    BY <1>4, <2>1, FS_Subset
  <2> QED
    BY <2>2, FS_CardinalityType
<1>6. BetSeqs(ProLen) \in Nat /\ x \in Nat
  BY BudgetNumbers, SpecExecAssumption DEF x
<1>7. Cardinality(U) <= 1 + BetSeqs(ProLen) + level' * x
  <2>1. level' * x = 0
    BY <1>1, <1>6
  <2> DEFINE a == Cardinality(U)
             b == Cardinality(Z)
             c == Cardinality(T)
             d == BetSeqs(ProLen)
  <2>2. a \in Nat /\ b \in Nat /\ c \in Nat /\ d \in Nat /\ a <= b /\ b <= 1 + c /\ c <= d
    BY <1>4, <1>5, <1>6
  <2> HIDE DEF a, b, c, d
  <2>3. a <= 1 + d + 0
    BY <2>2
  <2> QED
    BY <2>1, <2>3 DEF a, d
<1>8. SeqBudget'
  BY <1>1, <1>2, <1>7 DEF SeqBudget, Drafting, U, x
<1>9. SomethingDrafted'
  <2>1. pc' # "validate"
    BY <1>1
  <2>2. Drafted(tree') # {} \/ (level' = 0 /\ ~prevHit' /\ tree'.node[tree'.prefix - 1].st = kCandidate)
    BY <1>1
  <2> QED
    BY <2>1, <2>2 DEF SomethingDrafted
<1> QED
  BY <1>1, <1>8, <1>9

\* Everything behind the seed is on the seed's sequence.
LEMMA ReseedSeqs ==
  ASSUME NEW t1, NEW n \in Nat, TreeTyped(t1), t1.end = n, \A i \in 0 .. n - 1 : t1.node[i].seq = 0,
         NEW seed \in NodeRec(Tok \cup {0}, Seqs), seed.seq = 0, 1 <= MaxLen - n
  PROVE  /\ Reseeded(t1, seed).end = n + 1
         /\ \A i \in 0 .. n : Reseeded(t1, seed).node[i].seq = 0
<1> DEFINE kids == <<seed>>
           t2 == Add(t1, kids)
           t3 == SetPrefixLen(t2, t2.end)
           S == 0 .. t2.end - 2
           u == SetStatus(t3, S, kPrompt)
           X == NodeRec(Tok \cup {0}, Seqs)
<1>1. kids \in Seq(X) /\ Len(kids) = 1 /\ kids[1] = seed
  <2>1. seed \in X
    OBVIOUS
  <2> HIDE DEF X
  <2> QED
    BY <2>1
<1>2. MaxLen \in Nat /\ \A i \in 0 .. n : i \in Slots
  BY MaxLenAssumption DEF Slots
<1> HIDE DEF kids
<1>3. Added(t1, kids, t2)
  <2>1. kids \in Seq(NodeRec(Tok \cup {0}, Seqs)) /\ Len(kids) <= MaxLen - t1.end
    BY <1>1 DEF X
  <2> QED
    BY <2>1, AddFields
<1> HIDE DEF t2
<1>4. /\ t2.end = n + 1 /\ t2.node[n] = seed
      /\ \A s \in 0 .. n - 1 : t2.node[s] = t1.node[s]
  <2>1. t1.end \in t1.end .. t1.end + Len(kids) - 1 /\ t1.end - t1.end + 1 = 1
    BY <1>1
  <2>2. \A s \in 0 .. n - 1 : s \in Slots /\ s < t1.end
    BY <1>2
  <2> QED
    BY <1>1, <1>3, <2>1, <2>2 DEF Added
<1>5. \A i \in 0 .. n : t2.node[i].seq = 0
  <2> TAKE i \in 0 .. n
  <2>1. i = n \/ i \in 0 .. n - 1
    OBVIOUS
  <2> QED
    BY <1>4, <2>1
<1>6. t3.node = t2.node /\ t3.end = n + 1
  BY <1>4 DEF SetPrefixLen
<1> HIDE DEF t3, S
<1>7. u.end = n + 1 /\ \A i \in Slots : u.node[i].seq = t3.node[i].seq
  BY <1>6 DEF SetStatus
<1>8. u = Reseeded(t1, seed)
  BY DEF Reseeded, t3, t2, kids, S
<1> QED
  BY <1>2, <1>5, <1>6, <1>7, <1>8

\* A miss leaves one sequence in use.
LEMMA AcceptMissLives ==
  ASSUME LInv, AcceptMiss
  PROVE  SeqBudget' /\ SomethingDrafted'
<1>0. PICK acc \in {Accepted(rpc.sel)} :
     LET path == AcceptedPath(acc)
         keep == tree.node[LastSlot(acc)].seq
         t1   == ReorderBySequence(tree, acc)
         seed == [tok |-> Bonus(acc), pos |-> t1.node[t1.end - 1].pos + 1,
                  par |-> t1.end - 1, st |-> kCandidate, lp |-> 0, seq |-> 0]
         t2   == Add(t1, <<seed>>)
     IN /\ ~BetWon(acc)
        /\ IF ~AcceptPathOk(kv, keep, path) THEN Die("decode")
           ELSE IF ~AddOk(t1, <<seed>>) THEN Die("max_len")
           ELSE Commit(SetStatus(SetPrefixLen(t2, t2.end), 0 .. t2.end - 2, kPrompt),
                       AcceptPath(kv, keep, path),
                       FALSE)
  BY DEF AcceptMiss
<1> DEFINE path == AcceptedPath(acc)
           keep == tree.node[LastSlot(acc)].seq
           t1   == ReorderBySequence(tree, acc)
           seed == [tok |-> Bonus(acc), pos |-> t1.node[t1.end - 1].pos + 1,
                    par |-> t1.end - 1, st |-> kCandidate, lp |-> 0, seq |-> 0]
           n == Cardinality(acc)
           kvp == AcceptPath(kv, keep, path)
<1>1. pc = "join" /\ rpc.st = "answered" /\ acc = Accepted(rpc.sel)
  BY DEF AcceptMiss
<1>2. \/ \E why : Die(why)
      \/ AddOk(t1, <<seed>>) /\ Commit(Reseeded(t1, seed), kvp, FALSE)
  BY <1>0 DEF Reseeded
<1> HIDE DEF path, keep, t1, seed, kvp
<1>3. IInv
  BY DEF LInv, CInv
<1>4. /\ Grown(tree, tree.prefix, tree.end, Extent) /\ MaxLen \in Nat
      /\ tree.prefix \in Nat /\ tree.end \in Nat /\ 1 <= tree.prefix /\ tree.end <= MaxLen
  <2>1. /\ Grown(tree, tree.prefix, tree.end, Extent)
        /\ MaxLen \in Nat /\ tree.prefix \in Nat /\ tree.end \in Nat /\ Extent \in Nat
        /\ 1 <= tree.prefix /\ tree.prefix < tree.end /\ tree.end <= Extent /\ Extent <= MaxLen
    BY <1>1, <1>3, Joined, Settled
  <2> QED
    BY <2>1
<1>5. /\ acc \subseteq Slots /\ ReorderOk(tree, acc) /\ Bonus(acc) \in Tok
      /\ \A i \in acc : tree.node[i].tok \in Tok
  BY <1>1, <1>3, AcceptedFacts
<1>6. ASSUME NEW why, Die(why) PROVE SeqBudget' /\ SomethingDrafted'
  BY <1>6, DieLives
<1>7. ASSUME AddOk(t1, <<seed>>), Commit(Reseeded(t1, seed), kvp, FALSE) PROVE SeqBudget' /\ SomethingDrafted'
  <2>1. TreeTyped(tree) /\ 0 \in Seqs
    BY <1>4, SeqsAssumption DEF Grown, Seqs
  <2>2. TreeTyped(t1) /\ Shaped(t1, n, n) /\ Reordered(tree, acc, t1)
    BY <1>5, <2>1, ReorderShape DEF TreeTyped, t1
  <2>3. /\ n \in tree.prefix .. tree.end /\ t1.prefix = n /\ t1.end = n
        /\ \A i \in 0 .. n - 1 : t1.node[i].tok = tree.node[Nth(acc, i)].tok /\ t1.node[i].pos = i
                                 /\ t1.node[i].seq = 0
    BY <2>2 DEF Reordered
  <2>4. n \in Nat /\ n <= MaxLen /\ n >= 1 /\ n - 1 \in 0 .. n - 1
    BY <1>4, <2>3
  <2>5. IsFiniteSet(acc) /\ acc \subseteq Int
    BY <1>5, SlotSets
  <2>6. \A i \in 0 .. n - 1 : t1.node[i].tok \in Tok
    <3>1. \A i \in 0 .. n - 1 : Nth(acc, i) \in acc
      BY <2>5, NthWorks
    <3> QED
      BY <1>5, <2>3, <3>1
  <2>7. seed = [tok |-> Bonus(acc), pos |-> t1.node[n - 1].pos + 1, par |-> n - 1, st |-> kCandidate,
                lp |-> 0, seq |-> 0]
    BY <2>3 DEF seed
  <2>8. t1.node[n - 1].pos = n - 1
    BY <2>3, <2>4
  <2> HIDE DEF n
  <2>9. t1.node[n - 1].pos + 1 \in 0 .. MaxLen /\ n - 1 \in Slots
    BY <1>4, <2>4, <2>8 DEF Slots
  <2>10. /\ seed \in NodeRec(Tok \cup {0}, Seqs) /\ seed.tok \in Tok /\ seed.par = n - 1
         /\ seed.pos = t1.node[n - 1].pos + 1 /\ seed.st = kCandidate /\ seed.seq = 0
    BY <1>5, <2>1, <2>7, <2>9 DEF NodeRec, Status
  <2>11. 1 <= MaxLen - n
    <3>1. Len(<<seed>>) = 1
      OBVIOUS
    <3> QED
      BY <1>7, <2>3, <3>1 DEF AddOk
  <2> DEFINE u == Reseeded(t1, seed)
  <2>12. u.prefix = n + 1 /\ u.node[n].st = kCandidate
    <3> HIDE DEF u, seed, t1
    <3>1. TreeTyped(t1) /\ Shaped(t1, n, n) /\ t1.end = n /\ t1.prefix = n /\ n \in Nat
      BY <2>2, <2>3, <2>4
    <3>3. Seeds(t1, n, seed)
      BY <2>6, <2>10, <2>11, <3>1 DEF Seeds
    <3>2. /\ Grown(Reseeded(t1, seed), n + 1, n + 1, n + 1)
          /\ Reseeded(t1, seed).prefix = n + 1 /\ Reseeded(t1, seed).end = n + 1
          /\ \A i \in 0 .. n - 1 : Reseeded(t1, seed).node[i].tok = t1.node[i].tok
          /\ Reseeded(t1, seed).node[n].tok = seed.tok
          /\ Reseeded(t1, seed).node[n].seq = seed.seq /\ Reseeded(t1, seed).node[n].st = kCandidate
      BY <3>3, ReseedGrown
    <3> QED
      BY <3>2 DEF u
  <2>13. u.end = n + 1 /\ \A i \in 0 .. n : u.node[i].seq = 0
    <3> HIDE DEF u
    <3>1. TreeTyped(t1) /\ t1.end = n /\ n \in Nat /\ \A i \in 0 .. n - 1 : t1.node[i].seq = 0
      BY <2>2, <2>3, <2>4
    <3>2. seed \in NodeRec(Tok \cup {0}, Seqs) /\ seed.seq = 0
      BY <2>10
    <3>3. /\ Reseeded(t1, seed).end = n + 1
          /\ \A i \in 0 .. n : Reseeded(t1, seed).node[i].seq = 0
      BY <2>11, <3>1, <3>2, ReseedSeqs
    <3> QED
      BY <3>3 DEF u
  <2>14. Commit(u, kvp, FALSE)
    BY <1>7 DEF u
  <2> HIDE DEF u
  <2>15. \A i \in Live(u) : u.node[i].seq \in {0} \cup {}
    <3>1. Live(u) = 0 .. n
      BY <2>4, <2>13 DEF Live
    <3> QED
      BY <2>13, <3>1
  <2>16. u.node[u.prefix - 1].st = kCandidate
    <3>1. u.prefix - 1 = n
      BY <2>4, <2>12
    <3> QED
      BY <2>12, <3>1
  <2>17. IsFiniteSet({}) /\ Cardinality({}) = 0 /\ BetSeqs(ProLen) \in Nat
    BY FS_EmptySet, BudgetNumbers, SpecExecAssumption
  <2>18. Cardinality({}) <= BetSeqs(ProLen)
    BY <2>17
  <2> QED
    BY <2>14, <2>15, <2>16, <2>17, <2>18, CommitLives
<1> QED
  BY <1>2, <1>6, <1>7

\* A hit keeps the sequences of the bet, and no other.
LEMMA AcceptHitLives ==
  ASSUME LInv, AcceptHit
  PROVE  SeqBudget' /\ SomethingDrafted'
<1>0. PICK acc \in {Accepted(rpc.sel)} :
     LET path == AcceptedPath(acc)
         kv1  == IF Recurrent THEN AdvanceCommitted(kv, path) ELSE kv
     IN /\ BetWon(acc)
        /\ IF Recurrent /\ ~AdvanceCommittedOk(kv, path) THEN Die("decode")
           ELSE IF ~ReorderProactiveOk(tree, acc, bet.begin, bet.stop)
           THEN Die("splice")
           ELSE Commit(ReorderProactive(tree, acc, bet.begin, bet.stop,
                                        tree.node[bet.begin].seq),
                       CollapseToSeqs(kv1, bet.seqs),
                       TRUE)
  BY DEF AcceptHit
<1> DEFINE path == AcceptedPath(acc)
           kv1 == IF Recurrent THEN AdvanceCommitted(kv, path) ELSE kv
           q == tree.node[bet.begin].seq
           u == ReorderProactive(tree, acc, bet.begin, bet.stop, q)
           kvp == CollapseToSeqs(kv1, bet.seqs)
<1>1. pc = "join" /\ rpc.st = "answered" /\ acc = Accepted(rpc.sel) /\ BetWon(acc)
  BY <1>0 DEF AcceptHit
<1>2. (\E why : Die(why)) \/ Commit(u, kvp, TRUE)
  BY <1>0
<1> HIDE DEF path, kv1, u, kvp, q
<1>3. IInv /\ Cached /\ SeqBudget
  BY DEF LInv, CInv
<1> DEFINE b == tree.end
           c == tree.prefix
           e == bet.stop
           n == Cardinality(acc)
<1>4. /\ ReorderProactiveOk(tree, acc, b, e) /\ bet.st = "placed" /\ bet.begin = b /\ Extent = e
  BY <1>1, <1>3, WonBetFits
<1>5. /\ Grown(tree, c, b, e) /\ RoundEnd = b /\ c \in Nat /\ b \in Nat /\ e \in Nat
  BY <1>1, <1>3, <1>4, Joined, Settled
<1>6. b + 1 < e
  BY <1>3, <1>4 DEF IInv, Bets
<1>7. /\ acc \subseteq Slots /\ \A i \in acc : tree.node[i].tok \in Tok
  BY <1>1, <1>3, AcceptedFacts
<1>8. /\ bet.seqs = {tree.node[i].seq : i \in b .. e - 1}
      /\ Cardinality(bet.seqs) <= BetSeqs(ProLen)
  BY <1>3, <1>4, <1>5 DEF Cached, SeqBudget
<1>9. \A i \in b .. e - 1 : tree.node[i].seq \in bet.seqs
  BY <1>8
<1>10. q \in bet.seqs /\ q = tree.node[b].seq
  <2>1. b \in b .. e - 1
    BY <1>5, <1>6
  <2> QED
    BY <1>4, <1>9, <2>1 DEF q
<1>11. bet.seqs \subseteq Seqs /\ IsFiniteSet(bet.seqs)
  <2>1. \A i \in b .. e - 1 : i \in Slots
    BY <1>5, GrownNumbers DEF Slots
  <2>2. TreeTyped(tree)
    BY <1>5 DEF Grown
  <2>3. bet.seqs \subseteq Seqs
    BY <1>8, <2>1, <2>2, NodeFields
  <2>4. IsFiniteSet(Seqs)
    BY SeqsAssumption, FirstNumbers DEF Seqs
  <2> QED
    BY <2>3, <2>4, FS_Subset
<1>12. Spliced(tree, acc, tree.end, e, q, u)
  <2>1. u = ReorderProactive(tree, acc, tree.end, e, q) /\ Grown(tree, tree.prefix, tree.end, e)
        /\ ReorderProactiveOk(tree, acc, tree.end, e) /\ q \in Seqs
    BY <1>4, <1>5, <1>10, <1>11 DEF u
  <2> HIDE DEF e
  <2> QED
    BY <1>7, <2>1, SpliceGrown
<1>13. n \in Nat
  BY <1>7, SlotSets
<1>14. /\ u.prefix = n + 1 /\ u.end = n + (e - b)
       /\ \A i \in 0 .. n - 1 : u.node[i].seq = q
       /\ \A s \in b .. e - 1 : u.node[n + (s - b)].seq = IF s = b THEN q ELSE tree.node[s].seq
  BY <1>12 DEF Spliced
<1> HIDE DEF b, c, e, n
<1>15. ASSUME NEW i \in Live(u) PROVE u.node[i].seq \in {0} \cup bet.seqs
  <2>1. i \in 0 .. (n + (e - b)) - 1
    BY <1>14 DEF Live
  <2>2. CASE i < n
    <3>1. i \in 0 .. n - 1
      BY <1>13, <2>1, <2>2
    <3> QED
      BY <1>10, <1>14, <3>1
  <2>3. CASE i >= n
    <3> DEFINE s == b + (i - n)
    <3>1. s \in b .. e - 1 /\ n + (s - b) = i
      BY <1>5, <1>6, <1>13, <2>1, <2>3
    <3> HIDE DEF s
    <3>2. u.node[i].seq = IF s = b THEN q ELSE tree.node[s].seq
      BY <1>14, <3>1
    <3> QED
      BY <1>9, <1>10, <3>1, <3>2
  <2> QED
    BY <1>13, <2>1, <2>2, <2>3
<1>16. Drafted(u) # {}
  <2>1. n + 1 \in (n + 1) .. (n + (e - b)) - 1
    BY <1>5, <1>6, <1>13
  <2> QED
    BY <1>14, <2>1 DEF Drafted
<1>17. ASSUME Commit(u, kvp, TRUE) PROVE SeqBudget' /\ SomethingDrafted'
  BY <1>8, <1>11, <1>15, <1>16, <1>17, CommitLives
<1>18. ASSUME NEW why, Die(why) PROVE SeqBudget' /\ SomethingDrafted'
  BY <1>18, DieLives
<1> QED
  BY <1>2, <1>17, <1>18

\* A request starts with no sequence but the prompt's, and the last prompt token to
\* draft from.
LEMMA InitLives ==
  ASSUME Init
  PROVE  SeqBudget /\ SomethingDrafted
<1>1. PICK p \in Prompts : tree = NewTree(p)
  BY DEF Init
<1>2. /\ pool = PoolOf(tree) /\ pc = "grow" /\ level = 0 /\ prevHit = FALSE /\ bet = NoBet
  BY DEF Init
<1>3. Opened
  <2>1. gen.first /\ Opening
    BY <1>2 DEF Init, Opening
  <2> QED
    BY <2>1, InitCached DEF Cached
<1>4. SomethingDrafted
  BY <1>2, <1>3 DEF SomethingDrafted, Opened
<1>5. Len(p) \in 1 .. MaxLen
  BY SpecExecAssumption DEF NewTreeOk
<1>6. ASSUME NEW i \in Live(tree) PROVE tree.node[i].seq = 0
  <2> DEFINE n == Len(p)
             rec(s) == IF s < n
                       THEN [tok |-> p[s + 1], pos |-> s, par |-> IF s = 0 THEN 0 ELSE s - 1,
                             st  |-> IF s = n - 1 THEN kCandidate ELSE kPrompt, lp  |-> 0, seq |-> 0]
                       ELSE BlankNode
  <2>1. tree.end = n /\ tree.node = [s \in Slots |-> rec(s)]
    BY <1>1 DEF NewTree
  <2>2. i \in 0 .. n - 1
    BY <2>1 DEF Live
  <2>3. i \in Slots /\ i < n
    BY <1>5, <2>2, MaxLenAssumption DEF Slots
  <2> HIDE DEF n
  <2>4. tree.node[i] = rec(i)
    BY <2>1, <2>3
  <2> QED
    BY <2>3, <2>4
<1>7. pool.used \cup {0} = {0}
  BY <1>2, <1>6 DEF PoolOf
<1>8. Cardinality(pool.used \cup {0}) <= 1 + BetSeqs(ProLen) + level * (Beams * (Width - 1))
  <2> DEFINE U == pool.used \cup {0}
             x == Beams * (Width - 1)
  <2>1. Cardinality({0}) = 1
    BY FS_Singleton
  <2>2. U = {0}
    BY <1>7
  <2>3. x \in Nat /\ BetSeqs(ProLen) \in Nat
    BY BudgetNumbers, SpecExecAssumption
  <2> HIDE DEF U, x
  <2>4. level * x = 0
    BY <1>2, <2>3
  <2>5. Cardinality(U) = 1
    BY <2>1, <2>2
  <2>6. Cardinality(U) <= 1 + BetSeqs(ProLen) + level * x
    BY <2>3, <2>4, <2>5
  <2> QED
    BY <2>6 DEF U, x
<1> QED
  BY <1>2, <1>4, <1>8 DEF SeqBudget, Drafting, NoBet

\* With at least the sequences derive_max_seqs asks for, where its clamp does not cut
\* them, no step runs out of them, no decode finds its cells taken or missing and no
\* round is left without a target: a request ends early only when the server fails
\* or the tree is full.
THEOREM DiesOfServerOrFullTree ==
  ASSUME MaxSeqs >= DeriveMaxSeqs, DeriveMaxSeqs < 256
  PROVE  Spec => []DiesOnlyOutside
<1>1. Roomy
  BY DerivedIsRoomy
<1>2. Init => LInv /\ DiesOnlyOutside
  <2>1. ASSUME Init PROVE CInv
    BY <2>1, InitIInv, InitCached DEF CInv
  <2>2. Init => cause = "none"
    BY DEF Init
  <2> QED
    BY <2>1, <2>2, InitLives DEF LInv, DiesOnlyOutside
<1>3. ASSUME LInv, DiesOnlyOutside, [Next]_vars
      PROVE  LInv' /\ DiesOnlyOutside'
  <2>1. CInv
    BY <1>3 DEF LInv
  <2>2. IInv'
    BY <1>3, <2>1, Steps DEF CInv
  <2>3. Cached' /\ SeqBudget' /\ SomethingDrafted' /\ (cause' = cause \/ cause' \in {"rpc", "max_len"})
    <3>1. CASE GrowLevel
      <4>1. Cached' /\ (cause' = cause \/ cause' \in {"max_len", "seqs"})
        BY <2>1, <3>1, GrowLevelCached
      <4>2. /\ SeqBudget' /\ SomethingDrafted'
            /\ cause' # "seqs" \/ cause' = cause
        BY <1>1, <1>3, <3>1, GrowLevelLives
      <4> QED
        BY <4>1, <4>2
    <3>2. CASE GrowDone
      BY <1>3, <2>1, <3>2, GrowDoneCached, GrowDoneLives
    <3>3. CASE ChooseBet
      BY <1>3, <2>1, <3>3, ChooseBetCached, ChooseBetLives
    <3>4. CASE DraftLevel
      BY <1>3, <2>1, <3>4, DraftLevelCached, DraftLevelLives
    <3>5. CASE AcceptHit
      BY <1>3, <2>1, <3>5, AcceptHitCached, AcceptHitLives
    <3>6. CASE AcceptMiss
      BY <1>3, <2>1, <3>6, AcceptMissCached, AcceptMissLives
    <3>7. CASE StartValidate \/ ServerAnswer \/ OracleAnswer \/ ServerFail \/ JoinFailed \/ UNCHANGED vars
      <4>1. Cached'
        BY <2>1, <3>7, PlainStepCached
      <4>2. SeqBudget' /\ SomethingDrafted' /\ (cause' = cause \/ cause' = "rpc")
        BY <1>3, <3>7, PlainStepLives
      <4> QED
        BY <4>1, <4>2
    <3> QED
      BY <1>3, <3>1, <3>2, <3>3, <3>4, <3>5, <3>6, <3>7 DEF Next, Finished
  <2>4. LInv'
    BY <2>2, <2>3 DEF LInv, CInv
  <2> QED
    BY <1>3, <2>3, <2>4 DEF DiesOnlyOutside
<1> QED
  BY <1>2, <1>3, PTL DEF Spec

=============================================================================
