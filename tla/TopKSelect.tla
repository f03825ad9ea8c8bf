----------------------------- MODULE TopKSelect -----------------------------
(***************************************************************************)
(* The scoring of one row of logits: the k best tokens and the normaliser  *)
(* of their log-probabilities, on each of the paths that compute it:       *)
(*                                                                         *)
(*   "host"      HostTopK::Work and Run (src/src/host_topk.cpp): every     *)
(*               thread keeps a heap of its chunk, then they are merged    *)
(*   "backend"   BackendApply (src/src/topk_sampler.cpp), read back and    *)
(*               sorted by forward_batch_topk (src/src/graph_engine.cpp)   *)
(*   "fallback"  SamplerApply, the sampler's host implementation           *)
(*                                                                         *)
(* The threads of "host" do not share what they write here, so their chunks*)
(* are scanned one after the other; HostTopK has their interleaving.       *)
(*                                                                         *)
(* A logit is an integer in 0 .. Top, or -1 for minus infinity, and the    *)
(* exponential has base two: sums are then exact integers once they are    *)
(* scaled by 2^Top (by 2^(2 * Top) where two factors are scaled).          *)
(***************************************************************************)
EXTENDS Integers, Sequences, FiniteSets, FiniteSetsExt, SequencesExt

CONSTANTS
  N,         \* n_vocab
  Top,       \* the largest finite logit
  Ks,        \* the values of k
  Threads,   \* the values of n_threads
  ColLimits  \* the values of fold_rows' kMaxCols

ASSUME TopKAssumption ==
  /\ {N, Top} \subseteq Nat \ {0}
  /\ Ks \subseteq 1 .. N
  /\ Threads \subseteq Nat \ {0}
  /\ ColLimits \subseteq Nat \ {0}

VARIABLES
  row,      \* the logits, by token id
  job,      \* [path, k, threads, neon, cols]
  pc,       \* what comes next
  t, i,     \* the chunk being scanned and the next id in it
  part,     \* its Partial: [top, max, sum]
  parts,    \* the Partials of the chunks already scanned
  cand,     \* the candidates in the order they were written
  z         \* the normaliser, scaled by 2^(2 * Top)

vars == <<row, job, pc, t, i, part, parts, cand, z>>

Ids == 0 .. N - 1
NegInf == -1

\* std::exp(x - max), scaled: 0 for minus infinity.
Exp(x, max) == IF x = NegInf THEN 0 ELSE 2 ^ (Top + x - max)

NoPart == [top |-> {}, max |-> NegInf, sum |-> 0]

Init ==
  /\ row \in [Ids -> {NegInf} \cup (0 .. Top)]
  /\ \E v \in Ids : row[v] # NegInf
  /\ job \in [path : {"host"}, k : Ks, threads : Threads, neon : BOOLEAN, cols : {1}]
        \cup [path : {"backend"}, k : Ks, threads : {1}, neon : {FALSE}, cols : ColLimits]
        \cup [path : {"fallback"}, k : Ks, threads : {1}, neon : {FALSE}, cols : {1}]
  /\ pc = IF job.path = "host" THEN "scan" ELSE "select"
  /\ t = 0
  /\ i = 0
  /\ part = NoPart
  /\ parts = <<>>
  /\ cand = <<>>
  /\ z = 0

-----------------------------------------------------------------------------
(* HostTopK *)

BeginFloored(c) ==               \* mutant: the chunk size is rounded down
  LET chunk == N \div job.threads
  IN IF c * chunk < N THEN c * chunk ELSE N

Begin(c) == LET chunk == (N + job.threads - 1) \div job.threads
            IN IF c * chunk < N THEN c * chunk ELSE N

End(c) == Begin(c + 1)

\* HeapLess, the order in which the heap's front is the greatest: a token is
\* before those it beats.
HeapLess(a, b) == row[a] > row[b] \/ (row[a] = row[b] /\ a < b)

Weakest(top) == CHOOSE b \in top : \A a \in top \ {b} : HeapLess(a, b)

Larger(a, b) == IF a > b THEN a ELSE b

\* scalar_step: the running maximum and the heap of the k best.
StepTakesTies(p, v) ==           \* mutant: an equal logit replaces the front
  [p EXCEPT !.max = Larger(@, row[v]),
            !.top = IF Cardinality(@) < job.k THEN @ \cup {v}
                    ELSE IF row[v] >= row[Weakest(@)] THEN (@ \ {Weakest(@)}) \cup {v} ELSE @]

ScalarStep(p, v) ==
  [p EXCEPT !.max = Larger(@, row[v]),
            !.top = IF Cardinality(@) < job.k THEN @ \cup {v}
                    ELSE IF row[v] > row[Weakest(@)] THEN (@ \ {Weakest(@)}) \cup {v} ELSE @]

FourSteps(p, v) ==
  ScalarStep(ScalarStep(ScalarStep(ScalarStep(p, v), v + 1), v + 2), v + 3)

\* Whether the four-lane loop takes the group that starts at i.
Grouped == job.neon /\ Cardinality(part.top) = job.k /\ i >= Begin(t) + job.k /\ i + 3 < End(t)

ScanOne ==
  /\ pc = "scan"
  /\ i < End(t)
  /\ ~Grouped
  /\ part' = ScalarStep(part, i)
  /\ i' = i + 1
  /\ UNCHANGED <<row, job, pc, t, parts, cand, z>>

\* Four lanes are tested against the front; if one beats it all four are stepped.
ScanFour ==
  /\ pc = "scan"
  /\ Grouped
  /\ LET lanes == i .. i + 3
         hit   == \E v \in lanes : row[v] > row[Weakest(part.top)]
     IN part' = IF hit
                THEN FourSteps(part, i)
                ELSE [part EXCEPT !.max = Larger(@, Max({row[v] : v \in lanes}))]
  /\ i' = i + 4
  /\ UNCHANGED <<row, job, pc, t, parts, cand, z>>

\* The second pass sums exp(x - max).  A chunk without a finite logit gives not
\* a number (minus infinity less itself); an empty one gives zero.
NaN == -1

ChunkSum == IF Begin(t) = End(t) THEN 0
            ELSE IF part.max = NegInf THEN NaN
            ELSE MapThenSumSet(LAMBDA v : Exp(row[v], part.max), Begin(t) .. End(t) - 1)

SumChunk ==
  /\ pc = "scan"
  /\ i = End(t)
  /\ parts' = Append(parts, [part EXCEPT !.sum = ChunkSum])
  /\ part' = NoPart
  /\ t' = t + 1
  /\ i' = Begin(t + 1)
  /\ pc' = IF t' = job.threads THEN "merge" ELSE "scan"
  /\ UNCHANGED <<row, job, cand, z>>

\* Run's merge: the chunks that count, the row's maximum and its normaliser.
Counted == {c \in DOMAIN parts : parts[c].sum > 0}

RowMax == Max({parts[c].max : c \in DOMAIN parts})

\* z relative to RowMax, then log_z = row_max + log z; not a number is infectious.
MergedZ ==
  IF RowMax = NegInf \/ \E c \in Counted : parts[c].sum = NaN THEN NaN
  ELSE 2 ^ RowMax *
       MapThenSumSet(LAMBDA c : parts[c].sum * Exp(parts[c].max, RowMax), Counted)

\* The first k of a set in the order of HeapLess: the j-th has j - 1 before it.
BestOf(S, k) ==
  [j \in 1 .. k |-> CHOOSE v \in S : Cardinality({u \in S : HeapLess(u, v)}) = j - 1]

Merge ==
  /\ pc = "merge"
  /\ z' = MergedZ
  /\ cand' = BestOf(UNION {parts[c].top : c \in DOMAIN parts}, job.k)
  /\ pc' = "done"
  /\ UNCHANGED <<row, job, t, i, part, parts>>

-----------------------------------------------------------------------------
(* The backend sampler *)

\* external: ggml_top_k returns k largest in any order.
LargestSets(k) == {S \in kSubset(k, Ids) : \A a \in S, b \in Ids \ S : row[a] >= row[b]}

\* fold_rows: the smallest power of two that divides n and makes rows of at most
\* cols columns, or one.
FoldAnyway(n, cols) ==           \* mutant: the rows need not divide the row
  Min({r \in {2 ^ e : e \in 0 .. n} : n \div r <= cols})

FoldRows(n, cols) ==
  LET fit == {r \in {2 ^ e : e \in 0 .. n} : r <= n /\ n % r = 0 /\ n \div r <= cols}
  IN IF fit = {} THEN 1 ELSE Min(fit)

\* The folded row's partial sums, then their sum; m is the largest survivor.
FoldedSum(m) ==
  LET rows == FoldRows(N, job.cols)
      cols == N \div rows
      Partial(r) == MapThenSumSet(LAMBDA v : Exp(row[v], m), r * cols .. (r + 1) * cols - 1)
  IN MapThenSumSet(Partial, 0 .. rows - 1)

BackendApply ==
  /\ pc = "select"
  /\ job.path = "backend"
  /\ \E S \in LargestSets(job.k) :
       LET m == Max({row[v] : v \in S})
       IN /\ cand' \in SetToSeqs(S)
          /\ z' = FoldedSum(m) * 2 ^ (m + Top)
  /\ pc' = "readback"
  /\ UNCHANGED <<row, job, t, i, part, parts>>

\* forward_batch_topk sorts each row by log-probability, then by id.
ReadUnsorted(s) == s             \* mutant: the sampler's order is kept

ReadSorted(s) == BestOf(ToSet(s), job.k)

Readback ==
  /\ pc = "readback"
  /\ cand' = ReadSorted(cand)
  /\ pc' = "done"
  /\ UNCHANGED <<row, job, t, i, part, parts, z>>

\* SamplerApply: the softmax over every candidate, then a partial sort by logit
\* alone.
FallbackZ(S) == MapThenSumSet(LAMBDA v : Exp(row[v], Max({row[u] : u \in Ids})), Ids)

SamplerApply ==
  /\ pc = "select"
  /\ job.path = "fallback"
  /\ \E S \in LargestSets(job.k) :
       /\ cand' \in {s \in SetToSeqs(S) : \A a, b \in DOMAIN s : a < b => row[s[a]] >= row[s[b]]}
       /\ z' = FallbackZ(S) * 2 ^ (Max({row[u] : u \in Ids}) + Top)
  /\ pc' = "done"
  /\ UNCHANGED <<row, job, t, i, part, parts>>

Done == pc = "done" /\ UNCHANGED vars

Next == ScanOne \/ ScanFour \/ SumChunk \/ Merge \/ BackendApply \/ Readback \/ SamplerApply \/ Done

Spec == Init /\ [][Next]_vars

-----------------------------------------------------------------------------
(* Properties *)

\* While a chunk is scanned, its heap holds the k best of the ids seen so far,
\* the lower id winning a tie, whether they were taken one or four at a time,
\* and its maximum is theirs.
HeapHoldsBest ==
  pc = "scan" =>
    LET seen == Begin(t) .. i - 1
        n    == IF Cardinality(seen) < job.k THEN Cardinality(seen) ELSE job.k
    IN /\ part.top = ToSet(BestOf(seen, n))
       /\ part.max = Max({row[v] : v \in seen} \cup {NegInf})

\* The host path returns the k best of the whole row in order, ties by the lower
\* id, for any number of threads, chunks left empty or without a finite logit
\* included.
HostIsExact == pc = "done" /\ job.path = "host" => cand = BestOf(Ids, job.k)

\* Every path normalises over the whole vocabulary, so scores are comparable
\* between rows and between paths: whatever was cut into chunks, folded or
\* truncated, the normaliser is the sum over all tokens.
FullVocabularyScores ==
  pc = "done" => z = 2 ^ Top * MapThenSumSet(LAMBDA v : Exp(row[v], 0), Ids)

\* On every path the row is best first: its first w entries are w best tokens,
\* which is how narrower widths and the bet read it.
PrefixesAreBest ==
  pc = "done" => \A w \in 1 .. job.k :
    \A a \in {cand[j] : j \in 1 .. w}, b \in Ids \ {cand[j] : j \in 1 .. w} : row[a] >= row[b]
=============================================================================
