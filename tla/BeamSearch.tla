----------------------------- MODULE BeamSearch -----------------------------
(***************************************************************************)
(* What one level of tree drafting is made of, for the main draft          *)
(* (SpecExecClient::GrowTree) and for the proactive one                    *)
(* (ProactiveDraft::Draft): choosing the beams, scoring their children,    *)
(* cutting them to the budget, and giving each child a llama.cpp sequence  *)
(* from the client's pool.                                                 *)
(*                                                                         *)
(* A score is an integer, 0 at the root of a draft; a child scores its     *)
(* parent's score less a positive cost (the decay and the log-probability  *)
(* are both added, and the decay is below zero).                           *)
(***************************************************************************)
EXTENDS DraftTree, KvCache

CONSTANTS Tok,       \* the vocabulary, a set of positive naturals
          DraftTok,  \* bound: the tokens the draft model proposes
          Costs,     \* what a child may lose against its parent
          Width      \* max_branch_width, the engine's draft_top_k

ASSUME BeamAssumption ==
  /\ Tok \subseteq Nat \ {0}
  /\ DraftTok \subseteq Tok
  /\ Costs \subseteq Nat \ {0} /\ Costs # {}
  /\ Width \in 1 .. Cardinality(DraftTok)

\* What forward_batch_topk may return for a row: the Width best tokens, best
\* first, ties on the lower token id.
TopKRows ==
  {r \in [1 .. Width -> [tok : DraftTok, cost : Costs]] :
     \A i, j \in 1 .. Width : i < j =>
       \/ r[i].cost < r[j].cost /\ r[i].tok # r[j].tok
       \/ r[i].cost = r[j].cost /\ r[i].tok < r[j].tok}

\* The first n of the slots S in a stable sort by descending score; being a
\* set, they are back in slot order.
Ahead(t, i, j) == \/ t.node[i].lp > t.node[j].lp
                  \/ t.node[i].lp = t.node[j].lp /\ i < j

TopBeams(t, S, n) ==
  {i \in S : Cardinality({j \in S : Ahead(t, j, i)}) < n}

WithStatus(t, S, status) == {i \in S : t.node[i].st = status}

\* The batch that decodes the slots C, each on its own sequence.
RowsOf(t, C) ==
  [s \in {t.node[c].seq : c \in C} |->
     LET c == CHOOSE d \in C : t.node[d].seq = s
     IN Cell(t.node[c].pos, t.node[c].tok)]

\* The path of cells from the root to the parent of a slot, by its mask row.
PathTo(t, slot) ==
  {Cell(t.node[c].pos, t.node[c].tok) : c \in t.mask[slot] \ {slot}}

-----------------------------------------------------------------------------
\* The children of the beams C are numbered b * w + k as in flat_ids and
\* flat_scores; top[c] is the row of beam c, of which the first w are used.
Flats(C, w)         == 0 .. Cardinality(C) * w - 1
BeamOf(C, w, f)     == Nth(C, f \div w)
FlatTok(C, w, top, f) == top[BeamOf(C, w, f)][1 + (f % w)].tok
FlatScore(t, C, w, top, f) ==
  t.node[BeamOf(C, w, f)].lp - top[BeamOf(C, w, f)][1 + (f % w)].cost

\* How many of the drafted nodes and the new children score above v.
Better(t, C, w, top, v) ==
  Cardinality({i \in Drafted(t) : t.node[i].lp > v})
    + Cardinality({g \in Flats(C, w) : FlatScore(t, C, w, top, g) > v})

\* The children that score at least the k-th best of the joint list, ties
\* included.
InBudget(t, C, w, top, k) ==
  {f \in Flats(C, w) :
     Better(t, C, w, top, FlatScore(t, C, w, top, f)) < k}

\* The best n of the children `keep', stable on the flat index.
BestFlats(t, C, w, top, keep, n) ==
  LET sc(f) == FlatScore(t, C, w, top, f)
  IN {f \in keep :
        Cardinality({g \in keep : \/ sc(g) > sc(f)
                                  \/ sc(g) = sc(f) /\ g < f}) < n}

-----------------------------------------------------------------------------
\* The pool of sequence ids: those in use and the cursor of the cyclic search.
Pool == [used : SUBSET Seqs, cursor : Seqs]

\* RebuildSeqPool
PoolOf(t) ==
  [used   |-> {0} \cup {t.node[i].seq : i \in Live(t)},
   cursor |-> 1 % MaxSeqs]

FreeSeqs(pool) == Seqs \ (pool.used \cup {0})

\* AllocSeq, called n times in a row: the k-th call (from 0) returns the k-th
\* free id in cyclic order from the cursor.
AllocNth(pool, k) ==
  LET free  == FreeSeqs(pool)
      ahead == {s \in free : s >= pool.cursor}
      n     == Cardinality(ahead)
  IN IF k < n THEN Nth(ahead, k) ELSE Nth(free \ ahead, k - n)

AllocPastEnd(pool, n) ==                 \* mutant: the cursor does not wrap
  IF n = 0 THEN pool
  ELSE [used   |-> pool.used \cup {AllocNth(pool, k) : k \in 0 .. n - 1},
        cursor |-> AllocNth(pool, n - 1) + 1]

AfterAlloc(pool, n) ==
  IF n = 0 THEN pool
  ELSE [used   |-> pool.used \cup {AllocNth(pool, k) : k \in 0 .. n - 1},
        cursor |-> (AllocNth(pool, n - 1) + 1) % MaxSeqs]

\* The first kept child of a beam inherits the beam's sequence, every other
\* one forks a fresh sequence off it before any child is decoded.
Forks(C, w, keep) ==
  {f \in keep : \E g \in keep : g < f /\ BeamOf(C, w, g) = BeamOf(C, w, f)}

ChildSeq(t, pool, C, w, keep, f) ==
  IF f \in Forks(C, w, keep)
  THEN AllocNth(pool, Rank(Forks(C, w, keep), f))
  ELSE t.node[BeamOf(C, w, f)].seq

Children(t, pool, C, w, top, keep, status) ==
  [k \in 1 .. Cardinality(keep) |->
     LET f == Nth(keep, k - 1)
         p == BeamOf(C, w, f)
     IN [tok |-> FlatTok(C, w, top, f),
         pos |-> t.node[p].pos + 1,
         par |-> p,
         st  |-> status,
         lp  |-> FlatScore(t, C, w, top, f),
         seq |-> ChildSeq(t, pool, C, w, keep, f)]]

\* The seq_cp of each fork.
ForkWithoutCopy(kv, t, pool, C, w, keep) == kv   \* mutant: no seq_cp

ForkCache(kv, t, pool, C, w, keep) ==
  LET forks     == Forks(C, w, keep)
      fresh(f)  == AllocNth(pool, Rank(forks, f))
      parent(s) == t.node[BeamOf(C, w, CHOOSE f \in forks : fresh(f) = s)].seq
  IN [s \in DOMAIN kv |-> IF s \in {fresh(f) : f \in forks}
                           THEN kv[s] \cup kv[parent(s)] ELSE kv[s]]
=============================================================================
