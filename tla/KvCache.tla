------------------------------- MODULE KvCache -------------------------------
(***************************************************************************)
(* The draft engine's key/value cache in tree mode: the sequence operations*)
(* of LlamaCppEngine (src/src/graph_engine.cpp) over llama.cpp's unified   *)
(* cache.                                                                  *)
(*                                                                         *)
(* A cache maps each sequence id to the cells it tags; a cell is known by  *)
(* its position and token.  seq_cp only adds tags, and llama_decode rejects*)
(* a whole batch when some row does not extend its sequence by one.  A     *)
(* recurrent model keeps one more sequence, the committed state, that no   *)
(* draft branch writes, because a recurrent state cannot be truncated.     *)
(***************************************************************************)
EXTENDS Integers, FiniteSets, Sequences

CONSTANTS MaxSeqs,    \* LlamaCppEngine::max_seqs_
          Recurrent   \* LlamaCppEngine::recurrent_

ASSUME SeqsAssumption == MaxSeqs \in Nat \ {0, 1} /\ Recurrent \in BOOLEAN

Seqs         == 0 .. MaxSeqs - 1
CommittedSeq == MaxSeqs

\* A cell.  A path is a sequence of cells.
Cell(pos, tok) == <<pos, tok>>
CellsOf(path)  == {path[k] : k \in DOMAIN path}

EmptyCache == [s \in Seqs \cup {CommittedSeq} |-> {}]

SeqPosMax(kv, s) ==
  IF kv[s] = {} THEN -1
  ELSE (CHOOSE c \in kv[s] : \A d \in kv[s] : d[1] <= c[1])[1]

\* llama_memory_seq_cp and llama_memory_seq_rm (from position p0 to the end).
SeqCp(kv, src, dst) == [kv EXCEPT ![dst] = @ \cup kv[src]]
SeqRm(kv, s, p0)    == [kv EXCEPT ![s] = {c \in @ : c[1] < p0}]

\* llama_decode of one batch with at most one row per sequence: rows maps
\* sequence ids to cells.
Extends(kv, s, pos) == kv[s] = {} \/ pos = SeqPosMax(kv, s) + 1

DecodeOk(kv, rows) == \A s \in DOMAIN rows : Extends(kv, s, rows[s][1])

Decode(kv, rows) ==
  [s \in DOMAIN kv |-> IF s \in DOMAIN rows THEN kv[s] \cup {rows[s]} ELSE kv[s]]

\* llama_decode of a batch of consecutive positions of one sequence.
DecodePathOk(kv, s, path) ==
  /\ path # <<>> => Extends(kv, s, path[1][1])
  /\ \A k \in DOMAIN path : k > 1 => path[k][1] = path[k - 1][1] + 1

DecodePath(kv, s, path) == [kv EXCEPT ![s] = @ \cup CellsOf(path)]

-----------------------------------------------------------------------------
\* prefill: the slot a finished request vacated is emptied, then the prompt
\* but its last token is decoded -- onto the committed sequence of a
\* recurrent model, which seq 0 then shares.
Prefill(kv, path) ==
  IF Recurrent
  THEN [kv EXCEPT ![CommittedSeq] = CellsOf(path), ![0] = CellsOf(path)]
  ELSE [kv EXCEPT ![0] = CellsOf(path)]

\* collapse_to_seq: cut the kept sequence after lastPos, free every cell that
\* is not on it, and retag the survivors onto seq 0.
CollapseOneLate(kv, keep, lastPos) ==    \* mutant: cuts one position too late
  [s \in DOMAIN kv |-> IF s = 0 THEN SeqRm(kv, keep, lastPos + 2)[keep]
                                ELSE {}]

CollapseToSeq(kv, keep, lastPos) ==
  [s \in DOMAIN kv |-> IF s = 0 THEN SeqRm(kv, keep, lastPos + 1)[keep]
                                ELSE {}]

\* collapse_to_seqs: drop the tags of every sequence outside the keep set; the
\* hidden committed sequence is not among the ones it looks at.
CollapseKeepsAll(kv, keep) == kv         \* mutant: losing tags stay

CollapseToSeqs(kv, keep) ==
  [s \in DOMAIN kv |-> IF s \in Seqs \ keep THEN {} ELSE kv[s]]

\* advance_committed: walk the committed sequence of a recurrent model over
\* seed..tip.
AdvanceCommittedOk(kv, path) == DecodePathOk(kv, CommittedSeq, path)
AdvanceForgotten(kv, path)   == kv       \* mutant: the state is left behind
AdvanceCommitted(kv, path)   == DecodePath(kv, CommittedSeq, path)

\* accept_path: the committed path becomes seq 0.  An attention-only model
\* keeps the winning branch and redoes the tip alone; a recurrent one drops
\* every branch and decodes seed..tip onto the committed sequence.
DroppedBranches(kv) == [s \in DOMAIN kv |-> IF s \in Seqs THEN {} ELSE kv[s]]

AcceptPathOk(kv, keep, path) ==
  LET tip == path[Len(path)]
  IN IF Recurrent THEN AdvanceCommittedOk(DroppedBranches(kv), path)
     ELSE Extends(CollapseToSeq(kv, keep, tip[1] - 1), 0, tip[1])

AcceptPath(kv, keep, path) ==
  LET tip == path[Len(path)]
  IN IF Recurrent
     THEN SeqCp(AdvanceCommitted(DroppedBranches(kv), path), CommittedSeq, 0)
     ELSE Decode(CollapseToSeq(kv, keep, tip[1] - 1), [s \in {0} |-> tip])
=============================================================================
