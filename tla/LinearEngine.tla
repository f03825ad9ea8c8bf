---------------------------- MODULE LinearEngine ----------------------------
(***************************************************************************)
(* The draft engine in linear mode (max_seqs = 1, src/src/graph_engine.cpp)*)
(* and the chain its caller drafts: forward() decodes one token at the end *)
(* of the sequence, gather() truncates it to the accepted prefix, and the  *)
(* last drafted token, which no forward() has decoded, is reconstructed    *)
(* from the engine's memory of its own prediction when it is accepted.     *)
(*                                                                         *)
(* The caller is modelled from the contract in graph_engine.h: it appends  *)
(* the argmax of the logits to its chain, decodes the chain in order, and  *)
(* after a verification keeps an accepted prefix and appends the target's  *)
(* bonus token.  It may verify at any moment; what the engine cannot       *)
(* follow, the engine must refuse.                                         *)
(***************************************************************************)
EXTENDS Integers, Sequences, FiniteSets

CONSTANTS Tok,        \* the vocabulary
          MaxLen      \* max_len_, also the number of cells of the context

ASSUME LinearAssumption ==
  /\ Tok # {}
  /\ MaxLen \in Nat \ {0}

VARIABLES
  recurrent,  \* recurrent_, a property of the loaded model
  cells,      \* the tokens whose cells sequence 0 holds, by position
  seqLen,     \* seq_len_
  predicted,  \* predicted_: {} or {<<position, token>>}
  chain,      \* the caller's tokens: the verified ones, then the drafted ones
  verified    \* how many of them are verified

vars == <<recurrent, cells, seqLen, predicted, chain, verified>>

Init ==
  /\ recurrent \in BOOLEAN
  /\ cells = <<>>
  /\ seqLen = 0
  /\ predicted = {}
  /\ chain = <<>>
  /\ verified = 0

\* prefill: the slot is emptied, then all but the last prompt token are decoded
\* in one batch (n_batch is max_len).
Prefill ==
  /\ \E n \in 1 .. MaxLen : \E prompt \in [1 .. n -> Tok] :
       /\ cells' = SubSeq(prompt, 1, n - 1)
       /\ seqLen' = n - 1
       /\ chain' = prompt
       /\ verified' = n
  /\ predicted' = {}
  /\ UNCHANGED recurrent

\* The batch of the prompt fails: the slot was already emptied.
PrefillFails ==
  /\ cells' = <<>>
  /\ seqLen' = 0
  /\ predicted' = {}
  /\ chain' = <<>>
  /\ verified' = 0
  /\ UNCHANGED recurrent

\* forward: the token at the end of the sequence, then the argmax is remembered
\* with its position and the caller appends it.  Throws, changing nothing, when
\* the position is not the next one or no cell is left.
ForwardKeepsOld ==                       \* mutant: the prediction is made once
  /\ seqLen = Len(chain) - 1
  /\ Len(cells) < MaxLen
  /\ \E best \in Tok :
       /\ cells' = Append(cells, chain[seqLen + 1])
       /\ seqLen' = seqLen + 1
       /\ predicted' = IF predicted = {} THEN {<<seqLen + 1, best>>} ELSE predicted
       /\ chain' = Append(chain, best)
  /\ UNCHANGED <<recurrent, verified>>

Forward ==
  /\ seqLen = Len(chain) - 1
  /\ Len(cells) < MaxLen
  /\ \E best \in Tok :
       /\ cells' = Append(cells, chain[seqLen + 1])
       /\ seqLen' = seqLen + 1
       /\ predicted' = {<<seqLen + 1, best>>}
       /\ chain' = Append(chain, best)
  /\ UNCHANGED <<recurrent, verified>>

\* backfill can reconstruct one token, the one it predicted for the end of the
\* sequence.
BackfillOk(need) ==
  /\ need - seqLen = 1
  /\ \E p \in predicted : p[1] = seqLen
  /\ Len(cells) < MaxLen

GatherOk(n) ==
  \/ n = seqLen
  \/ n > seqLen /\ BackfillOk(n)
  \/ n < seqLen /\ ~recurrent

\* gather of the first n > 0 cells, after which the caller's chain is those n
\* tokens and the bonus token.
GatherKeepsPrediction(n) ==              \* mutant: predicted_ is not reset
  /\ GatherOk(n)
  /\ cells' = IF n > seqLen
              THEN Append(cells, (CHOOSE p \in predicted : TRUE)[2])
              ELSE SubSeq(cells, 1, n)
  /\ seqLen' = n
  /\ UNCHANGED predicted

Gather(n) ==
  /\ GatherOk(n)
  /\ cells' = IF n > seqLen
              THEN Append(cells, (CHOOSE p \in predicted : TRUE)[2])
              ELSE SubSeq(cells, 1, n)
  /\ seqLen' = n
  /\ predicted' = {}

Verify ==
  \E n \in verified .. Len(chain), bonus \in Tok :
    /\ n > 0
    /\ Gather(n)
    /\ chain' = Append(SubSeq(chain, 1, n), bonus)
    /\ verified' = n + 1
    /\ UNCHANGED recurrent

\* gather of nothing, or reset: the sequence is dropped.
Drop ==
  /\ cells' = <<>>
  /\ seqLen' = 0
  /\ predicted' = {}
  /\ chain' = <<>>
  /\ verified' = 0
  /\ UNCHANGED recurrent

Next == Prefill \/ PrefillFails \/ Forward \/ Verify \/ Drop

Spec == Init /\ [][Next]_vars

-----------------------------------------------------------------------------
(* Properties *)

\* The engine's cache is always the beginning of the caller's chain, seq_len_
\* cells long and at most one token short of what is verified, whichever
\* prefix was accepted and whatever was predicted before.
CellsSpellChain ==
  /\ Len(cells) = seqLen
  /\ seqLen <= Len(chain)
  /\ \A k \in 1 .. seqLen : cells[k] = chain[k]
  /\ chain # <<>> => verified - 1 <= seqLen

\* Once the caller has decoded a token of the round, every accepted prefix it
\* can come back with is one gather() can keep, the whole chain included; only
\* a recurrent model refuses to drop decoded tokens, and only a full context to
\* reconstruct the last one.
AcceptanceFits ==
  \A n \in verified .. Len(chain) :
    seqLen >= verified /\ (~recurrent \/ n >= seqLen) /\ seqLen < MaxLen => GatherOk(n)
=============================================================================
