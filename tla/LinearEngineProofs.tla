------------------------- MODULE LinearEngineProofs -------------------------
(***************************************************************************)
(* Safety of the linear engine for any vocabulary, any max_len and a chain *)
(* drafted and verified in any order.                                      *)
(*                                                                         *)
(* CellsSpellChain alone is not inductive: when the whole chain is accepted*)
(* gather() appends a token the engine has never decoded, read from        *)
(* predicted_.  IInv says what predicted_ is worth: it is either empty, and*)
(* then no drafted token is outstanding, or the one token of the chain that*)
(* has no cell yet, filed under the position it would have.                *)
(***************************************************************************)
EXTENDS LinearEngine, SequenceTheorems, TLAPS

LinearTypes ==
  /\ cells \in Seq(Tok)
  /\ chain \in Seq(Tok)
  /\ seqLen \in Nat
  /\ verified \in Nat

\* The caller is one token ahead of the cache, or has nothing.
OneAhead ==
  /\ Len(cells) = seqLen
  /\ Len(chain) = IF chain = <<>> THEN 0 ELSE seqLen + 1
  /\ chain = <<>> => seqLen = 0 /\ verified = 0
  /\ chain # <<>> => verified \in 1 .. Len(chain)
  /\ \A k \in 1 .. seqLen : cells[k] = chain[k]

PredictionIsTip ==
  \/ predicted = {} /\ verified = Len(chain)
  \/ chain # <<>> /\ predicted = {<<seqLen, chain[seqLen + 1]>>}

IInv == LinearTypes /\ OneAhead /\ PredictionIsTip

-----------------------------------------------------------------------------
\* IInv holds when the engine is built.
LEMMA InitIInv == Init => IInv
BY EmptySeq DEF Init, IInv, LinearTypes, OneAhead, PredictionIsTip

\* Whatever empties the sequence, a failed prefill, a reset or a gather of
\* nothing, leaves an engine as it was built.
LEMMA EmptiedIInv == IInv /\ (PrefillFails \/ Drop) => IInv'
<1> SUFFICES ASSUME PrefillFails \/ Drop PROVE IInv'
  OBVIOUS
<1>1. cells' = <<>> /\ chain' = <<>> /\ seqLen' = 0 /\ verified' = 0 /\ predicted' = {}
  BY DEF PrefillFails, Drop
<1>2. <<>> \in Seq(Tok) /\ Len(<<>>) = 0
  BY EmptySeq
<1> QED
  BY <1>1, <1>2 DEF IInv, LinearTypes, OneAhead, PredictionIsTip

\* The prompt but its last token is decoded.
LEMMA PrefillIInv == IInv /\ Prefill => IInv'
<1> SUFFICES ASSUME IInv, Prefill PROVE IInv'
  OBVIOUS
<1>n. PICK n \in 1 .. MaxLen : \E prompt \in [1 .. n -> Tok] :
        /\ cells' = SubSeq(prompt, 1, n - 1)
        /\ seqLen' = n - 1
        /\ chain' = prompt
        /\ verified' = n
  BY DEF Prefill
<1>p. PICK prompt \in [1 .. n -> Tok] :
        /\ cells' = SubSeq(prompt, 1, n - 1)
        /\ seqLen' = n - 1
        /\ chain' = prompt
        /\ verified' = n
  BY <1>n
<1>1. predicted' = {} /\ recurrent' = recurrent
  BY DEF Prefill
<1>2. n \in Nat \ {0} /\ n - 1 \in Nat
  BY LinearAssumption
<1>3. prompt \in Seq(Tok) /\ Len(prompt) = n
  BY <1>2, SeqDef
<1>4. /\ cells' \in Seq(Tok)
      /\ Len(cells') = n - 1
      /\ \A k \in 1 .. n - 1 : cells'[k] = prompt[k]
  BY <1>p, <1>2, SubSeqProperties
<1> QED
  BY <1>p, <1>1, <1>2, <1>3, <1>4 DEF IInv, LinearTypes, OneAhead, PredictionIsTip

\* forward() decodes the one token that has no cell and remembers its argmax.
LEMMA ForwardIInv == IInv /\ Forward => IInv'
<1> SUFFICES ASSUME IInv, Forward PROVE IInv'
  OBVIOUS
<1> USE DEF IInv
<1>1. PICK best \in Tok :
        /\ cells' = Append(cells, chain[seqLen + 1])
        /\ seqLen' = seqLen + 1
        /\ predicted' = {<<seqLen + 1, best>>}
        /\ chain' = Append(chain, best)
        /\ UNCHANGED <<recurrent, verified>>
  BY DEF Forward
<1>2. chain # <<>> /\ Len(chain) = seqLen + 1 /\ seqLen + 1 \in 1 .. Len(chain)
  BY EmptySeq DEF Forward, LinearTypes, OneAhead
<1>3. chain[seqLen + 1] \in Tok
  BY <1>2, ElementOfSeq DEF LinearTypes
<1>4. /\ cells' \in Seq(Tok)
      /\ Len(cells') = seqLen + 1
      /\ \A k \in 1 .. seqLen : cells'[k] = cells[k]
      /\ cells'[seqLen + 1] = chain[seqLen + 1]
  BY <1>1, <1>3, AppendProperties DEF LinearTypes, OneAhead
<1>5. /\ chain' \in Seq(Tok)
      /\ chain' # <<>>
      /\ Len(chain') = seqLen + 2
      /\ \A k \in 1 .. seqLen + 1 : chain'[k] = chain[k]
      /\ chain'[seqLen + 2] = best
  BY <1>1, <1>2, AppendProperties DEF LinearTypes
<1>6. LinearTypes'
  BY <1>1, <1>4, <1>5 DEF LinearTypes
<1>7. OneAhead'
  BY <1>1, <1>2, <1>4, <1>5 DEF LinearTypes, OneAhead
<1>8. PredictionIsTip'
  BY <1>1, <1>5 DEF LinearTypes, PredictionIsTip
<1> QED
  BY <1>6, <1>7, <1>8

\* gather() keeps the accepted prefix, reconstructing its last token if that
\* one was never decoded, and the caller appends the bonus token.
LEMMA VerifyIInv == IInv /\ Verify => IInv'
<1> SUFFICES ASSUME IInv, Verify PROVE IInv'
  OBVIOUS
<1> USE DEF IInv
<1>1. PICK n \in verified .. Len(chain), bonus \in Tok :
        /\ n > 0
        /\ Gather(n)
        /\ chain' = Append(SubSeq(chain, 1, n), bonus)
        /\ verified' = n + 1
        /\ UNCHANGED recurrent
  BY DEF Verify
<1>2. n \in 1 .. Len(chain) /\ chain # <<>> /\ Len(chain) = seqLen + 1
  BY <1>1, EmptySeq DEF LinearTypes, OneAhead
<1>3. /\ SubSeq(chain, 1, n) \in Seq(Tok)
      /\ Len(SubSeq(chain, 1, n)) = n
      /\ \A k \in 1 .. n : SubSeq(chain, 1, n)[k] = chain[k]
  <2>1. \A k \in 1 .. n : chain[k] \in Tok
    BY <1>2, ElementOfSeq DEF LinearTypes
  <2> QED
    BY <1>2, <2>1, SubSeqProperties DEF LinearTypes
<1>4. /\ chain' \in Seq(Tok)
      /\ chain' # <<>>
      /\ Len(chain') = n + 1
      /\ \A k \in 1 .. n : chain'[k] = chain[k]
  BY <1>1, <1>2, <1>3, AppendProperties DEF LinearTypes
<1>5. /\ cells' \in Seq(Tok)
      /\ Len(cells') = n
      /\ \A k \in 1 .. n : cells'[k] = chain[k]
  <2>1. CASE n > seqLen
    <3>0. n = seqLen + 1
      BY <2>1, <1>2 DEF LinearTypes
    <3>1. predicted = {<<seqLen, chain[seqLen + 1]>>}
      <4>1. BackfillOk(n)
        BY <2>1, <3>0, <1>1 DEF LinearTypes, Gather, GatherOk
      <4>2. predicted # {}
        BY <4>1 DEF BackfillOk
      <4> QED
        BY <4>2 DEF PredictionIsTip
    <3>2. (CHOOSE p \in predicted : TRUE)[2] = chain[n]
      <4>1. (CHOOSE p \in predicted : TRUE) = <<seqLen, chain[seqLen + 1]>>
        BY <3>1, Zenon
      <4>2. <<seqLen, chain[seqLen + 1]>>[2] = chain[n]
        BY <3>0
      <4> QED
        BY <4>1, <4>2, Zenon
    <3>3. cells' = Append(cells, chain[n]) /\ chain[n] \in Tok
      BY <2>1, <3>0, <3>2, <1>1, <1>2, ElementOfSeq DEF Gather, LinearTypes
    <3> QED
      BY <3>0, <3>3, AppendProperties DEF LinearTypes, OneAhead
  <2>2. CASE n <= seqLen
    <3>1. cells' = SubSeq(cells, 1, n)
      BY <2>2, <1>1, <1>2 DEF Gather, LinearTypes
    <3>2. \A k \in 1 .. n : cells[k] \in Tok /\ cells[k] = chain[k]
      BY <2>2, <1>2, ElementOfSeq DEF LinearTypes, OneAhead
    <3> QED
      BY <1>2, <3>1, <3>2, SubSeqProperties DEF LinearTypes
  <2> QED
    BY <2>1, <2>2, <1>2 DEF LinearTypes
<1>6. seqLen' = n /\ predicted' = {}
  BY <1>1 DEF Gather
<1>7. LinearTypes'
  BY <1>1, <1>2, <1>4, <1>5, <1>6 DEF LinearTypes
<1>8. OneAhead'
  <2>1. n + 1 \in 1 .. Len(chain') /\ n \in Nat
    BY <1>2, <1>4
  <2> QED
    BY <1>1, <1>4, <1>5, <1>6, <2>1 DEF OneAhead
<1>9. PredictionIsTip'
  BY <1>1, <1>4, <1>6 DEF PredictionIsTip
<1> QED
  BY <1>7, <1>8, <1>9

\* IInv is inductive.
LEMMA NextIInv == IInv /\ [Next]_vars => IInv'
<1>1. IInv /\ UNCHANGED vars => IInv'
  BY DEF IInv, vars, LinearTypes, OneAhead, PredictionIsTip
<1> QED
  BY <1>1, EmptiedIInv, PrefillIInv, ForwardIInv, VerifyIInv DEF Next

\* The inductive invariant always holds of the engine and its caller.
LEMMA AlwaysIInv == Spec => []IInv
BY InitIInv, NextIInv, PTL DEF Spec

-----------------------------------------------------------------------------
\* The cache is the beginning of the caller's chain at all times: gather() never
\* leaves a token in it that the caller did not keep, and the token it
\* reconstructs is the accepted one.
THEOREM CacheSpellsChain == Spec => []CellsSpellChain
<1>1. IInv => CellsSpellChain
  <2> SUFFICES ASSUME IInv PROVE CellsSpellChain
    OBVIOUS
  <2> QED
    BY EmptySeq DEF IInv, LinearTypes, OneAhead, CellsSpellChain
<1> QED
  BY <1>1, AlwaysIInv, PTL

\* gather() refuses no accepted prefix of a chain the caller has begun to
\* decode, other than those a recurrent model or a full context forbids.
THEOREM EveryAcceptanceFits == Spec => []AcceptanceFits
<1>1. IInv => AcceptanceFits
  <2> SUFFICES ASSUME IInv, NEW n \in verified .. Len(chain),
                      seqLen >= verified, ~recurrent \/ n >= seqLen, seqLen < MaxLen
               PROVE  GatherOk(n)
    BY DEF AcceptanceFits
  <2> USE DEF IInv
  <2>0. CASE chain = <<>>
    <3>1. n = seqLen
      BY <2>0, EmptySeq DEF LinearTypes, OneAhead
    <3> QED
      BY <3>1 DEF GatherOk
  <2> SUFFICES ASSUME chain # <<>> PROVE GatherOk(n)
    BY <2>0
  <2>1. Len(chain) = seqLen + 1 /\ Len(cells) = seqLen /\ n \in Nat
    BY DEF LinearTypes, OneAhead
  <2>2. predicted = {<<seqLen, chain[seqLen + 1]>>}
    <3>1. verified # Len(chain)
      BY <2>1 DEF LinearTypes
    <3> QED
      BY <3>1 DEF PredictionIsTip
  <2>3. \E p \in predicted : p[1] = seqLen
    BY <2>2
  <2> QED
    BY <2>1, <2>3 DEF GatherOk, BackfillOk, LinearTypes
<1> QED
  BY <1>1, AlwaysIInv, PTL
=============================================================================
