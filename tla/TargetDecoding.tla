--------------------------- MODULE TargetDecoding ---------------------------
(***************************************************************************)
(* What speculative decoding promises: the output is what the target model *)
(* alone would have produced.  The target is asked about some contexts and *)
(* answers each with its next token; the output then grows by one or more  *)
(* tokens, each of them the target's answer to exactly the tokens before   *)
(* it, and a token once emitted is never taken back.                       *)
(***************************************************************************)
EXTENDS Integers, Sequences

CONSTANT Tok        \* the vocabulary

VARIABLES out,      \* the prompt followed by the emitted tokens
          answers   \* a function from contexts to the target's next token

Init ==
  /\ out \in Seq(Tok) \ {<<>>}
  /\ answers = <<>>

\* The target answers a batch of contexts, or drops the previous batch.
Answer ==
  /\ \A ctx \in DOMAIN answers' : answers'[ctx] \in Tok
  /\ UNCHANGED out

Emit ==
  /\ Len(out') > Len(out)
  /\ SubSeq(out', 1, Len(out)) = out
  /\ \A n \in Len(out) + 1 .. Len(out') :
       /\ SubSeq(out', 1, n - 1) \in DOMAIN answers
       /\ answers[SubSeq(out', 1, n - 1)] = out'[n]
  /\ answers' = <<>>

Next == Answer \/ Emit

Spec == Init /\ [][Next]_<<out, answers>>
=============================================================================
