----------------------------- MODULE MCSession -----------------------------
(* A small instance of Session for TLC: three requests in a shuffled order. *)
EXTENDS Session

WholeDataset == -1
NoLimitOrOne == {-1, 1}
Shuffled == {<<3, 1, 5>>}
=============================================================================
