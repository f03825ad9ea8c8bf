--------------------------- MODULE MCTopKSelect ---------------------------
(* A small instance of TopKSelect for TLC. *)
EXTENDS TopKSelect
=============================================================================
