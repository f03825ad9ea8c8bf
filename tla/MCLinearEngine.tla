--------------------------- MODULE MCLinearEngine ---------------------------
(* A small instance of LinearEngine for TLC. *)
EXTENDS LinearEngine
=============================================================================
