----------------------------- MODULE MCHostTopK -----------------------------
(* Small instances of HostTopK for TLC. *)
EXTENDS HostTopK
=============================================================================
