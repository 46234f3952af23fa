------------------------------ MODULE MCUpdate -------------------------------
(* Small instances of Update for TLC. *)
EXTENDS Update
=============================================================================
