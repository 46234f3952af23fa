----------------------------- MODULE MCAutoLock ------------------------------
(* A small instance of AutoLock for TLC. *)
EXTENDS AutoLock
=============================================================================
