---------------------------- MODULE MCItemEditing ----------------------------
(* Small instances of ItemEditing for TLC. *)
EXTENDS ItemEditing
=============================================================================
