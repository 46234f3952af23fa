---------------------------- MODULE MCVaultStore ----------------------------
(***************************************************************************)
(* VaultStore on a small instance.  Users and items are interchangeable.   *)
(***************************************************************************)
EXTENDS VaultStore, TLC

Symmetry == Permutations(Users) \cup Permutations(Items)
=============================================================================
