----------------------------- MODULE MCAccounts -----------------------------
(***************************************************************************)
(* Accounts on small instances.  Rows of one table are interchangeable.    *)
(***************************************************************************)
EXTENDS Accounts, TLC

Symmetry ==
    UNION {Permutations(S) :
              S \in {Users, Invites, Sessions, RecoveryTokens, Requests}}
=============================================================================
