--------------------------- MODULE MCVaultCommit ---------------------------
(***************************************************************************)
(* Instances of VaultCommit for TLC.                                       *)
(***************************************************************************)
EXTENDS VaultCommit, TLC

Symmetry == Permutations(Pages)
=============================================================================
