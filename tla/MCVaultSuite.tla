---------------------------- MODULE MCVaultSuite ----------------------------
(* Instances of VaultSuite for TLC. *)
EXTENDS VaultSuite
=============================================================================
