------------------------------ MODULE MCVault ------------------------------
(* Vault on a small instance: the constants are given values in the .cfg. *)
EXTENDS Vault
=============================================================================
