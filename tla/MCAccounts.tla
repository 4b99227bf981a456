----------------------------- MODULE MCAccounts -----------------------------
(* Accounts for TLC: requests and tokens are interchangeable. *)
EXTENDS Accounts, TLC

AccountSymmetry == Permutations(Requests) \cup Permutations(Tokens)
=============================================================================
