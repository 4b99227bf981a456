------------------------------ MODULE MCLogin ------------------------------
(* Login for TLC: nonces, attempts and session tokens are interchangeable. *)
EXTENDS Login, TLC

LoginSymmetry ==
    Permutations(Nonces) \cup Permutations(Attempts) \cup Permutations(Tokens)
=============================================================================
