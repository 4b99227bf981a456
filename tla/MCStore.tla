------------------------------ MODULE MCStore ------------------------------
(* Store for TLC: the ordinary users, and the jobs, are interchangeable. *)
EXTENDS Store, TLC

StoreSymmetry == Permutations(Users \ Admins) \cup Permutations(Jobs)
=============================================================================
