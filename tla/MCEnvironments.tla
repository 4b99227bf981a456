--------------------------- MODULE MCEnvironments ---------------------------
(* Environments for TLC: the jobs are interchangeable. *)
EXTENDS Environments, TLC

JobSymmetry == Permutations(Jobs)
=============================================================================
