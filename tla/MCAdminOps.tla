----------------------------- MODULE MCAdminOps -----------------------------
(* Instances of AdminOps for TLC. *)
EXTENDS AdminOps, TLC

Permutation == Permutations(Threads)
=============================================================================
