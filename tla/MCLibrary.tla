------------------------------ MODULE MCLibrary ------------------------------
(* Two lists, three download jobs, and tracks of this and another instance. *)
EXTENDS Library, TLC

Symmetry == Permutations(Handlers) \cup Permutations(Users)
=============================================================================
