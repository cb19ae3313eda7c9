---------------------------- MODULE MCFederation ----------------------------
(* Federation checked by TLC. *)
EXTENDS Federation

CONSTANTS a, b, m

MCCatalogue == [r \in Remotes |-> IF r = a THEN 2 ELSE 0]
=============================================================================
