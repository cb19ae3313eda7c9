----------------------------- MODULE MCAccounts -----------------------------
(* Accounts checked by TLC. *)
EXTENDS Accounts
=============================================================================
