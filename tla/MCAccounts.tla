----------------------------- MODULE MCAccounts -----------------------------
(***************************************************************************)
(* One instance, one request and one call of each kind at a time.          *)
(***************************************************************************)
EXTENDS Accounts
=============================================================================
