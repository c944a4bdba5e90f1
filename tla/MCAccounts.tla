----------------------------- MODULE MCAccounts -----------------------------
(***************************************************************************)
(* An instance of Accounts for TLC: one device is signed in and a session  *)
(* more may be issued, with three requests in flight.                      *)
(***************************************************************************)
EXTENDS Accounts
=============================================================================
