------------------------------ MODULE MCMedia -------------------------------
(***************************************************************************)
(* Media, instantiated for TLC                                             *)
(***************************************************************************)
EXTENDS Media

=============================================================================
