------------------------------- MODULE MCChat -------------------------------
(***************************************************************************)
(* An instance of Chat: a member with two tabs who may write through both; *)
(* the delivery of one is followed from the room to the browser.           *)
(***************************************************************************)
EXTENDS Chat

CONSTANTS Guest, tab, other

MCUserOf == [t \in {tab, other} |-> Guest]
=============================================================================
