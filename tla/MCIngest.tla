------------------------------ MODULE MCIngest ------------------------------
(***************************************************************************)
(* Small instances of the media pipeline.  Lease tokens are interchangeable*)
(* and so are job rows; symmetry is used for the safety runs only.         *)
(***************************************************************************)
EXTENDS Ingest, TLC

Symmetry == Permutations(Leases) \cup Permutations(Jobs)
=============================================================================
