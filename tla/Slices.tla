------------------------------- MODULE Slices -------------------------------
(***************************************************************************)
(* What the loops over a slice that keep some of its elements compute,     *)
(* one turn of the loop after the other.                                   *)
(***************************************************************************)
EXTENDS Naturals, Sequences, SequencesExt

\* The elements of q that are in kept, in their order.
Only(q, kept) ==
    LET Upto[n \in 0..Len(q)] ==
          IF n = 0 THEN <<>>
          ELSE IF q[n] \in kept THEN Append(Upto[n - 1], q[n]) ELSE Upto[n - 1]
    IN Upto[Len(q)]

\* The elements of q that are not in gone.
Without(q, gone) == Only(q, ToSet(q) \ gone)
=============================================================================
