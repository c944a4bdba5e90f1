------------------------------ MODULE MCMembers ------------------------------
(***************************************************************************)
(* An instance of Members for TLC: a room with its owner, a moderator and  *)
(* somebody who is a plain member or is invited, who also watches; or the  *)
(* room before it is created.                                              *)
(***************************************************************************)
EXTENDS Members

CONSTANTS Founder, Mod, Guest

GuestWatches == [c \in Conns |-> Guest]

MCInit ==
    /\ Init
    /\ \/ /\ owner = Founder /\ role[Mod] = "moderator" /\ role[Guest] # "moderator"
          /\ link.state = "live" <=> role[Guest] = "none"
       \/ owner = Nobody

MCSpec == MCInit /\ [][Next]_vars /\ Fairness
==============================================================================
