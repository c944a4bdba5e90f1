------------------------------- MODULE MCRoom -------------------------------
(***************************************************************************)
(* Instances of Room for TLC: what the items link to and which settings    *)
(* the moderators may choose.                                              *)
(***************************************************************************)
EXTENDS Room, TLC

CONSTANTS i1, i2, i3, m1, m2, v1, v2

\* Every entry is of the same video; or the first has a video of its own.
SameLink == [i \in Items |-> m1]
OwnLink == [i \in Items |-> IF i = i1 THEN m1 ELSE m2]

\* Entries of one video are alike.
ItemSymmetry == Permutations(Items)

Setting(loop, empty, wait, votes) ==
    [loop |-> loop, pauseWhenEmpty |-> empty, wait |-> wait, votes |-> votes]

QueueSettings == {Setting(l, FALSE, FALSE, FALSE) : l \in BOOLEAN}
VoteSettings == {Setting(TRUE, FALSE, FALSE, TRUE)}
WarmSettings == {Setting(l, e, FALSE, FALSE) : l, e \in BOOLEAN}
PresenceSettings == {Setting(FALSE, b, b, FALSE) : b \in BOOLEAN}
=============================================================================
