----------------------------- MODULE RoomProofs -----------------------------
(***************************************************************************)
(* Proofs about modules RoomCore and Room, for any items, media, viewers,  *)
(* settings and limits.                                                    *)
(***************************************************************************)
EXTENDS Room, SlicesProofs

-----------------------------------------------------------------------------
(***************************************************************************)
(* The queue and the history as two sequences                              *)
(***************************************************************************)

\* No item twice, and none in both.
Apart(q, p) ==
    /\ q \in Seq(Items) /\ p \in Seq(Items)
    /\ IsInjective(q) /\ IsInjective(p) /\ ToSet(q) \cap ToSet(p) = {}

\* Which is what ItemOnce says.
LEMMA ApartOnce == ASSUME NEW q, NEW p, Apart(q, p) PROVE IsInjective(q \o p)
BY ConcatInjective DEF Apart

\* The items of seq moved from the queue to the history.
LEMMA MarkedApart ==
  ASSUME NEW q, NEW p, Apart(q, p), NEW seq \in Seq(Items), IsInjective(seq)
  PROVE  /\ Apart(Without(q, ToSet(seq)), Reverse(Only(seq, ToSet(q))) \o p)
         /\ ToSet(Without(q, ToSet(seq))) = ToSet(q) \ ToSet(seq)
         /\ ToSet(Reverse(Only(seq, ToSet(q))) \o p) = (ToSet(seq) \cap ToSet(q)) \cup ToSet(p)
<1> DEFINE left == Without(q, ToSet(seq))
           took == Only(seq, ToSet(q))
           back == Reverse(took)
<1>0. q \in Seq(Items) /\ p \in Seq(Items) BY DEF Apart
<1>1. left \in Seq(Items) /\ ToSet(left) = ToSet(q) \ ToSet(seq) /\ IsInjective(left)
  BY <1>0, WithoutSet DEF Apart
<1>2. took \in Seq(Items) /\ ToSet(took) = ToSet(seq) \cap ToSet(q) BY OnlySet
<1>3. IsInjective(took) BY OnlyInjective
<1> HIDE DEF left, took
<1>4. back \in Seq(Items) /\ ToSet(back) = ToSet(took) /\ IsInjective(back) BY <1>2, <1>3, ReverseSet
<1> HIDE DEF back
<1>5. back \o p \in Seq(Items) /\ ToSet(back \o p) = ToSet(back) \cup ToSet(p) BY <1>0, <1>4, ConcatSet
<1>6. IsInjective(back \o p)
  <2>1. ToSet(back) \cap ToSet(p) = {} BY <1>2, <1>4 DEF Apart
  <2> QED BY <1>0, <1>4, <2>1, ConcatInjective DEF Apart
<1>7. Apart(left, back \o p) BY <1>1, <1>2, <1>4, <1>5, <1>6 DEF Apart
<1> QED BY <1>1, <1>2, <1>4, <1>5, <1>7 DEF left, took, back

\* The newest part of a history.
LEMMA KeptPart ==
  ASSUME NEW h \in Seq(Items)
  PROVE  Kept(h) \in Seq(Items) /\ ToSet(Kept(h)) \subseteq ToSet(h) /\ (IsInjective(h) => IsInjective(Kept(h)))
<1>1. PlayedKept \in Nat /\ 1 \in Nat BY RoomAssumption
<1>2. CASE Len(h) > PlayedKept
  <2>1. PlayedKept <= Len(h) BY <1>1, <1>2
  <2>2. Kept(h) = SubSeq(h, 1, PlayedKept) BY <1>2 DEF Kept
  <2> QED BY <1>1, <2>1, <2>2, SubSeqSet
<1>3. CASE ~(Len(h) > PlayedKept) BY <1>3 DEF Kept
<1> QED BY <1>2, <1>3

\* It keeps the items apart.
LEMMA KeptApart == ASSUME NEW q, NEW p, Apart(q, p) PROVE Apart(q, Kept(p))
BY KeptPart DEF Apart

\* Items gone from both.
LEMMA WithoutApart ==
  ASSUME NEW q, NEW p, Apart(q, p), NEW gone
  PROVE  Apart(Without(q, gone), Without(p, gone))
BY WithoutSet DEF Apart

\* The history behind the queue.
LEMMA RequeuedApart ==
  ASSUME NEW q, NEW p, Apart(q, p)
  PROVE  Apart(q \o Reverse(p), <<>>) /\ ToSet(q \o Reverse(p)) = ToSet(q) \cup ToSet(p)
<1>0. q \in Seq(Items) /\ p \in Seq(Items) BY DEF Apart
<1> DEFINE b == Reverse(p)
<1>1. b \in Seq(Items) /\ ToSet(b) = ToSet(p) /\ IsInjective(b) BY <1>0, ReverseSet DEF Apart
<1> HIDE DEF b
<1>2. q \o b \in Seq(Items) /\ ToSet(q \o b) = ToSet(q) \cup ToSet(b) BY <1>0, <1>1, ConcatSet
<1>3. IsInjective(q \o b) BY <1>0, <1>1, ConcatInjective DEF Apart
<1>4. <<>> \in Seq(Items) /\ ToSet(<<>>) = {} /\ IsInjective(<<>>) BY EmptySet
<1>5. Apart(q \o b, <<>>) BY <1>2, <1>3, <1>4 DEF Apart
<1> QED BY <1>1, <1>2, <1>5 DEF b

\* t is q in another order.
Rearranged(q, t) == t \in Seq(Items) /\ IsInjective(t) /\ ToSet(t) = ToSet(q)

\* Which keeps the items apart.
LEMMA RearrangedApart ==
  ASSUME NEW q, NEW p, Apart(q, p), NEW t, Rearranged(q, t)
  PROVE  Apart(t, p)
BY DEF Apart, Rearranged

-----------------------------------------------------------------------------
(***************************************************************************)
(* What leaves the queue and what follows                                  *)
(***************************************************************************)

\* IndexOf finds the place of an item.
LEMMA IndexPlace ==
  ASSUME NEW q \in Seq(Items), NEW x
  PROVE  Place(q, x, IndexOf(q, x))
BY SelectPlace DEF IndexOf

\* What following() yields are the other items of the queue, each once.
LEMMA FollowingPart ==
  ASSUME NEW r, r.queue \in Seq(Items), IsInjective(r.queue)
  PROVE  /\ Following(r) \in Seq(Items) /\ IsInjective(Following(r))
         /\ ToSet(Following(r)) = ToSet(r.queue) \ {r.cur}
<1> DEFINE q == r.queue
           n == Len(q)
           idx == IndexOf(q, r.cur)
           behind == SubSeq(q, idx + 1, n)
           ahead == SubSeq(q, 1, idx - 1)
<1>1. Place(q, r.cur, idx) BY IndexPlace
<1>2. n \in Nat /\ DOMAIN q = 1..n /\ q \in Seq(Items) /\ IsInjective(q) OBVIOUS
<1>3. Following(r) = (IF idx = 0 THEN q ELSE behind \o ahead) BY DEF Following
<1> HIDE DEF idx, q
<1>4. CASE idx = 0
  <2>1. r.cur \notin ToSet(q) BY <1>1, <1>4 DEF Place
  <2> QED BY <1>2, <1>3, <1>4, <2>1 DEF q
<1>5. CASE idx # 0
  <2>1. idx \in 1..n /\ q[idx] = r.cur BY <1>1, <1>2, <1>5 DEF Place
  <2>2. idx + 1 \in Nat /\ idx + 1 >= 1 /\ idx - 1 \in Nat /\ idx - 1 <= n BY <1>2, <2>1
  <2>3. behind \in Seq(Items) /\ ToSet(behind) = {q[i] : i \in idx + 1..n} /\ IsInjective(behind)
      BY <1>2, <2>2, SubSeqSet
  <2>4. ahead \in Seq(Items) /\ ToSet(ahead) = {q[i] : i \in 1..idx - 1} /\ IsInjective(ahead)
      BY <1>2, <2>2, SubSeqSet
  <2>5. \A i \in idx + 1..n, j \in 1..idx - 1 : q[i] # q[j]
    <3>1. \A i \in idx + 1..n, j \in 1..idx - 1 : i \in 1..n /\ j \in 1..n /\ i # j BY <1>2, <2>1
    <3> QED BY <3>1, <1>2 DEF IsInjective
  <2>6. ToSet(behind) \cap ToSet(ahead) = {} BY <2>3, <2>4, <2>5
  <2>7. ToSet(behind) \cup ToSet(ahead) = ToSet(q) \ {r.cur}
    <3>1. \A i \in 1..n : i = idx \/ i \in idx + 1..n \/ i \in 1..idx - 1 BY <1>2, <2>1
    <3>2. \A i \in idx + 1..n : i \in 1..n /\ q[i] # q[idx] BY <1>2, <2>1 DEF IsInjective
    <3>3. \A i \in 1..idx - 1 : i \in 1..n /\ q[i] # q[idx] BY <1>2, <2>1 DEF IsInjective
    <3>4. ToSet(q) = {q[i] : i \in 1..n} BY <1>2 DEF ToSet
    <3> HIDE DEF behind, ahead, n
    <3> QED BY <3>1, <3>2, <3>3, <3>4, <2>1, <2>3, <2>4
  <2> HIDE DEF behind, ahead
  <2>8. behind \o ahead \in Seq(Items) /\ ToSet(behind \o ahead) = ToSet(behind) \cup ToSet(ahead)
      BY <2>3, <2>4, ConcatSet
  <2>9. IsInjective(behind \o ahead) BY <2>3, <2>4, <2>6, ConcatInjective
  <2> QED BY <1>3, <1>5, <2>7, <2>8, <2>9 DEF q
<1> QED BY <1>4, <1>5

\* A whole sequence as a part of it.
LEMMA WholePart == ASSUME NEW S, NEW s \in Seq(S) PROVE s = SubSeq(s, 1, Len(s))
OBVIOUS

\* The lengths of two sequences add up.
LEMMA ConcatLength ==
  ASSUME NEW S, NEW s \in Seq(S), NEW t \in Seq(S)
  PROVE  Len(s \o t) = Len(s) + Len(t)
OBVIOUS

\* The items that can never play are the first ones.
LEMMA UnplayablePart ==
  ASSUME NEW r, NEW seq \in Seq(Items)
  PROVE  \E n \in 0..Len(seq) : Unplayable(r, seq) = SubSeq(seq, 1, n)
<1> DEFINE I == {i \in 1..Len(seq) : r.media[Link[seq[i]]] # "failed"}
           first == IF I # {} THEN Min(I) ELSE 0
<1>1. Unplayable(r, seq) = (IF first = 0 THEN seq ELSE SubSeq(seq, 1, first - 1))
  BY DEF Unplayable, SelectInSeq
<1>2. Len(seq) \in Nat OBVIOUS
<1>3. first \in 0..Len(seq)
  <2>1. CASE I = {} BY <2>1, <1>2
  <2>2. CASE I # {}
    <3>0. I \subseteq Nat /\ I \subseteq 0..Len(seq) BY <1>2
    <3>1. \E i \in I : \A j \in I : i <= j
      <4> HIDE DEF I
      <4> QED BY <2>2, <3>0, Least
    <3> DEFINE min == CHOOSE i \in I : \A j \in I : i <= j
    <3>2. min \in I BY <3>1
    <3>3. first = min BY <2>2 DEF Min
    <3> HIDE DEF first, min, I
    <3> QED BY <3>0, <3>2, <3>3
  <2> QED BY <2>1, <2>2
<1> HIDE DEF first, I
<1>4. CASE first = 0 BY <1>1, <1>2, <1>4, WholePart
<1>5. CASE first # 0
  <2>1. first - 1 \in 0..Len(seq) BY <1>2, <1>3, <1>5
  <2> QED BY <1>1, <1>5, <2>1
<1> QED BY <1>4, <1>5

\* The current item goes, and n of those that follow.
Goes(r, n) ==
    /\ n \in 0..Len(Following(r))
    /\ Leaving(r) = <<r.cur>> \o SubSeq(Following(r), 1, n)
    /\ Leaving(r) \in Seq(Items) /\ IsInjective(Leaving(r)) /\ Len(Leaving(r)) = n + 1
    /\ ToSet(Leaving(r)) = {r.cur} \cup {Following(r)[i] : i \in 1..n}

\* Leaving is of that form.
LEMMA LeavingPart ==
  ASSUME NEW r, r.queue \in Seq(Items), IsInjective(r.queue), r.cur \in Items
  PROVE  \E n : Goes(r, n)
<1> DEFINE f == Following(r)
<1>1. f \in Seq(Items) /\ IsInjective(f) /\ ToSet(f) = ToSet(r.queue) \ {r.cur} BY FollowingPart
<1>2. PICK n \in 0..Len(f) : Unplayable(r, f) = SubSeq(f, 1, n) BY <1>1, UnplayablePart
<1> DEFINE u == SubSeq(f, 1, n)
<1> HIDE DEF f
<1>3. n \in Nat /\ n <= Len(f) /\ 1 \in Nat BY <1>1, <1>2
<1>4. u \in Seq(Items) /\ ToSet(u) = {f[i] : i \in 1..n} /\ ToSet(u) \subseteq ToSet(f) /\ IsInjective(u)
  BY <1>1, <1>3, SubSeqSet
<1>5. Len(u) = n /\ u \in Seq(Items) /\ r.cur \notin ToSet(u) /\ IsInjective(u) BY <1>1, <1>3, <1>4
<1> HIDE DEF u
<1> DEFINE c == <<r.cur>>
<1>6. c \in Seq(Items) /\ ToSet(c) = {r.cur} /\ IsInjective(c) /\ Len(c) = 1 BY SingleSet
<1>7. Leaving(r) = c \o u BY <1>2 DEF Leaving, f, u
<1> HIDE DEF c
<1>8. c \o u \in Seq(Items) /\ ToSet(c \o u) = {r.cur} \cup ToSet(u) BY <1>4, <1>6, ConcatSet
<1>9. IsInjective(c \o u)
  <2>1. ToSet(c) \cap ToSet(u) = {} BY <1>5, <1>6
  <2> QED BY <1>5, <1>6, <2>1, ConcatInjective
<1>10. Len(c \o u) = n + 1
  <2>1. Len(c \o u) = Len(c) + Len(u) BY <1>4, <1>6, ConcatLength
  <2>2. Len(c \o u) = 1 + n BY <1>5, <1>6, <2>1, Zenon
  <2>3. 1 + n = n + 1 BY <1>3
  <2> QED BY <2>2, <2>3, Zenon
<1>11. Goes(r, n) BY <1>2, <1>4, <1>7, <1>8, <1>9, <1>10 DEF Goes, f, u, c
<1> QED BY <1>11

\* The rest of what follows: its first item is queued and stays; without a
\* rest nothing stays.
LEMMA LeftPart ==
  ASSUME NEW r, r.queue \in Seq(Items), IsInjective(r.queue), r.cur \in Items, NEW left,
         left = SubSeq(Following(r), Len(Leaving(r)), Len(Following(r)))
  PROVE  /\ left # <<>> => Head(left) \in Items /\ Head(left) \in ToSet(r.queue) \ ToSet(Leaving(r))
         /\ left = <<>> => ToSet(r.queue) \subseteq ToSet(Leaving(r))
<1> DEFINE f == Following(r)
<1>1. f \in Seq(Items) /\ IsInjective(f) /\ ToSet(f) = ToSet(r.queue) \ {r.cur} BY FollowingPart
<1>2. PICK n : Goes(r, n) BY LeavingPart
<1>3. /\ n \in 0..Len(f) /\ Len(Leaving(r)) = n + 1
      /\ ToSet(Leaving(r)) = {r.cur} \cup {f[i] : i \in 1..n}
  BY <1>2 DEF Goes
<1>4. left = SubSeq(f, n + 1, Len(f)) BY <1>3
<1> HIDE DEF f
<1>5. Len(f) \in Nat /\ DOMAIN f = 1..Len(f) BY <1>1
<1>a. n \in Nat /\ n <= Len(f) BY <1>3, <1>5
<1>b. \A k, l \in Nat : k <= l => k = l \/ (k + 1 <= l /\ k < l /\ l - k # 0) OBVIOUS
<1>c. n = Len(f) \/ (n + 1 <= Len(f) /\ n < Len(f) /\ Len(f) - n # 0) BY <1>5, <1>a, <1>b, Zenon
<1>6. ASSUME left # <<>> PROVE Head(left) \in Items /\ Head(left) \in ToSet(r.queue) \ ToSet(Leaving(r))
  <2>1. n + 1 <= Len(f)
    <3> SUFFICES ASSUME ~(n + 1 <= Len(f)) PROVE FALSE OBVIOUS
    <3>1. n = Len(f) BY <1>c, Zenon
    <3>2. SubSeq(f, Len(f) + 1, Len(f)) = <<>> BY <1>1, <1>5
    <3> QED BY <3>1, <3>2, <1>4, <1>6
  <2>2. Head(left) = f[n + 1] BY <1>1, <1>3, <1>4, <2>1
  <2>3. n + 1 \in 1..Len(f) /\ 1..n \subseteq 1..Len(f) BY <1>3, <1>5, <2>1
  <2>4. f[n + 1] \in ToSet(f) BY <1>5, <2>3 DEF ToSet
  <2>5. \A i \in 1..n : f[i] # f[n + 1]
    <3>1. \A i \in 1..n : i # n + 1 BY <1>3
    <3> QED BY <3>1, <2>3, <1>1, <1>5 DEF IsInjective
  <2>6. ToSet(f) \subseteq Items BY <1>1, <1>5 DEF ToSet
  <2> QED BY <1>1, <1>3, <2>2, <2>4, <2>5, <2>6
<1>7. ASSUME left = <<>> PROVE ToSet(r.queue) \subseteq ToSet(Leaving(r))
  <2>1. n = Len(f)
    <3> SUFFICES ASSUME n # Len(f) PROVE FALSE OBVIOUS
    <3>1. n < Len(f) /\ Len(f) - n # 0 BY <1>c, Zenon
    <3>2. Len(left) = Len(f) - n BY <1>1, <1>3, <1>4, <3>1
    <3>3. Len(left) = 0 BY <1>7
    <3> QED BY <3>1, <3>2, <3>3, Zenon
  <2>2. ToSet(f) = {f[i] : i \in 1..n} BY <2>1, <1>5 DEF ToSet
  <2> QED BY <1>1, <1>3, <2>2
<1> QED BY <1>6, <1>7

-----------------------------------------------------------------------------
(***************************************************************************)
(* What the helpers of a room leave alone                                  *)
(***************************************************************************)

\* Only the timers of the slots differ.
Same(r, s) ==
    /\ s.queue = r.queue /\ s.played = r.played /\ s.media = r.media /\ s.cur = r.cur
    /\ s.playing = r.playing /\ s.base = r.base /\ s.here = r.here
    /\ s.viewers = r.viewers /\ s.waiting = r.waiting /\ s.countdown = r.countdown
    /\ s.adv = r.adv /\ s.ended = r.ended
    /\ s.settings = r.settings /\ s.unsaved = r.unsaved

\* Only the timer in slot k differs.
Slotted(r, k, s) ==
    /\ s \in RoomType /\ Same(r, s)
    /\ \A j \in Kinds \ {k} : s.slot[j] = r.slot[j]

\* A timer is stopped.
LEMMA StopFacts ==
  ASSUME NEW r \in RoomType, NEW k \in Kinds, NEW s, s = Stop(r, k)
  PROVE  Slotted(r, k, s) /\ s.slot[k] = "nil"
BY DEF RoomType, Stop, Slotted, Same, SlotState

\* A timer is armed.
LEMMA ArmFacts ==
  ASSUME NEW r \in RoomType, NEW k \in Kinds, NEW s, s = Arm(r, k)
  PROVE  Slotted(r, k, s) /\ s.slot[k] = "run"
BY DEF RoomType, Arm, Slotted, Same, SlotState

\* A callback starts.
LEMMA EnterFacts ==
  ASSUME NEW r \in RoomType, NEW k \in Kinds, NEW s, s = Enter(r, k)
  PROVE  Slotted(r, k, s) /\ s.slot[k] = "nil"
BY DEF RoomType, Enter, Slotted, Same, SlotState

\* What depends on other fields is the same.
LEMMA SameViews ==
  ASSUME NEW r, NEW s, Same(r, s)
  PROVE  /\ Here(s) = Here(r) /\ Stuck(s) = Stuck(r)
         /\ HasMedia(s) = HasMedia(r) /\ Playable(s) = Playable(r)
BY DEF Same, Here, Stuck, HasMedia, Playable

\* A room that plays for nobody has the pause armed.
EmptyArmed(r) ==
    r.playing /\ r.settings.pauseWhenEmpty /\ Here(r) = {} => r.slot["empty"] # "nil"

\* armEmptyPauseLocked sees to it.
LEMMA ArmEmptyPauseFacts ==
  ASSUME NEW r \in RoomType, NEW s, s = ArmEmptyPause(r)
  PROVE  Slotted(r, "empty", s) /\ EmptyArmed(s)
<1>0. "empty" \in Kinds BY DEF Kinds
<1>1. CASE s = r
  <2>1. r.playing \in BOOLEAN /\ r.settings.pauseWhenEmpty \in BOOLEAN BY RoomAssumption DEF RoomType
  <2>2. EmptyArmed(r)
    <3>1. CASE r.settings.pauseWhenEmpty /\ r.playing /\ Here(r) = {} /\ r.slot["empty"] = "nil"
      <4>1. s = Arm(r, "empty") BY <3>1 DEF ArmEmptyPause
      <4>2. s.slot["empty"] = "run" BY <1>0, <4>1, ArmFacts
      <4> QED BY <1>1, <3>1, <4>2
    <3> QED BY <3>1 DEF EmptyArmed
  <2> QED BY <1>1, <2>2 DEF Slotted, Same
<1>2. CASE s # r
  <2>1. s = Arm(r, "empty") BY <1>2 DEF ArmEmptyPause
  <2>2. Slotted(r, "empty", s) /\ s.slot["empty"] = "run" BY <1>0, <2>1, ArmFacts
  <2> QED BY <2>2 DEF EmptyArmed
<1> QED BY <1>1, <1>2

\* A callback of the advance timer that no slot holds.
Late == [item: Items \cup {None}, fresh: BOOLEAN]

\* The advance timer of a room with this clock.
AdvanceOf(r, playing) ==
    IF playing /\ Playable(r) THEN [state |-> "run", item |-> r.cur, fresh |-> TRUE] ELSE NoAdvance

\* The clock of r was set anew: its timers are stale, the advance timer is
\* that of the new clock, and an empty room has its pause armed.
SetTo(r, playing, pos, s) ==
    /\ s \in RoomType
    /\ s.queue = r.queue /\ s.played = r.played /\ s.media = r.media /\ s.cur = r.cur
    /\ s.viewers = r.viewers /\ s.waiting = r.waiting /\ s.countdown = r.countdown
    /\ s.settings = r.settings /\ s.unsaved = r.unsaved
    /\ s.playing = playing /\ s.base = pos /\ s.here = pos
    /\ s.adv = AdvanceOf(r, playing)
    /\ \A e \in s.ended :
          ~e.fresh /\ ((e.item = r.adv.item /\ r.adv.state # "nil") \/ \E x \in r.ended : x.item = e.item)
    /\ \A k \in Kinds \ {"empty"} : s.slot[k] = r.slot[k]
    /\ EmptyArmed(s)

\* setPlaybackLocked
LEMMA SetPlaybackFacts ==
  ASSUME NEW r \in RoomType, NEW playing \in BOOLEAN, NEW pos \in Position,
         NEW s, s = SetPlayback(r, playing, pos)
  PROVE  SetTo(r, playing, pos, s)
<1> DEFINE r1 == Restarted(r, playing, pos)
           late == {[e EXCEPT !.fresh = FALSE] : e \in r.ended}
           stale == [r.adv EXCEPT !.fresh = FALSE]
<1>1. /\ r1 = [r EXCEPT !.playing = playing, !.base = pos, !.here = pos, !.adv = stale, !.ended = late]
  BY DEF Restarted, RoomType, Advance
<1>2. stale \in Advance /\ stale.item = r.adv.item /\ stale.state = r.adv.state /\ ~stale.fresh
  BY DEF RoomType, Advance
<1>3. /\ late \subseteq Late
      /\ \A e \in late : ~e.fresh /\ \E x \in r.ended : x.item = e.item
  <2>1. r.ended \subseteq Late BY DEF RoomType, Late
  <2>2. \A e \in Late : [e EXCEPT !.fresh = FALSE] \in Late
                        /\ ~[e EXCEPT !.fresh = FALSE].fresh /\ [e EXCEPT !.fresh = FALSE].item = e.item
    BY DEF Late
  <2> QED BY <2>1, <2>2
<1> HIDE DEF late, stale
<1>4. /\ r1 \in RoomType /\ r1.queue = r.queue /\ r1.played = r.played /\ r1.media = r.media /\ r1.cur = r.cur
      /\ r1.viewers = r.viewers /\ r1.waiting = r.waiting /\ r1.countdown = r.countdown
      /\ r1.settings = r.settings /\ r1.unsaved = r.unsaved /\ r1.slot = r.slot
      /\ r1.playing = playing /\ r1.base = pos /\ r1.here = pos /\ r1.adv = stale /\ r1.ended = late
  <2> HIDE DEF r1
  <2> QED BY <1>1, <1>2, <1>3 DEF RoomType, Late
<1>5. Playable(r1) = Playable(r) BY <1>4 DEF Playable, HasMedia
<1> HIDE DEF r1
<1> DEFINE r2 == ScheduleAdvance(r1)
           more == IF r1.adv.state = "fired" THEN {[item |-> r1.adv.item, fresh |-> r1.adv.fresh]} ELSE {}
           adv == AdvanceOf(r, playing)
<1>6. r2 = [r1 EXCEPT !.ended = @ \cup more, !.adv = adv]
  BY <1>4, <1>5 DEF ScheduleAdvance, AdvanceOf
<1>7. adv \in Advance BY DEF AdvanceOf, Advance, NoAdvance, SlotState, Playable, HasMedia, RoomType
<1>8. /\ more \subseteq Late
      /\ \A e \in more : ~e.fresh /\ e.item = r.adv.item /\ r.adv.state # "nil"
  BY <1>2, <1>4 DEF Late, Advance
<1> HIDE DEF adv, more
<1>9. /\ r2 \in RoomType /\ r2.queue = r1.queue /\ r2.played = r1.played /\ r2.media = r1.media /\ r2.cur = r1.cur
      /\ r2.viewers = r1.viewers /\ r2.waiting = r1.waiting /\ r2.countdown = r1.countdown
      /\ r2.settings = r1.settings /\ r2.unsaved = r1.unsaved /\ r2.slot = r1.slot
      /\ r2.playing = r1.playing /\ r2.base = r1.base /\ r2.here = r1.here
      /\ r2.adv = adv /\ r2.ended = r1.ended \cup more
  <2> HIDE DEF r2
  <2> QED BY <1>4, <1>6, <1>7, <1>8 DEF RoomType, Late
<1>10. s = ArmEmptyPause(r2) BY DEF SetPlayback, r1, r2
<1> HIDE DEF r2
<1>11. Slotted(r2, "empty", s) /\ EmptyArmed(s) BY <1>9, <1>10, ArmEmptyPauseFacts
<1>12. \A e \in s.ended :
          ~e.fresh /\ ((e.item = r.adv.item /\ r.adv.state # "nil") \/ \E x \in r.ended : x.item = e.item)
  BY <1>3, <1>4, <1>8, <1>9, <1>11 DEF Slotted, Same
<1> QED BY <1>4, <1>9, <1>11, <1>12 DEF Slotted, Same, SetTo, adv

\* A timer or a callback at the end of an item names one.
Held(r) ==
    /\ r.adv.state # "nil" => r.adv.item # None
    /\ \A e \in r.ended : e.item # None

\* One that fired and belongs to the clock as it is has seen the end.
AtEnd(r) ==
    /\ r.adv.state = "fired" /\ r.adv.fresh => r.here = "end"
    /\ \A e \in r.ended : e.fresh => r.here = "end"

\* A room a critical section may work on ...
Formed(r) == r \in RoomType /\ Apart(r.queue, r.played) /\ Held(r)

\* ... and one it may leave behind.
Sound(r) == Formed(r) /\ AtEnd(r) /\ (Viewers # {} => EmptyArmed(r))

\* A new clock leaves a sound room.
LEMMA SetToSound ==
  ASSUME NEW r, Formed(r), NEW playing, NEW pos, NEW s, SetTo(r, playing, pos, s)
  PROVE  Sound(s)
<1>1. Apart(s.queue, s.played) BY DEF Formed, SetTo
<1>2. s.adv.state # "fired" /\ (s.adv.state # "nil" => s.adv.item # None)
  BY DEF SetTo, AdvanceOf, NoAdvance, Playable, HasMedia
<1>3. \A e \in s.ended : e.item # None /\ ~e.fresh BY DEF SetTo, Formed, Held
<1> QED BY <1>1, <1>2, <1>3 DEF SetTo, Sound, Formed, Held, AtEnd

\* Nothing but the timers of the slots, the wait and the countdown differs.
Calm(r, s) ==
    /\ s \in RoomType
    /\ s.queue = r.queue /\ s.played = r.played /\ s.media = r.media /\ s.cur = r.cur
    /\ s.playing = r.playing /\ s.base = r.base /\ s.here = r.here
    /\ s.viewers = r.viewers /\ s.adv = r.adv /\ s.ended = r.ended
    /\ s.settings = r.settings /\ s.unsaved = r.unsaved
    /\ s.slot["empty"] = r.slot["empty"] /\ s.slot["buffer"] = r.slot["buffer"]

\* Then a sound room stays sound.
LEMMA CalmSound ==
  ASSUME NEW r, NEW s, Calm(r, s)
  PROVE  /\ Formed(r) => Formed(s)
         /\ Sound(r) => Sound(s)
         /\ Playable(s) = Playable(r) /\ Stuck(s) = Stuck(r) /\ Here(s) = Here(r)
<1>1. Formed(r) => Formed(s) BY DEF Calm, Formed, Held
<1>2. AtEnd(r) => AtEnd(s) BY DEF Calm, AtEnd
<1>3. EmptyArmed(r) => EmptyArmed(s) BY DEF Calm, EmptyArmed, Here
<1>4. Playable(s) = Playable(r) /\ Stuck(s) = Stuck(r) /\ Here(s) = Here(r)
  BY DEF Calm, Playable, HasMedia, Stuck, Here
<1> QED BY <1>1, <1>2, <1>3, <1>4 DEF Sound

\* endWaitLocked(false)
LEMMA EndWaitFacts ==
  ASSUME NEW r \in RoomType, NEW s, s = EndWait(r)
  PROVE  Calm(r, s) /\ s.waiting = {} /\ s.countdown = r.countdown
<1> DEFINE t == Stop(r, "wait")
<1>0. "wait" \in Kinds /\ {"empty", "buffer"} \subseteq Kinds \ {"wait"} BY DEF Kinds
<1>1. Slotted(r, "wait", t) BY <1>0, StopFacts
<1>2. s = [t EXCEPT !.waiting = {}] BY DEF EndWait
<1> HIDE DEF t
<1>3. t \in RoomType BY <1>1 DEF Slotted
<1>4. /\ s \in RoomType /\ s.waiting = {} /\ s.countdown = t.countdown /\ s.slot = t.slot
      /\ s.queue = t.queue /\ s.played = t.played /\ s.media = t.media /\ s.cur = t.cur
      /\ s.playing = t.playing /\ s.base = t.base /\ s.here = t.here
      /\ s.viewers = t.viewers /\ s.adv = t.adv /\ s.ended = t.ended
      /\ s.settings = t.settings /\ s.unsaved = t.unsaved
  BY <1>2, <1>3 DEF RoomType
<1> QED BY <1>0, <1>1, <1>4 DEF Slotted, Same, Calm

\* cancelCountdownLocked
LEMMA CancelFacts ==
  ASSUME NEW r \in RoomType, NEW s, s = CancelCountdown(r)
  PROVE  Calm(r, s) /\ s.waiting = r.waiting /\ ~s.countdown
<1> DEFINE t == Stop(r, "countdown")
<1>0. "countdown" \in Kinds /\ {"empty", "buffer"} \subseteq Kinds \ {"countdown"} BY DEF Kinds
<1>1. Slotted(r, "countdown", t) BY <1>0, StopFacts
<1>2. s = [t EXCEPT !.countdown = FALSE] BY DEF CancelCountdown
<1> HIDE DEF t
<1>3. t \in RoomType BY <1>1 DEF Slotted
<1>4. /\ s \in RoomType /\ s.waiting = t.waiting /\ ~s.countdown /\ s.slot = t.slot
      /\ s.queue = t.queue /\ s.played = t.played /\ s.media = t.media /\ s.cur = t.cur
      /\ s.playing = t.playing /\ s.base = t.base /\ s.here = t.here
      /\ s.viewers = t.viewers /\ s.adv = t.adv /\ s.ended = t.ended
      /\ s.settings = t.settings /\ s.unsaved = t.unsaved
  BY <1>2, <1>3 DEF RoomType
<1> QED BY <1>0, <1>1, <1>4 DEF Slotted, Same, Calm

\* Another item is current, in the same queue, and plays when it can.
Chosen(r, item, s) ==
    /\ Sound(s)
    /\ s.queue = r.queue /\ s.played = r.played /\ s.media = r.media /\ s.cur = item
    /\ s.viewers = r.viewers /\ s.settings = r.settings
    /\ s.playing = (item # None /\ r.media[Link[item]] = "ready")
    /\ s.base = "start" /\ s.here = "start"
    /\ s.adv = AdvanceOf(s, s.playing)
    /\ s.slot["buffer"] = r.slot["buffer"]
    /\ item # None => s.waiting = {} /\ ~s.countdown
    /\ item = None => s.waiting = r.waiting /\ s.countdown = r.countdown

\* The current item replaced, and nothing else.
LEMMA Replaced ==
  ASSUME NEW r, Formed(r), NEW item \in Items \cup {None}, NEW s, s = [r EXCEPT !.cur = item]
  PROVE  /\ Formed(s) /\ s.cur = item
         /\ s.queue = r.queue /\ s.played = r.played /\ s.media = r.media
         /\ s.playing = r.playing /\ s.base = r.base /\ s.here = r.here
         /\ s.viewers = r.viewers /\ s.waiting = r.waiting /\ s.countdown = r.countdown
         /\ s.slot = r.slot /\ s.settings = r.settings /\ s.unsaved = r.unsaved
<1>1. r \in RoomType BY DEF Formed
<1>2. s \in RoomType /\ s.adv = r.adv /\ s.ended = r.ended BY <1>1 DEF RoomType
<1>3. /\ s.cur = item
      /\ s.queue = r.queue /\ s.played = r.played /\ s.media = r.media
      /\ s.playing = r.playing /\ s.base = r.base /\ s.here = r.here
      /\ s.viewers = r.viewers /\ s.waiting = r.waiting /\ s.countdown = r.countdown
      /\ s.slot = r.slot /\ s.settings = r.settings /\ s.unsaved = r.unsaved
  BY <1>1 DEF RoomType
<1> QED BY <1>2, <1>3 DEF Formed, Held

\* The advance timer depends on the queue, the media and the current item.
LEMMA AdvanceSame ==
  ASSUME NEW r, NEW s, s.queue = r.queue, s.media = r.media, s.cur = r.cur, NEW p
  PROVE  AdvanceOf(s, p) = AdvanceOf(r, p) /\ Playable(s) = Playable(r)
BY DEF AdvanceOf, Playable, HasMedia

\* setCurrentLocked
LEMMA SetCurrentFacts ==
  ASSUME NEW r, Formed(r), NEW item \in Items \cup {None}, NEW s, s = SetCurrent(r, item)
  PROVE  Chosen(r, item, s)
<1>0. r \in RoomType /\ "start" \in Position /\ "buffer" \in Kinds \ {"empty"}
  BY DEF Formed, Position, Kinds
<1>1. CASE item = None
  <2> DEFINE t == [r EXCEPT !.cur = None]
  <2>1. /\ Formed(t) /\ t.cur = item
        /\ t.queue = r.queue /\ t.played = r.played /\ t.media = r.media
        /\ t.viewers = r.viewers /\ t.waiting = r.waiting /\ t.countdown = r.countdown
        /\ t.slot = r.slot /\ t.settings = r.settings /\ t.unsaved = r.unsaved
    BY <1>1, Replaced
  <2>2. s = SetPlayback(t, FALSE, "start") BY <1>1 DEF SetCurrent
  <2> HIDE DEF t
  <2>3. SetTo(t, FALSE, "start", s)
    <3>1. t \in RoomType BY <2>1 DEF Formed
    <3> QED BY <1>0, <2>2, <3>1, SetPlaybackFacts
  <2>4. Sound(s) BY <2>1, <2>3, SetToSound
  <2>5. s.adv = AdvanceOf(s, s.playing)
    <3>1. s.adv = NoAdvance /\ ~s.playing BY <2>3 DEF SetTo, AdvanceOf
    <3> QED BY <3>1 DEF AdvanceOf
  <2> QED BY <1>0, <1>1, <2>1, <2>3, <2>4, <2>5 DEF SetTo, Chosen
<1>2. CASE item # None
  <2> DEFINE u == EndWait(r)
             v == CancelCountdown(u)
             t == [v EXCEPT !.cur = item]
             play == r.media[Link[item]] = "ready"
  <2>1. s = SetPlayback(t, play, "start") BY <1>2 DEF SetCurrent
  <2>2. Calm(r, u) /\ u.waiting = {} BY <1>0, EndWaitFacts
  <2> HIDE DEF u
  <2>3. Calm(u, v) /\ v.waiting = u.waiting /\ ~v.countdown
    <3>1. u \in RoomType BY <2>2 DEF Calm
    <3> QED BY <3>1, CancelFacts
  <2> HIDE DEF v
  <2>4. Formed(v) BY <2>2, <2>3, CalmSound
  <2>5. /\ Formed(t) /\ t.cur = item
        /\ t.queue = v.queue /\ t.played = v.played /\ t.media = v.media
        /\ t.viewers = v.viewers /\ t.waiting = v.waiting /\ t.countdown = v.countdown
        /\ t.slot = v.slot /\ t.settings = v.settings /\ t.unsaved = v.unsaved
    BY <2>4, Replaced
  <2> HIDE DEF t
  <2>6. SetTo(t, play, "start", s)
    <3>1. t \in RoomType /\ play \in BOOLEAN BY <2>5 DEF Formed
    <3> HIDE DEF play
    <3> QED BY <1>0, <2>1, <3>1, SetPlaybackFacts
  <2>7. Sound(s) BY <2>5, <2>6, SetToSound
  <2>8. s.adv = AdvanceOf(s, s.playing)
    <3> HIDE DEF play
    <3> QED BY <2>6, AdvanceSame DEF SetTo
  <2>9. /\ s.queue = r.queue /\ s.played = r.played /\ s.media = r.media /\ s.cur = item
        /\ s.viewers = r.viewers /\ s.settings = r.settings /\ s.unsaved = r.unsaved
        /\ s.waiting = {} /\ ~s.countdown /\ s.slot["buffer"] = r.slot["buffer"]
        /\ s.playing = play /\ s.base = "start" /\ s.here = "start"
    BY <1>0, <2>2, <2>3, <2>5, <2>6 DEF Calm, SetTo
  <2> QED BY <1>2, <2>7, <2>8, <2>9 DEF Chosen
<1> QED BY <1>1, <1>2

\* The wait is over: nothing but the clock, the timers and the wait differs.
Resumed(r, s) ==
    /\ Sound(s) /\ s.waiting = {} /\ s.countdown = r.countdown
    /\ s.queue = r.queue /\ s.played = r.played /\ s.media = r.media /\ s.cur = r.cur
    /\ s.viewers = r.viewers /\ s.settings = r.settings /\ s.unsaved = r.unsaved
    /\ s.base = r.base /\ s.slot["buffer"] = r.slot["buffer"]
    /\ \/ s.playing = r.playing /\ s.adv = r.adv /\ (r.waiting # {} /\ r.cur # None => r.playing)
       \/ s.playing /\ ~r.playing /\ s.adv = AdvanceOf(r, TRUE) /\ r.waiting # {} /\ r.cur # None

\* endWaitLocked(true)
LEMMA ResumeFacts ==
  ASSUME NEW r, Sound(r), NEW s, s = Resume(r)
  PROVE  Resumed(r, s)
<1>0. Formed(r) /\ r \in RoomType BY DEF Sound, Formed
<1> DEFINE u == EndWait(r)
<1>1. Calm(r, u) /\ u.waiting = {} /\ u.countdown = r.countdown BY <1>0, EndWaitFacts
<1>2. Sound(u) /\ Formed(u) BY <1>1, CalmSound DEF Sound
<1>3. CASE r.waiting # {} /\ ~r.playing /\ r.cur # None
  <2>1. s = SetPlayback(u, TRUE, r.base) BY <1>3 DEF Resume
  <2> HIDE DEF u
  <2>2. r.base \in Position /\ u \in RoomType BY <1>0, <1>1 DEF RoomType, Calm
  <2>3. SetTo(u, TRUE, r.base, s) BY <2>1, <2>2, SetPlaybackFacts
  <2>4. Sound(s) BY <1>2, <2>3, SetToSound
  <2>5. AdvanceOf(u, TRUE) = AdvanceOf(r, TRUE) BY <1>1, AdvanceSame DEF Calm
  <2>6. s.slot["buffer"] = r.slot["buffer"] BY <1>1, <2>3 DEF Calm, SetTo, Kinds
  <2>7. /\ s.waiting = {} /\ s.countdown = r.countdown
        /\ s.queue = r.queue /\ s.played = r.played /\ s.media = r.media /\ s.cur = r.cur
        /\ s.viewers = r.viewers /\ s.settings = r.settings /\ s.unsaved = r.unsaved
        /\ s.base = r.base /\ s.playing /\ s.adv = AdvanceOf(r, TRUE)
    BY <1>1, <2>3, <2>5 DEF Calm, SetTo
  <2> QED BY <1>3, <2>4, <2>6, <2>7 DEF Resumed
<1>4. CASE ~(r.waiting # {} /\ ~r.playing /\ r.cur # None)
  <2>1. s = u BY <1>4 DEF Resume
  <2> HIDE DEF u
  <2> QED BY <1>1, <1>2, <1>4, <2>1 DEF Calm, Resumed
<1> QED BY <1>3, <1>4

\* The wait was looked at.
Looked(r, s) ==
    /\ Sound(s) /\ s.countdown = r.countdown
    /\ s.queue = r.queue /\ s.played = r.played /\ s.media = r.media /\ s.cur = r.cur
    /\ s.viewers = r.viewers /\ s.settings = r.settings /\ s.unsaved = r.unsaved /\ s.base = r.base
    /\ s.waiting # {} => s.waiting = Stuck(s) /\ r.waiting # {}
    /\ \/ s.playing = r.playing /\ s.adv = r.adv
          /\ (r.waiting # {} /\ s.waiting = {} /\ r.cur # None => r.playing)
       \/ /\ s.playing /\ ~r.playing /\ s.adv = AdvanceOf(r, TRUE)
          /\ r.waiting # {} /\ s.waiting = {} /\ r.cur # None
    /\ \/ s.slot["buffer"] = r.slot["buffer"] /\ r.waiting # {}
       \/ r.waiting = {} /\ (s.settings.wait /\ s.playing /\ Stuck(s) # {} => s.slot["buffer"] # "nil")

\* A sound room whose slots change, but not that of the empty-room pause.
LEMMA SlottedSound ==
  ASSUME NEW r, Sound(r), NEW k \in Kinds, k # "empty", NEW s, Slotted(r, k, s)
  PROVE  Sound(s)
<1>0. "empty" \in Kinds \ {k} BY DEF Kinds
<1>1. s.slot["empty"] = r.slot["empty"] BY <1>0 DEF Slotted
<1>2. Here(s) = Here(r) BY DEF Slotted, Same, Here
<1>3. Formed(s) BY DEF Slotted, Same, Sound, Formed, Held
<1>4. AtEnd(s) BY DEF Slotted, Same, Sound, AtEnd
<1> QED BY <1>1, <1>2, <1>3, <1>4 DEF Slotted, Same, Sound, EmptyArmed

\* checkBufferingLocked
LEMMA CheckBufferingFacts ==
  ASSUME NEW r, Sound(r), NEW s, s = CheckBuffering(r)
  PROVE  Looked(r, s)
<1>0. r \in RoomType /\ "buffer" \in Kinds /\ "buffer" # "empty" BY DEF Sound, Formed, Kinds
<1>1. CASE r.waiting # {} /\ Stuck(r) = {}
  <2>1. s = Resume(r) BY <1>1 DEF CheckBuffering
  <2>2. Resumed(r, s) BY <2>1, ResumeFacts
  <2> QED BY <1>1, <2>2 DEF Resumed, Looked
<1>2. CASE r.waiting # {} /\ Stuck(r) # {}
  <2>1. s = [r EXCEPT !.waiting = Stuck(r)] BY <1>2 DEF CheckBuffering
  <2>2. Stuck(r) \subseteq Viewers BY DEF Stuck
  <2>3. /\ s \in RoomType /\ s.waiting = Stuck(r) /\ s.countdown = r.countdown /\ s.slot = r.slot
        /\ s.queue = r.queue /\ s.played = r.played /\ s.media = r.media /\ s.cur = r.cur
        /\ s.playing = r.playing /\ s.base = r.base /\ s.here = r.here
        /\ s.viewers = r.viewers /\ s.adv = r.adv /\ s.ended = r.ended
        /\ s.settings = r.settings /\ s.unsaved = r.unsaved
    BY <1>0, <2>1, <2>2 DEF RoomType
  <2>4. Calm(r, s) BY <2>3 DEF Calm
  <2>5. Sound(s) /\ Stuck(s) = Stuck(r) BY <2>4, CalmSound
  <2> QED BY <1>2, <2>3, <2>5 DEF Looked
<1>3. CASE r.waiting = {} /\ (~r.settings.wait \/ ~r.playing \/ Stuck(r) = {})
  <2>1. s = Stop(r, "buffer") BY <1>3 DEF CheckBuffering
  <2>2. Slotted(r, "buffer", s) BY <1>0, <2>1, StopFacts
  <2>3. Sound(s) BY <1>0, <2>2, SlottedSound
  <2>4. Same(r, s) /\ Stuck(s) = Stuck(r) BY <2>2, SameViews DEF Slotted
  <2> QED BY <1>3, <2>3, <2>4 DEF Same, Looked
<1>4. CASE r.waiting = {} /\ ~(~r.settings.wait \/ ~r.playing \/ Stuck(r) = {})
  <2>1. s = (IF r.slot["buffer"] = "nil" THEN Arm(r, "buffer") ELSE r) BY <1>4 DEF CheckBuffering
  <2>2. CASE r.slot["buffer"] = "nil"
    <3>1. Slotted(r, "buffer", s) /\ s.slot["buffer"] = "run" BY <1>0, <2>1, <2>2, ArmFacts
    <3>2. Sound(s) BY <1>0, <3>1, SlottedSound
    <3>3. Same(r, s) /\ Stuck(s) = Stuck(r) BY <3>1, SameViews DEF Slotted
    <3> QED BY <1>4, <3>1, <3>2, <3>3 DEF Same, Looked
  <2>3. CASE r.slot["buffer"] # "nil" BY <1>4, <2>1, <2>3 DEF Looked
  <2> QED BY <2>2, <2>3
<1> QED BY <1>1, <1>2, <1>3, <1>4

-----------------------------------------------------------------------------
(***************************************************************************)
(* The queue in another order                                              *)
(***************************************************************************)

\* A queue of a room: no item twice.
Once(q) == q \in Seq(Items) /\ IsInjective(q)

\* withCurrent puts the current item, when it is queued, in front of others.
LEMMA WithCurrentPart ==
  ASSUME NEW r, Once(r.queue), NEW w, Once(w), r.cur \notin ToSet(w)
  PROVE  /\ Once(WithCurrent(r, w))
         /\ ToSet(WithCurrent(r, w)) = (ToSet(r.queue) \cap {r.cur}) \cup ToSet(w)
<1> DEFINE c == Only(r.queue, {r.cur})
<1>1. c \in Seq(Items) /\ ToSet(c) = ToSet(r.queue) \cap {r.cur} /\ IsInjective(c)
  BY OnlySet, OnlyInjective DEF Once
<1> HIDE DEF c
<1>2. c \o w \in Seq(Items) /\ ToSet(c \o w) = ToSet(c) \cup ToSet(w) BY <1>1, ConcatSet DEF Once
<1>3. IsInjective(c \o w)
  <2>1. ToSet(c) \cap ToSet(w) = {} BY <1>1
  <2> QED BY <1>1, <2>1, ConcatInjective DEF Once
<1> QED BY <1>1, <1>2, <1>3 DEF Once, WithCurrent, c

\* The votes only rearrange the queue.
LEMMA RuleOrdersPart ==
  ASSUME NEW r, Once(r.queue), NEW q \in RuleOrders(r)
  PROVE  Rearranged(r.queue, q)
<1>1. /\ Waiting(r) \in Seq(Items) /\ ToSet(Waiting(r)) = ToSet(r.queue) \ {r.cur}
  BY WithoutSet DEF Waiting, Once
<1>2. PICK w \in SetToSeqs(ToSet(Waiting(r))) : q = WithCurrent(r, w) BY DEF RuleOrders
<1>3. w \in Seq(Items) /\ ToSet(w) = ToSet(Waiting(r)) /\ IsInjective(w) BY <1>1, OrderSet
<1>4. Once(w) /\ r.cur \notin ToSet(w) BY <1>1, <1>3 DEF Once
<1>5. Once(q) /\ ToSet(q) = (ToSet(r.queue) \cap {r.cur}) \cup ToSet(w) BY <1>2, <1>4, WithCurrentPart
<1>6. ToSet(q) = ToSet(r.queue) BY <1>1, <1>3, <1>5
<1> QED BY <1>5, <1>6 DEF Once, Rearranged

\* So do turns.
LEMMA FairOrdersPart ==
  ASSUME NEW r, Once(r.queue), NEW q \in FairOrders(r)
  PROVE  Rearranged(r.queue, q)
<1>1. CASE q = r.queue BY <1>1 DEF Rearranged, Once
<1>2. CASE q \in RuleOrders(r) BY <1>2, RuleOrdersPart
<1> QED BY <1>1, <1>2 DEF FairOrders

\* And a shuffle.
LEMMA OrdersPart ==
  ASSUME NEW r, Once(r.queue), NEW q \in Orders(r)
  PROVE  Rearranged(r.queue, q)
BY OrderSet DEF Orders, Once, Rearranged

\* A sequence cut in two.
LEMMA Split ==
  ASSUME NEW s, Once(s), NEW n \in 0..Len(s)
  PROVE  /\ Once(SubSeq(s, 1, n)) /\ Once(SubSeq(s, n + 1, Len(s)))
         /\ ToSet(SubSeq(s, 1, n)) \cap ToSet(SubSeq(s, n + 1, Len(s))) = {}
         /\ ToSet(SubSeq(s, 1, n)) \cup ToSet(SubSeq(s, n + 1, Len(s))) = ToSet(s)
<1> DEFINE a == SubSeq(s, 1, n)
           b == SubSeq(s, n + 1, Len(s))
<1>1. Len(s) \in Nat /\ DOMAIN s = 1..Len(s) /\ s \in Seq(Items) /\ IsInjective(s) BY DEF Once
<1>2. n \in Nat /\ n + 1 \in Nat /\ n + 1 >= 1 /\ n <= Len(s) /\ 1 \in Nat /\ 1 >= 1 /\ Len(s) <= Len(s) BY <1>1
<1>3. a \in Seq(Items) /\ ToSet(a) = {s[i] : i \in 1..n} /\ IsInjective(a) BY <1>1, <1>2, SubSeqSet
<1>4. b \in Seq(Items) /\ ToSet(b) = {s[i] : i \in n + 1..Len(s)} /\ IsInjective(b) BY <1>1, <1>2, SubSeqSet
<1> HIDE DEF a, b
<1>5. \A i \in 1..n, j \in n + 1..Len(s) : s[i] # s[j]
  <2>1. \A i \in 1..n, j \in n + 1..Len(s) : i \in 1..Len(s) /\ j \in 1..Len(s) /\ i # j BY <1>1, <1>2
  <2> QED BY <2>1, <1>1 DEF IsInjective
<1>6. ToSet(s) = {s[i] : i \in 1..Len(s)} BY <1>1 DEF ToSet
<1>7. \A i \in 1..Len(s) : i \in 1..n \/ i \in n + 1..Len(s) BY <1>1, <1>2
<1>8. \A i \in 1..n : i \in 1..Len(s) BY <1>1, <1>2
<1>9. \A i \in n + 1..Len(s) : i \in 1..Len(s) BY <1>1, <1>2
<1>10. ToSet(a) \cap ToSet(b) = {} BY <1>3, <1>4, <1>5
<1>11. ToSet(a) \cup ToSet(b) = ToSet(s) BY <1>3, <1>4, <1>6, <1>7, <1>8, <1>9
<1> QED BY <1>3, <1>4, <1>10, <1>11 DEF Once, a, b

\* Two sequences with nothing in common.
LEMMA Joined ==
  ASSUME NEW a, Once(a), NEW b, Once(b), ToSet(a) \cap ToSet(b) = {}, NEW c, c = a \o b
  PROVE  Once(c) /\ ToSet(c) = ToSet(a) \cup ToSet(b)
BY ConcatSet, ConcatInjective DEF Once

\* A moved item is in the queue as it was.
LEMMA PlaceAfterPart ==
  ASSUME NEW r, Once(r.queue), NEW item \in ToSet(r.queue), NEW after, NEW t, t = PlaceAfter(r, item, after)
  PROVE  Rearranged(r.queue, t)
<1> DEFINE rest == Without(r.queue, {item})
           anchor == IndexOf(rest, after)
           at == IF anchor = 0 /\ rest # <<>> /\ Head(rest) = r.cur THEN 1 ELSE anchor
           a == SubSeq(rest, 1, at)
           b == SubSeq(rest, at + 1, Len(rest))
           c == <<item>>
           ac == a \o c
<1>1. t = ac \o b BY DEF PlaceAfter
<1>2. rest \in Seq(Items) /\ ToSet(rest) = ToSet(r.queue) \ {item} /\ IsInjective(rest)
  BY WithoutSet DEF Once
<1> HIDE DEF rest
<1>3. Place(rest, after, anchor) BY <1>2, IndexPlace
<1>4. anchor \in 0..Len(rest) /\ Len(rest) \in Nat BY <1>2, <1>3 DEF Place
<1> HIDE DEF anchor
<1>5. at \in 0..Len(rest)
  <2>1. rest # <<>> => Len(rest) >= 1 BY <1>2
  <2> QED BY <1>4, <2>1
<1> HIDE DEF at
<1>6. Once(rest) BY <1>2 DEF Once
<1>7. Once(a) /\ Once(b) /\ ToSet(a) \cap ToSet(b) = {} /\ ToSet(a) \cup ToSet(b) = ToSet(rest)
  BY <1>5, <1>6, Split
<1> HIDE DEF a, b
<1>8. item \in Items BY DEF Once, ToSet
<1>9. Once(c) /\ ToSet(c) = {item} BY <1>8, SingleSet DEF Once
<1> HIDE DEF c
<1>10. Once(ac) /\ ToSet(ac) = ToSet(a) \cup ToSet(c)
  <2>1. ToSet(a) \cap ToSet(c) = {} BY <1>2, <1>7, <1>9
  <2> QED BY <1>7, <1>9, <2>1, Joined
<1> HIDE DEF ac
<1>11. Once(t) /\ ToSet(t) = ToSet(ac) \cup ToSet(b)
  <2>1. ToSet(ac) \cap ToSet(b) = {} BY <1>2, <1>7, <1>9, <1>10
  <2> QED BY <1>1, <1>7, <1>10, <2>1, Joined
<1>12. ToSet(t) = ToSet(r.queue) BY <1>2, <1>7, <1>9, <1>10, <1>11
<1> QED BY <1>11, <1>12 DEF Once, Rearranged

\* A batch behind the current item.
LEMMA BatchPart ==
  ASSUME NEW r, Once(r.queue), NEW batch, Once(batch), ToSet(r.queue) \cap ToSet(batch) = {},
         r.cur \notin ToSet(batch), NEW t, t = BatchAfterCurrent(r, batch)
  PROVE  Rearranged(r.queue \o batch, t)
<1> DEFINE w == Waiting(r)
           left == Without(w, ToSet(batch))
           bl == batch \o left
<1>1. Once(w) /\ ToSet(w) = ToSet(r.queue) \ {r.cur} BY WithoutSet DEF Waiting, Once
<1> HIDE DEF w
<1>2. Once(left) /\ ToSet(left) = ToSet(w) \ ToSet(batch) BY <1>1, WithoutSet DEF Once
<1> HIDE DEF left
<1>3. Once(bl) /\ ToSet(bl) = ToSet(batch) \cup ToSet(left)
  <2>1. ToSet(batch) \cap ToSet(left) = {} BY <1>2
  <2> QED BY <1>2, <2>1, Joined
<1>4. t = WithCurrent(r, bl) BY DEF BatchAfterCurrent, bl, left, w
<1> HIDE DEF bl
<1>5. r.cur \notin ToSet(bl) BY <1>1, <1>2, <1>3
<1>6. Once(t) /\ ToSet(t) = (ToSet(r.queue) \cap {r.cur}) \cup ToSet(bl) BY <1>3, <1>4, <1>5, WithCurrentPart
<1>7. ToSet(r.queue \o batch) = ToSet(r.queue) \cup ToSet(batch) BY ConcatSet DEF Once
<1>8. ToSet(t) = ToSet(r.queue \o batch) BY <1>1, <1>2, <1>3, <1>6, <1>7
<1> QED BY <1>6, <1>8 DEF Once, Rearranged

-----------------------------------------------------------------------------
(***************************************************************************)
(* What the commands are built from                                        *)
(***************************************************************************)

\* The rows are well formed.
SoundDb(d) == d \in DbType /\ Apart(d.queue, d.played)

\* What every critical section finds ...
Inv == Sound(room) /\ SoundDb(db) /\ deleted \in BOOLEAN

\* What is current is queued, and without a current item nothing is.
Anchored(x) ==
    /\ x.cur # None => x.cur \in ToSet(x.queue)
    /\ x.cur = None => x.queue = <<>> /\ ~x.playing

\* The room has the queue and the clock of the rows, and no save is missing.
Agree(r, d) ==
    r.queue = d.queue /\ r.cur = d.cur /\ r.playing = d.playing /\ r.base = d.base /\ ~r.unsaved

\* So it is between two critical sections, as long as no statement fails,
\* the process does not die inside one and no media are deleted.
Sync == Anchored(room) /\ Agree(room, db) /\ ~deleted
Keeps == Faults = {} /\ Sync => Sync'

\* ... and what all but Kick leave behind.
Preserved ==
    /\ Sound(room') /\ SoundDb(db') /\ deleted' \in BOOLEAN
    /\ WaitsFor(room) => WaitsFor(room')
    /\ Keeps

\* The queue and the current item are as before, only a room with one plays,
\* and a clock that was set anew is to be saved.
Steady(s, save) ==
    /\ s.queue = room.queue /\ s.cur = room.cur /\ s.unsaved = room.unsaved
    /\ s.playing => room.playing \/ room.cur # None
    /\ save \/ (s.playing = room.playing /\ s.base = room.base)

\* Only the queue, the history, the media and the mark of a missing save differ.
Quiet(r, s) ==
    /\ s \in RoomType /\ Apart(s.queue, s.played)
    /\ s.cur = r.cur /\ s.playing = r.playing /\ s.base = r.base /\ s.here = r.here
    /\ s.viewers = r.viewers /\ s.waiting = r.waiting /\ s.countdown = r.countdown
    /\ s.slot = r.slot /\ s.stray = r.stray /\ s.adv = r.adv /\ s.ended = r.ended
    /\ s.settings = r.settings

\* Then a sound room stays sound.
LEMMA QuietSound ==
  ASSUME NEW r, NEW s, Quiet(r, s)
  PROVE  /\ Formed(r) => Formed(s)
         /\ Sound(r) => Sound(s)
         /\ WaitsFor(s) = WaitsFor(r)
         /\ Here(s) = Here(r) /\ Stuck(s) = Stuck(r)
<1>1. Formed(r) => Formed(s) BY DEF Quiet, Formed, Held
<1>2. AtEnd(r) => AtEnd(s) BY DEF Quiet, AtEnd
<1>3. EmptyArmed(r) => EmptyArmed(s) BY DEF Quiet, EmptyArmed, Here
<1>4. Here(s) = Here(r) /\ Stuck(s) = Stuck(r) BY DEF Quiet, Stuck, Here
<1>5. WaitsFor(s) = WaitsFor(r) BY <1>4 DEF Quiet, WaitsFor
<1> QED BY <1>1, <1>2, <1>3, <1>4, <1>5 DEF Sound

\* A new queue, history and media.
Put(r, q, p, m) == [r EXCEPT !.queue = q, !.played = p, !.media = m]
PutRows(d, q, p) == [d EXCEPT !.queue = q, !.played = p]

\* Which leaves the rest of a room alone.
LEMMA Requeue ==
  ASSUME NEW r \in RoomType, NEW q, NEW p, Apart(q, p), NEW m \in [Media -> MediaStatus],
         NEW s, s = Put(r, q, p, m)
  PROVE  Quiet(r, s) /\ s.queue = q /\ s.played = p /\ s.media = m /\ s.unsaved = r.unsaved
<1>1. q \in Seq(Items) /\ p \in Seq(Items) BY DEF Apart
<1>2. s \in RoomType BY <1>1 DEF RoomType, Put
<1>3. s.queue = q /\ s.played = p /\ s.media = m /\ s.unsaved = r.unsaved BY DEF RoomType, Put
<1> QED BY <1>2, <1>3 DEF RoomType, Put, Quiet

\* A new queue only.
LEMMA PutQueue == ASSUME NEW r \in RoomType, NEW q PROVE [r EXCEPT !.queue = q] = Put(r, q, r.played, r.media)
BY DEF Put, RoomType

\* The same of the rows.
LEMMA Rewritten ==
  ASSUME NEW d, SoundDb(d), NEW q, NEW p, Apart(q, p), NEW s, s = PutRows(d, q, p)
  PROVE  /\ SoundDb(s) /\ s.queue = q /\ s.played = p /\ s.media = d.media /\ s.cur = d.cur
         /\ s.playing = d.playing /\ s.base = d.base /\ s.settings = d.settings
<1>1. q \in Seq(Items) /\ p \in Seq(Items) BY DEF Apart
<1>2. d \in DbType BY DEF SoundDb
<1>3. s \in DbType BY <1>1, <1>2 DEF DbType, PutRows
<1>4. /\ s.queue = q /\ s.played = p /\ s.media = d.media /\ s.cur = d.cur
      /\ s.playing = d.playing /\ s.base = d.base /\ s.settings = d.settings BY <1>2 DEF DbType, PutRows
<1> QED BY <1>3, <1>4 DEF SoundDb

\* markPlayedLocked, item after item.
LEMMA MarkPlayedFacts ==
  ASSUME NEW r, Formed(r), NEW seq, Once(seq), NEW s, s = MarkPlayed(r, seq)
  PROVE  Quiet(r, s) /\ s.queue = Without(r.queue, ToSet(seq)) /\ s.media = r.media /\ s.unsaved = r.unsaved
<1> DEFINE q == Without(r.queue, ToSet(seq))
           p == Reverse(Only(seq, ToSet(r.queue))) \o r.played
           x == Marked(r, seq)
<1>1. r \in RoomType /\ Apart(r.queue, r.played) BY DEF Formed
<1>2. Apart(q, p) BY <1>1, MarkedApart DEF Once
<1>3. x = [r EXCEPT !.queue = q, !.played = p] BY <1>1 DEF Marked, RoomType
<1>4. Apart(q, Kept(p)) BY <1>2, KeptApart
<1>5. s = [x EXCEPT !.played = Kept(x.played)] BY DEF MarkPlayed
<1> HIDE DEF q, p, x
<1>6. s = Put(r, q, Kept(p), r.media) BY <1>1, <1>3, <1>5 DEF RoomType, Put
<1>7. r.media \in [Media -> MediaStatus] BY <1>1 DEF RoomType
<1>8. Quiet(r, s) /\ s.queue = q /\ s.media = r.media /\ s.unsaved = r.unsaved
  BY <1>1, <1>4, <1>6, <1>7, Requeue
<1> QED BY <1>8 DEF q

\* The rows of the same items.
LEMMA MarkedRows ==
  ASSUME NEW d, SoundDb(d), NEW seq, Once(seq), NEW s, s = Marked(d, seq)
  PROVE  /\ SoundDb(s) /\ s.queue = Without(d.queue, ToSet(seq)) /\ s.media = d.media /\ s.cur = d.cur
         /\ s.playing = d.playing /\ s.base = d.base /\ s.settings = d.settings
         /\ Rows(s) = Rows(d)
<1> DEFINE q == Without(d.queue, ToSet(seq))
           p == Reverse(Only(seq, ToSet(d.queue))) \o d.played
<1>1. d \in DbType /\ Apart(d.queue, d.played) BY DEF SoundDb
<1>2. /\ Apart(q, p)
      /\ ToSet(q) = ToSet(d.queue) \ ToSet(seq)
      /\ ToSet(p) = (ToSet(seq) \cap ToSet(d.queue)) \cup ToSet(d.played)
  BY <1>1, MarkedApart DEF Once
<1>3. s = PutRows(d, q, p) BY <1>1 DEF Marked, DbType, PutRows
<1> HIDE DEF q, p
<1>4. /\ SoundDb(s) /\ s.queue = q /\ s.played = p /\ s.media = d.media /\ s.cur = d.cur
      /\ s.playing = d.playing /\ s.base = d.base /\ s.settings = d.settings
  BY <1>2, <1>3, Rewritten
<1>5. Rows(s) = Rows(d) BY <1>2, <1>4 DEF Rows
<1> QED BY <1>4, <1>5 DEF q

\* Items leave the tables.
LEMMA DeletedRows ==
  ASSUME NEW d, SoundDb(d), NEW gone, NEW s, s = Deleted(d, gone)
  PROVE  /\ SoundDb(s) /\ s.queue = Without(d.queue, gone) /\ s.played = Without(d.played, gone)
         /\ s.media = d.media /\ s.cur = (IF d.cur \in gone THEN None ELSE d.cur)
         /\ s.playing = d.playing /\ s.base = d.base /\ s.settings = d.settings
         /\ Rows(s) = Rows(d) \ gone
<1> DEFINE q == Without(d.queue, gone)
           p == Without(d.played, gone)
           c == IF d.cur \in gone THEN None ELSE d.cur
<1>1. d \in DbType /\ Apart(d.queue, d.played) BY DEF SoundDb
<1>2. Apart(q, p) BY <1>1, WithoutApart
<1>3. q \in Seq(Items) /\ p \in Seq(Items) BY <1>2 DEF Apart
<1>4. s = [d EXCEPT !.queue = q, !.played = p, !.cur = c] BY <1>1 DEF Deleted, DbType
<1>5. c \in Items \cup {None} BY <1>1 DEF DbType
<1> HIDE DEF q, p, c
<1>6. s \in DbType BY <1>1, <1>3, <1>4, <1>5 DEF DbType
<1>7. /\ s.queue = q /\ s.played = p /\ s.media = d.media /\ s.cur = c
      /\ s.playing = d.playing /\ s.base = d.base /\ s.settings = d.settings
  BY <1>1, <1>4 DEF DbType
<1>8. ToSet(q) = ToSet(d.queue) \ gone /\ ToSet(p) = ToSet(d.played) \ gone
  BY <1>1, WithoutSet DEF Apart, q, p
<1>9. Rows(s) = Rows(d) \ gone BY <1>7, <1>8 DEF Rows
<1> QED BY <1>2, <1>6, <1>7, <1>9 DEF SoundDb, q, p, c

\* Nothing but the mark of a missing save differs.
Stays(r, s) ==
    /\ Quiet(r, s) /\ s.queue = r.queue /\ s.played = r.played /\ s.media = r.media

\* savePlaybackLocked
LEMMA SaveFacts ==
  ASSUME NEW r, Sound(r), NEW d, SoundDb(d), Save(r, d)
  PROVE  /\ Sound(room') /\ SoundDb(db') /\ (WaitsFor(r) => WaitsFor(room'))
         /\ Stays(r, room')
         /\ \/ r.cur \in Rows(d) \cup {None} /\ db' = Saved(r, d) /\ ~room'.unsaved
            \/ (r.cur \notin Rows(d) \cup {None} \/ "store" \in Faults) /\ db' = d /\ room'.unsaved
<1>1. PICK ok \in SaveOutcomes(r, d) : room' = [r EXCEPT !.unsaved = ~ok] /\ db' = IF ok THEN Saved(r, d) ELSE d
  BY DEF Save
<1>2. /\ ok \in BOOLEAN
      /\ ok => r.cur \in Rows(d) \cup {None}
      /\ ~ok => r.cur \notin Rows(d) \cup {None} \/ "store" \in Faults
  BY DEF SaveOutcomes, Outcomes
<1>3. r \in RoomType /\ d \in DbType /\ Apart(r.queue, r.played) /\ Apart(d.queue, d.played)
  BY DEF Sound, Formed, SoundDb
<1>4. /\ room' \in RoomType /\ room'.unsaved = ~ok
      /\ room'.queue = r.queue /\ room'.played = r.played /\ room'.media = r.media
  BY <1>1, <1>2, <1>3 DEF RoomType
<1>5. /\ room'.cur = r.cur /\ room'.playing = r.playing /\ room'.base = r.base /\ room'.here = r.here
      /\ room'.viewers = r.viewers /\ room'.waiting = r.waiting /\ room'.countdown = r.countdown
      /\ room'.slot = r.slot /\ room'.stray = r.stray /\ room'.adv = r.adv /\ room'.ended = r.ended
      /\ room'.settings = r.settings
  BY <1>1, <1>3 DEF RoomType
<1>6. Stays(r, room') BY <1>3, <1>4, <1>5 DEF Stays, Quiet
<1>7. Sound(room') /\ (WaitsFor(r) => WaitsFor(room')) BY <1>6, QuietSound DEF Stays
<1>8. SoundDb(Saved(r, d))
  <2>1. Saved(r, d) \in DbType BY <1>3 DEF Saved, DbType, RoomType
  <2>2. Saved(r, d).queue = d.queue /\ Saved(r, d).played = d.played BY <1>3 DEF Saved, DbType
  <2> QED BY <1>3, <2>1, <2>2 DEF SoundDb
<1> QED BY <1>1, <1>2, <1>4, <1>6, <1>7, <1>8

\* Where nothing fails it leaves the room and the rows in agreement.
LEMMA SaveSync ==
  ASSUME NEW r, Sound(r), NEW d, SoundDb(d), Save(r, d), Faults = {}, Anchored(r), r.queue = d.queue
  PROVE  Anchored(room') /\ Agree(room', db') /\ room'.cur = r.cur
<1>1. r.cur \in Rows(d) \cup {None} BY DEF Anchored, Rows
<1>2. Stays(r, room') /\ db' = Saved(r, d) /\ ~room'.unsaved BY <1>1, SaveFacts
<1>3. db'.queue = d.queue /\ db'.cur = r.cur /\ db'.playing = r.playing /\ db'.base = r.base
  BY <1>2 DEF Saved, SoundDb, DbType
<1>4. room'.queue = r.queue /\ room'.cur = r.cur /\ room'.playing = r.playing /\ room'.base = r.base
  BY <1>2 DEF Stays, Quiet
<1> QED BY <1>2, <1>3, <1>4 DEF Anchored, Agree

\* So does a handler's result.
LEMMA BecomeSync ==
  ASSUME Inv, NEW s, Sound(s), NEW save, Steady(s, save), Become(s, save), UNCHANGED deleted
  PROVE  Keeps
<1> SUFFICES ASSUME Faults = {}, Sync PROVE Sync' BY DEF Keeps
<1>1. Anchored(s) BY DEF Sync, Anchored, Steady
<1>2. CASE save /\ Save(s, db)
  <2>1. s.queue = db.queue BY DEF Sync, Agree, Steady
  <2>2. Anchored(room') /\ Agree(room', db') BY <1>1, <1>2, <2>1, SaveSync DEF Inv
  <2> QED BY <2>2 DEF Sync
<1>3. CASE ~save /\ room' = s /\ db' = db BY <1>1, <1>3 DEF Sync, Agree, Steady
<1> QED BY <1>2, <1>3 DEF Become

\* A handler's result is the room now.
LEMMA BecomeGood ==
  ASSUME Inv, NEW r, Sound(r), WaitsFor(room) => WaitsFor(r), NEW save, Become(r, save),
         Steady(r, save), UNCHANGED deleted
  PROVE  Preserved
<1>0. Keeps BY BecomeSync
<1>1. CASE save /\ Save(r, db) BY <1>0, <1>1, SaveFacts DEF Inv, Preserved
<1>2. CASE room' = r /\ db' = db BY <1>0, <1>2 DEF Inv, Preserved
<1> QED BY <1>1, <1>2 DEF Become

\* A row as a room reads it.
LEMMA BatchType == ASSUME NEW d \in DbType PROVE MediaBatch(d) \in [Media -> MediaStatus]
BY DEF MediaBatch, DbType, MediaStatus

\* A room that was loaded: the clock as it was saved, nobody here.
Fetched(d, r) ==
    LET gone == d.cur # None /\ d.cur \notin ToSet(d.queue)
    IN /\ Sound(r)
       /\ r.queue = d.queue /\ r.played = Kept(d.played) /\ r.media = MediaBatch(d)
       /\ r.cur = (IF gone THEN None ELSE d.cur)
       /\ r.playing = (d.playing /\ ~gone)
       /\ r.base = (IF gone THEN "start" ELSE d.base)
       /\ r.waiting = {} /\ ~r.countdown /\ r.settings = d.settings /\ ~r.unsaved
       /\ r.adv = AdvanceOf(r, r.playing)
       /\ Here(r) = {}

\* load()
LEMMA LoadedFacts ==
  ASSUME NEW d, SoundDb(d), NEW r \in Loaded(d)
  PROVE  Fetched(d, r)
<1> DEFINE gone == d.cur # None /\ ~Contains(d.queue, d.cur)
           lost == d.cur # None /\ d.cur \notin ToSet(d.queue)
           cur == IF lost THEN None ELSE d.cur
           playing == d.playing /\ ~lost
           base == IF lost THEN "start" ELSE d.base
           out == [v \in Viewers |-> "out"]
           slot == [k \in Kinds |-> "nil"]
           rec(h) == [queue |-> d.queue, played |-> Kept(d.played), media |-> MediaBatch(d),
                      cur |-> cur, playing |-> playing, base |-> base, here |-> h,
                      viewers |-> out, waiting |-> {}, countdown |-> FALSE,
                      slot |-> slot, stray |-> {}, adv |-> NoAdvance, ended |-> {},
                      settings |-> d.settings, unsaved |-> FALSE]
<1>0. d \in DbType /\ Apart(d.queue, d.played) BY DEF SoundDb
<1>1. gone = lost
  <2>1. d.queue \in Seq(Items) BY <1>0 DEF Apart
  <2> QED BY <2>1, ContainsSet
<1>2. PICK h \in Position : r = ArmEmptyPause(ScheduleAdvance(rec(h)))
  <2>1. base \in Position BY <1>0 DEF DbType, Position
  <2> QED BY <1>1, <2>1 DEF Loaded, Position
<1> DEFINE t == rec(h)
           u == ScheduleAdvance(t)
<1>3. /\ cur \in Items \cup {None} /\ playing \in BOOLEAN /\ base \in Position /\ d.settings \in Settings
      /\ out \in [Viewers -> ViewerState] /\ slot \in [Kinds -> SlotState]
      /\ NoAdvance \in Advance /\ MediaBatch(d) \in [Media -> MediaStatus] /\ Apart(d.queue, Kept(d.played))
  BY <1>0, BatchType, KeptApart DEF DbType, Position, ViewerState, SlotState, NoAdvance, Advance
<1>4. /\ t.queue = d.queue /\ t.played = Kept(d.played) /\ t.media = MediaBatch(d) /\ t.cur = cur
      /\ t.playing = playing /\ t.base = base /\ t.here = h /\ t.viewers = out /\ t.waiting = {}
      /\ ~t.countdown /\ t.slot = slot /\ t.adv = NoAdvance /\ t.ended = {} /\ t.settings = d.settings
      /\ ~t.unsaved
  OBVIOUS
<1>5. t \in RoomType
  <2>1. d.queue \in Seq(Items) /\ Kept(d.played) \in Seq(Items) BY <1>3 DEF Apart
  <2> HIDE DEF cur, playing, base, out, slot
  <2> QED BY <1>3, <2>1 DEF RoomType
<1>6. r = ArmEmptyPause(u) BY <1>2
<1>7. \A v \in Viewers : t.viewers[v] = "out" BY <1>4
<1> HIDE DEF t, cur, playing, base, out, slot, lost
<1> DEFINE adv == AdvanceOf(t, playing)
<1>8. u = [t EXCEPT !.adv = adv]
  <2>1. t.adv.state # "fired" BY <1>4 DEF NoAdvance
  <2>2. u = [t EXCEPT !.ended = @ \cup {}, !.adv = adv] BY <1>4, <2>1 DEF ScheduleAdvance, AdvanceOf
  <2> HIDE DEF u, adv
  <2> QED BY <1>5, <2>2 DEF RoomType
<1>9. adv \in Advance /\ adv.state # "fired" /\ (adv.state # "nil" => adv.item # None)
  BY <1>4, <1>5 DEF AdvanceOf, Advance, NoAdvance, SlotState, Playable, HasMedia, RoomType
<1>10. AdvanceOf(u, playing) = adv
  <2>1. u.queue = t.queue /\ u.media = t.media /\ u.cur = t.cur
    <3> HIDE DEF u, adv
    <3> QED BY <1>5, <1>8 DEF RoomType
  <2> QED BY <2>1, <1>3 DEF AdvanceOf, Playable, HasMedia
<1> HIDE DEF u, adv
<1>11. /\ u \in RoomType /\ u.queue = t.queue /\ u.played = t.played /\ u.media = t.media /\ u.cur = t.cur
       /\ u.playing = t.playing /\ u.base = t.base /\ u.viewers = t.viewers /\ u.waiting = t.waiting
       /\ u.countdown = t.countdown /\ u.adv = adv /\ u.ended = t.ended /\ u.settings = t.settings
       /\ u.unsaved = t.unsaved
  BY <1>5, <1>8, <1>9 DEF RoomType
<1>12. Slotted(u, "empty", r) /\ EmptyArmed(r) BY <1>6, <1>11, ArmEmptyPauseFacts
<1>13. /\ r \in RoomType /\ r.queue = d.queue /\ r.played = Kept(d.played) /\ r.media = MediaBatch(d) /\ r.cur = cur
       /\ r.playing = playing /\ r.base = base /\ r.waiting = {} /\ ~r.countdown /\ r.settings = d.settings
       /\ ~r.unsaved /\ r.adv = adv /\ r.ended = {} /\ r.viewers = t.viewers
  BY <1>4, <1>11, <1>12 DEF Slotted, Same
<1>14. r.adv = AdvanceOf(r, r.playing)
  <2>1. Playable(r) = Playable(u) BY <1>11, <1>12, SameViews DEF Slotted
  <2>2. r.cur = u.cur BY <1>12 DEF Slotted, Same
  <2>3. AdvanceOf(r, playing) = AdvanceOf(u, playing) BY <2>1, <2>2, <1>3 DEF AdvanceOf
  <2> QED BY <1>10, <1>13, <2>3
<1>15. Sound(r) BY <1>3, <1>9, <1>12, <1>13 DEF Sound, Formed, Held, AtEnd
<1>16. Here(r) = {} BY <1>7, <1>13 DEF Here
<1> QED BY <1>13, <1>14, <1>15, <1>16 DEF Fetched, lost, cur, playing, base

-----------------------------------------------------------------------------
(***************************************************************************)
(* On to the next item                                                     *)
(***************************************************************************)

\* What a save leaves of the rows of d.
Wrote(d) ==
    /\ SoundDb(db') /\ db'.media = d.media /\ Rows(db') = Rows(d) /\ db'.settings = d.settings
    /\ \/ db'.cur = d.cur /\ db'.playing = d.playing
       \/ db'.cur = room'.cur /\ db'.playing = room'.playing

\* Saving a room on which another item was chosen.
LEMMA SaveChosen ==
  ASSUME NEW r, NEW item, NEW s, Chosen(r, item, s), NEW d, SoundDb(d), Save(s, d)
  PROVE  Chosen(r, item, room') /\ Wrote(d)
<1>1. Sound(s) BY DEF Chosen
<1>2. Sound(room') /\ SoundDb(db') /\ Stays(s, room') /\ (db' = d \/ db' = Saved(s, d)) BY <1>1, SaveFacts
<1>3. /\ room'.queue = s.queue /\ room'.played = s.played /\ room'.media = s.media /\ room'.cur = s.cur
      /\ room'.viewers = s.viewers /\ room'.settings = s.settings /\ room'.playing = s.playing
      /\ room'.base = s.base /\ room'.here = s.here /\ room'.adv = s.adv /\ room'.slot = s.slot
      /\ room'.waiting = s.waiting /\ room'.countdown = s.countdown
  BY <1>2 DEF Stays, Quiet
<1>4. AdvanceOf(room', room'.playing) = AdvanceOf(s, s.playing)
  <2>1. Playable(room') = Playable(s) BY <1>3, AdvanceSame
  <2> QED BY <1>3, <2>1 DEF AdvanceOf
<1>5. Chosen(r, item, room') BY <1>2, <1>3, <1>4 DEF Chosen
<1>6. d \in DbType BY DEF SoundDb
<1>7. /\ Saved(s, d).media = d.media /\ Rows(Saved(s, d)) = Rows(d)
      /\ Saved(s, d).cur = s.cur /\ Saved(s, d).playing = s.playing /\ Saved(s, d).settings = d.settings
  BY <1>6 DEF Saved, Rows, DbType
<1>8. Wrote(d) BY <1>2, <1>3, <1>7 DEF Wrote
<1> QED BY <1>5, <1>8

\* The same of saving it where nothing fails.
LEMMA ChosenSync ==
  ASSUME NEW r, NEW item, NEW s, Chosen(r, item, s), NEW d, SoundDb(d), Save(s, d), Faults = {},
         r.queue = d.queue, item # None => item \in ToSet(r.queue), item = None => r.queue = <<>>
  PROVE  Anchored(room') /\ Agree(room', db') /\ room'.cur = item
<1>1. Sound(s) /\ s.queue = d.queue /\ s.cur = item BY DEF Chosen
<1>2. Anchored(s) BY DEF Chosen, Anchored
<1> QED BY <1>1, <1>2, SaveSync

\* The room went on: an item of its queue, or nothing, is current.
MovedOn(r0) ==
    \E r, item :
        /\ Quiet(r0, r) /\ r.media \in {r0.media, MediaBatch(db)}
        /\ item # None => item \in Items /\ item \in ToSet(r.queue)
        /\ Chosen(r, item, room')

\* It stopped at the top, with nobody here.
Topped(r0) ==
    /\ Here(r0) = {} /\ Sound(room')
    /\ room'.media = MediaBatch(db) /\ room'.cur \in ToSet(room'.queue)
    /\ room'.viewers = r0.viewers /\ room'.settings = r0.settings
    /\ room'.waiting = r0.waiting /\ room'.countdown = r0.countdown
    /\ ~room'.playing /\ room'.base = "start" /\ room'.slot["buffer"] = r0.slot["buffer"]

\* The queue was read again.
LEMMA ReloadedFacts ==
  ASSUME NEW r, Formed(r), NEW d, SoundDb(d), NEW s, s = Reloaded(r, d)
  PROVE  Quiet(r, s) /\ s.queue = d.queue /\ s.played = Kept(d.played) /\ s.media = MediaBatch(d)
<1>1. s = Put(r, d.queue, Kept(d.played), MediaBatch(d)) BY DEF Reloaded, Put
<1>2. r \in RoomType /\ d \in DbType /\ Apart(d.queue, d.played) BY DEF Formed, SoundDb
<1>3. Apart(d.queue, Kept(d.played)) BY <1>2, KeptApart
<1>4. MediaBatch(d) \in [Media -> MediaStatus] BY <1>2, BatchType
<1> QED BY <1>1, <1>2, <1>3, <1>4, Requeue

\* The first item of a queue is in it.
LEMMA HeadIn == ASSUME NEW q \in Seq(Items), q # <<>> PROVE Head(q) \in Items /\ Head(q) \in ToSet(q)
<1>1. 1 \in DOMAIN q /\ Head(q) = q[1] OBVIOUS
<1> QED BY <1>1 DEF ToSet

\* The first item of a queue, if any.
TopOf(q) == IF q = <<>> THEN None ELSE Head(q)

\* Where nothing fails, the loop goes on from the top of what was queued and
\* played, unless there are votes.
Looped(r, d) ==
    Faults = {} => /\ Anchored(room') /\ Agree(room', db')
                   /\ ~r.settings.votes => room'.cur = TopOf(d.queue \o Reverse(d.played))

\* loopLocked
LEMMA LoopFacts ==
  ASSUME NEW r, Sound(r), NEW d, SoundDb(d), d.media = db.media, Rows(d) = Rows(db),
         d.cur = db.cur, d.playing = db.playing, d.settings = db.settings, LoopRestart(r, d)
  PROVE  /\ Wrote(db) /\ Looped(r, d)
         /\ \/ "store" \in Faults /\ Quiet(r, room') /\ room'.media \in {r.media, MediaBatch(db)}
            \/ MovedOn(r)
            \/ Topped(r)
<1> DEFINE q1 == d.queue \o Reverse(d.played)
           d1 == Requeued(d)
           r1 == Reloaded(r, d1)
           Top(q) == IF q = <<>> THEN None ELSE Head(q)
           Started(q) == LET r2 == [r1 EXCEPT !.queue = q]
                         IN IF Here(r) = {} /\ q # <<>>
                              THEN SetPlayback([r2 EXCEPT !.cur = Top(q)], FALSE, "start")
                              ELSE SetCurrent(r2, Top(q))
<1>1. d \in DbType /\ Apart(d.queue, d.played) BY DEF SoundDb
<1>2. d1 = PutRows(d, q1, <<>>) BY <1>1 DEF Requeued, PutRows, DbType
<1>3. Apart(q1, <<>>) /\ ToSet(q1) = ToSet(d.queue) \cup ToSet(d.played) BY <1>1, RequeuedApart
<1> HIDE DEF q1
<1>4. /\ SoundDb(d1) /\ d1.queue = q1 /\ d1.played = <<>> /\ d1.media = d.media /\ d1.cur = d.cur
      /\ d1.playing = d.playing /\ d1.settings = d.settings
  <2> HIDE DEF d1
  <2> QED BY <1>2, <1>3, Rewritten
<1>5. Rows(d1) = Rows(db)
  <2>1. ToSet(<<>>) = {} BY EmptySet
  <2> QED BY <1>3, <1>4, <2>1 DEF Rows
<1> HIDE DEF d1
<1>6. /\ Quiet(r, r1) /\ r1.queue = q1 /\ r1.media = MediaBatch(db) /\ Sound(r1) /\ r1.settings = r.settings
  <2>1. Quiet(r, r1) /\ r1.queue = d1.queue /\ r1.media = MediaBatch(d1) BY <1>4, ReloadedFacts DEF Sound
  <2>2. MediaBatch(d1) = MediaBatch(db) BY <1>4 DEF MediaBatch
  <2> QED BY <1>4, <2>1, <2>2, QuietSound DEF Quiet
<1> HIDE DEF r1
<1>7. ASSUME NEW q, Rearranged(q1, q), NEW d2, SoundDb(d2), d2.queue = q, d2.media = db.media, Rows(d2) = Rows(db),
             d2.cur = db.cur, d2.playing = db.playing, d2.settings = db.settings, Save(Started(q), d2)
      PROVE  /\ Wrote(db) /\ (MovedOn(r) \/ Topped(r))
             /\ Faults = {} => Anchored(room') /\ Agree(room', db') /\ room'.cur = TopOf(q)
  <2> DEFINE r2 == Put(r1, q, r1.played, r1.media)
             top == Top(q)
  <2>1. Formed(r1) /\ r1 \in RoomType /\ Apart(r1.queue, r1.played) BY <1>6 DEF Sound, Formed
  <2>2. [r1 EXCEPT !.queue = q] = r2 BY <2>1, PutQueue
  <2>3. Apart(q, r1.played) BY <1>6, <1>7, <2>1, RearrangedApart
  <2>4. r1.media \in [Media -> MediaStatus] BY <2>1 DEF RoomType
  <2>5. Quiet(r1, r2) /\ r2.queue = q /\ r2.media = r1.media
    <3> HIDE DEF r2
    <3> QED BY <2>1, <2>3, <2>4, Requeue DEF r2
  <2>6. top \in Items \cup {None} /\ (top # None => top \in Items /\ top \in ToSet(q)) /\ (q # <<>> => top # None)
    <3>1. q \in Seq(Items) BY <1>7 DEF Rearranged
    <3> QED BY <3>1, HeadIn, RoomAssumption
  <2>t. top = TopOf(q) BY DEF TopOf
  <2> HIDE DEF r2, top
  <2>7. Formed(r2) /\ Here(r2) = Here(r) BY <1>6, <2>1, <2>5, QuietSound
  <2>8. Quiet(r, r2) BY <1>6, <2>5 DEF Quiet
  <2>9. CASE Here(r) = {} /\ q # <<>>
    <3> DEFINE t == [r2 EXCEPT !.cur = top]
               s == SetPlayback(t, FALSE, "start")
    <3>1. Started(q) = s BY <2>2, <2>9 DEF top
    <3>2. /\ Formed(t) /\ t.cur = top /\ t.queue = r2.queue /\ t.played = r2.played /\ t.media = r2.media
          /\ t.viewers = r2.viewers /\ t.waiting = r2.waiting /\ t.countdown = r2.countdown
          /\ t.slot = r2.slot /\ t.settings = r2.settings
      BY <2>6, <2>7, Replaced
    <3> HIDE DEF t
    <3>3. SetTo(t, FALSE, "start", s)
      <4>1. t \in RoomType /\ "start" \in Position BY <3>2 DEF Formed, Position
      <4> QED BY <4>1, SetPlaybackFacts
    <3>4. Sound(s) BY <3>2, <3>3, SetToSound
    <3>5. Save(s, d2) BY <1>7, <3>1
    <3> HIDE DEF s
    <3>6. Sound(room') /\ SoundDb(db') /\ Stays(s, room') /\ (db' = d2 \/ db' = Saved(s, d2))
      BY <1>7, <3>4, <3>5, SaveFacts
    <3>7. /\ room'.media = MediaBatch(db) /\ room'.cur = top /\ room'.queue = q
          /\ room'.viewers = r.viewers /\ room'.settings = r.settings /\ room'.waiting = r.waiting
          /\ room'.countdown = r.countdown /\ room'.playing = s.playing /\ ~s.playing /\ s.cur = room'.cur
          /\ room'.base = "start" /\ room'.slot["buffer"] = r.slot["buffer"]
      <4>1. /\ s.media = MediaBatch(db) /\ s.cur = top /\ s.queue = q /\ s.viewers = r.viewers
            /\ s.settings = r.settings /\ s.waiting = r.waiting /\ s.countdown = r.countdown
            /\ ~s.playing /\ s.base = "start" /\ s.slot["buffer"] = r.slot["buffer"]
        BY <1>6, <2>5, <2>8, <3>2, <3>3 DEF SetTo, Quiet, Kinds
      <4> QED BY <3>6, <4>1 DEF Stays, Quiet
    <3>8. d2 \in DbType BY <1>7 DEF SoundDb
    <3>9. /\ Saved(s, d2).media = d2.media /\ Rows(Saved(s, d2)) = Rows(d2) /\ Saved(s, d2).settings = d2.settings
          /\ Saved(s, d2).cur = s.cur /\ Saved(s, d2).playing = s.playing
      BY <3>8 DEF Saved, Rows, DbType
    <3>10. Wrote(db) BY <1>7, <3>6, <3>7, <3>9 DEF Wrote
    <3>11. Topped(r) BY <2>6, <2>9, <3>6, <3>7 DEF Topped
    <3>12. Faults = {} => Anchored(room') /\ Agree(room', db') /\ room'.cur = top
      <4>1. s.queue = q /\ s.cur = top /\ ~s.playing BY <2>5, <3>2, <3>3 DEF SetTo
      <4>2. Anchored(s) BY <2>6, <2>9, <4>1 DEF Anchored
      <4> QED BY <1>7, <3>4, <3>5, <4>1, <4>2, SaveSync
    <3> QED BY <2>t, <3>10, <3>11, <3>12
  <2>10. CASE ~(Here(r) = {} /\ q # <<>>)
    <3> DEFINE s == SetCurrent(r2, top)
    <3>1. Started(q) = s BY <2>2, <2>10 DEF top
    <3>2. Chosen(r2, top, s) BY <2>6, <2>7, SetCurrentFacts
    <3>3. Save(s, d2) BY <1>7, <3>1
    <3> HIDE DEF s
    <3>4. Chosen(r2, top, room') /\ Wrote(d2) BY <1>7, <3>2, <3>3, SaveChosen
    <3>5. Wrote(db) BY <1>7, <3>4 DEF Wrote
    <3>6. MovedOn(r) BY <1>6, <2>5, <2>6, <2>8, <3>4 DEF MovedOn
    <3>7. Faults = {} => Anchored(room') /\ Agree(room', db') /\ room'.cur = top
      BY <1>7, <2>5, <2>6, <3>2, <3>3, ChosenSync
    <3> QED BY <2>t, <3>5, <3>6, <3>7
  <2> QED BY <2>9, <2>10
<1>8. \/ Abort(r, d) \/ Abort(r, d1) \/ Abort(r1, d1)
      \/ Save(Started(d1.queue), d1)
      \/ r.settings.votes /\ (\E q \in RuleOrders(r1) : Save(Started(q), [d1 EXCEPT !.queue = q]))
  BY DEF LoopRestart, d1, r1
<1>9. Quiet(r, r) BY DEF Sound, Formed, Quiet
<1>10. CASE Abort(r, d) \/ Abort(r, d1) \/ Abort(r1, d1)
  <2>1. "store" \in Faults BY <1>10 DEF Abort, MayFail, Outcomes
  <2>2. room' \in {r, r1} /\ db' \in {d, d1} BY <1>10 DEF Abort
  <2>3. Wrote(db) BY <1>4, <1>5, <2>2 DEF Wrote
  <2>4. Quiet(r, room') /\ room'.media \in {r.media, MediaBatch(db)} BY <1>6, <1>9, <2>2
  <2>5. Looped(r, d) BY <2>1 DEF Looped
  <2> QED BY <2>1, <2>3, <2>4, <2>5
<1>11. CASE Save(Started(d1.queue), d1)
  <2>1. Rearranged(q1, d1.queue) BY <1>3, <1>4 DEF Rearranged, Apart
  <2> HIDE DEF Started
  <2>2. /\ Wrote(db) /\ (MovedOn(r) \/ Topped(r))
        /\ Faults = {} => Anchored(room') /\ Agree(room', db') /\ room'.cur = TopOf(d1.queue)
    BY <1>4, <1>5, <1>7, <1>11, <2>1
  <2>3. Looped(r, d) BY <1>4, <2>2 DEF Looped, q1
  <2> QED BY <2>2, <2>3
<1>12. ASSUME r.settings.votes, NEW q \in RuleOrders(r1), Save(Started(q), [d1 EXCEPT !.queue = q])
       PROVE  Wrote(db) /\ Looped(r, d) /\ (MovedOn(r) \/ Topped(r))
  <2>2. Once(r1.queue) BY <1>6 DEF Sound, Formed, Apart, Once
  <2>3. Rearranged(q1, q) BY <1>6, <2>2, RuleOrdersPart
  <2> DEFINE d2 == PutRows(d1, q, <<>>)
  <2>4. [d1 EXCEPT !.queue = q] = d2 BY <1>4 DEF PutRows, SoundDb, DbType
  <2>5. Apart(q, <<>>) BY <1>3, <2>3, RearrangedApart
  <2>6. /\ SoundDb(d2) /\ d2.queue = q /\ d2.played = <<>> /\ d2.media = db.media /\ d2.cur = db.cur
        /\ d2.playing = db.playing /\ d2.settings = db.settings
    <3> HIDE DEF d2
    <3> QED BY <1>4, <2>5, Rewritten DEF d2
  <2> HIDE DEF d2
  <2>7. Rows(d2) = Rows(db) BY <1>3, <1>4, <1>5, <2>3, <2>6 DEF Rows, Rearranged
  <2>8. Save(Started(q), d2) BY <1>12, <2>4
  <2> HIDE DEF Started
  <2>9. /\ Wrote(db) /\ (MovedOn(r) \/ Topped(r))
        /\ Faults = {} => Anchored(room') /\ Agree(room', db')
    BY <1>7, <2>3, <2>6, <2>7, <2>8
  <2>10. Looped(r, d) BY <1>12, <2>9 DEF Looped
  <2> QED BY <2>9, <2>10
<1> HIDE DEF Started
<1> QED BY <1>8, <1>10, <1>11, <1>12

\* A statement failed, and nothing but the queue and the history moved.
Failed(r0) ==
    "store" \in Faults /\ Quiet(r0, room') /\ room'.media \in {r0.media, MediaBatch(db)}

\* What is said of a room holds of one with another queue.
LEMMA WentQuiet ==
  ASSUME NEW r0, NEW r, Quiet(r0, r), r.media = r0.media
  PROVE  (Failed(r) => Failed(r0)) /\ (MovedOn(r) => MovedOn(r0)) /\ (Topped(r) => Topped(r0))
<1>1. Failed(r) => Failed(r0) BY DEF Failed, Quiet
<1>2. ASSUME MovedOn(r) PROVE MovedOn(r0)
  <2>1. PICK x, item : /\ Quiet(r, x) /\ x.media \in {r.media, MediaBatch(db)}
                       /\ item # None => item \in Items /\ item \in ToSet(x.queue)
                       /\ Chosen(x, item, room')
    BY <1>2 DEF MovedOn
  <2>2. Quiet(r0, x) BY <2>1 DEF Quiet
  <2> QED BY <2>1, <2>2 DEF MovedOn
<1>3. ASSUME Topped(r) PROVE Topped(r0)
  <2>1. Here(r) = Here(r0) BY QuietSound
  <2> QED BY <1>3, <2>1 DEF Topped, Quiet
<1> QED BY <1>1, <1>2, <1>3

\* Where nothing fails, going on leaves agreement, and the same item is current
\* again only when the loop put it on top: it is the oldest of the history.
Continued(r0) ==
    Faults = {} /\ r0.queue = db.queue =>
        /\ Anchored(room') /\ Agree(room', db')
        /\ ~r0.settings.votes /\ room'.cur = r0.cur => r0.cur = Last(Marked(db, Leaving(r0)).played)

\* nextLocked
LEMMA NextFacts ==
  ASSUME Inv, NEW r0, Sound(r0), r0.cur \in Items, NextLocked(r0)
  PROVE  Wrote(db) /\ (Failed(r0) \/ MovedOn(r0) \/ Topped(r0)) /\ Continued(r0)
<1> DEFINE going == Leaving(r0)
           r == MarkPlayed(r0, going)
           d == Marked(db, going)
           left == SubSeq(Following(r0), Len(going), Len(Following(r0)))
<1>0. SoundDb(db) /\ Formed(r0) /\ Once(r0.queue) BY DEF Inv, Sound, Formed, Apart, Once
<1>1. Once(going) /\ r0.cur \in ToSet(going)
  <2>1. PICK n : Goes(r0, n) BY <1>0, LeavingPart DEF Once
  <2> QED BY <2>1 DEF Goes, Once
<1>2. /\ left # <<>> => Head(left) \in Items /\ Head(left) \in ToSet(r0.queue) \ ToSet(going)
      /\ left = <<>> => ToSet(r0.queue) \subseteq ToSet(going)
  BY <1>0, LeftPart DEF Once
<1>3. \/ \E n \in 0..Len(going) - 1 :
           Abort(MarkPlayed(r0, SubSeq(going, 1, n)), Marked(db, SubSeq(going, 1, n)))
      \/ left # <<>> /\ Save(SetCurrent(r, Head(left)), d)
      \/ left = <<>> /\ Save(SetCurrent(r, None), d)
      \/ left = <<>> /\ LoopRestart(r, d)
  BY DEF NextLocked
<1>c. d.played = Marked(db, Leaving(r0)).played OBVIOUS
<1> HIDE DEF going
<1>4. Quiet(r0, r) /\ r.queue = Without(r0.queue, ToSet(going)) /\ r.media = r0.media
  BY <1>0, <1>1, MarkPlayedFacts
<1>5. /\ SoundDb(d) /\ d.queue = Without(db.queue, ToSet(going)) /\ d.media = db.media /\ d.cur = db.cur /\ d.playing = db.playing
      /\ d.settings = db.settings /\ Rows(d) = Rows(db)
  BY <1>0, <1>1, MarkedRows
<1>6. ToSet(r.queue) = ToSet(r0.queue) \ ToSet(going) BY <1>0, <1>4, WithoutSet DEF Once
<1>a. ToSet(r0.queue) \subseteq ToSet(going) => r.queue = <<>> BY <1>0, <1>4, WithoutCases DEF Once
<1>b. r0.cur # None BY RoomAssumption
<1> HIDE DEF r, d, left
<1>7. Sound(r) /\ Formed(r) BY <1>4, QuietSound DEF Sound
<1>8. CASE \E n \in 0..Len(going) - 1 :
             Abort(MarkPlayed(r0, SubSeq(going, 1, n)), Marked(db, SubSeq(going, 1, n)))
  <2>1. PICK n \in 0..Len(going) - 1 :
             Abort(MarkPlayed(r0, SubSeq(going, 1, n)), Marked(db, SubSeq(going, 1, n)))
    BY <1>8
  <2> DEFINE part == SubSeq(going, 1, n)
  <2>2. Once(part)
    <3>1. going \in Seq(Items) /\ IsInjective(going) /\ n \in Nat /\ 1 \in Nat /\ 1 >= 1 /\ n <= Len(going)
      <4>1. Len(going) \in Nat BY <1>1 DEF Once
      <4> QED BY <1>1, <4>1 DEF Once
    <3> QED BY <3>1, SubSeqSet DEF Once
  <2>3. "store" \in Faults /\ room' = MarkPlayed(r0, part) /\ db' = Marked(db, part)
    BY <2>1 DEF Abort, MayFail, Outcomes
  <2> HIDE DEF part
  <2>4. Quiet(r0, room') /\ room'.media = r0.media BY <1>0, <2>2, <2>3, MarkPlayedFacts
  <2>5. /\ SoundDb(db') /\ db'.media = db.media /\ db'.cur = db.cur /\ db'.playing = db.playing
        /\ db'.settings = db.settings /\ Rows(db') = Rows(db)
    BY <1>0, <2>2, <2>3, MarkedRows
  <2>6. Continued(r0) BY <2>3 DEF Continued
  <2> QED BY <2>3, <2>4, <2>5, <2>6 DEF Failed, Wrote
<1>9. ASSUME NEW item, item \in Items \cup {None}, item # None => item \in Items /\ item \in ToSet(r.queue),
             item = None => ToSet(r0.queue) \subseteq ToSet(going), Save(SetCurrent(r, item), d)
      PROVE  Wrote(db) /\ MovedOn(r0) /\ Continued(r0)
  <2> DEFINE s == SetCurrent(r, item)
  <2>1. Chosen(r, item, s) BY <1>7, <1>9, SetCurrentFacts
  <2>2. Save(s, d) BY <1>9
  <2> HIDE DEF s
  <2>3. Chosen(r, item, room') /\ Wrote(d) BY <1>5, <2>1, <2>2, SaveChosen
  <2>4. Wrote(db) BY <1>5, <2>3 DEF Wrote
  <2>5. MovedOn(r0) BY <1>4, <1>9, <2>3 DEF MovedOn
  <2>6. Continued(r0)
    <3> SUFFICES ASSUME Faults = {}, r0.queue = db.queue
                 PROVE  Anchored(room') /\ Agree(room', db') /\ room'.cur # r0.cur
      BY DEF Continued
    <3>1. r.queue = d.queue BY <1>4, <1>5
    <3>2. item = None => r.queue = <<>> BY <1>9, <1>a
    <3>3. Anchored(room') /\ Agree(room', db') /\ room'.cur = item
      BY <1>5, <1>9, <2>1, <2>2, <3>1, <3>2, ChosenSync
    <3>4. item # r0.cur BY <1>1, <1>6, <1>9, <1>b
    <3> QED BY <3>3, <3>4
  <2> QED BY <2>4, <2>5, <2>6
<1>10. CASE left # <<>> /\ Save(SetCurrent(r, Head(left)), d)
  <2>1. Head(left) \in Items /\ Head(left) # None /\ Head(left) \in ToSet(r.queue)
    BY <1>2, <1>6, <1>10, RoomAssumption
  <2> QED BY <1>9, <1>10, <2>1
<1>11. CASE left = <<>> /\ Save(SetCurrent(r, None), d) BY <1>2, <1>9, <1>11
<1>12. CASE left = <<>> /\ LoopRestart(r, d)
  <2>1. Wrote(db) /\ (Failed(r) \/ MovedOn(r) \/ Topped(r)) /\ Looped(r, d)
    BY <1>5, <1>7, <1>12, LoopFacts DEF Failed
  <2>2. Continued(r0)
    <3> SUFFICES ASSUME Faults = {}, r0.queue = db.queue
                 PROVE  /\ Anchored(room') /\ Agree(room', db')
                        /\ ~r0.settings.votes /\ room'.cur = r0.cur => r0.cur = Last(d.played)
      BY <1>c DEF Continued
    <3>1. d.queue = <<>> BY <1>2, <1>4, <1>5, <1>12, <1>a
    <3> DEFINE p == d.played
    <3>2. p \in Seq(Items) /\ Reverse(p) \in Seq(Items) BY <1>5, ReverseSet DEF SoundDb, DbType
    <3> HIDE DEF p
    <3>3. <<>> \o Reverse(p) = Reverse(p) BY <3>2
    <3>4. r.settings = r0.settings BY <1>4 DEF Quiet
    <3>5. ~r0.settings.votes => room'.cur = TopOf(Reverse(p)) BY <2>1, <3>1, <3>3, <3>4 DEF Looped, p
    <3>6. p # <<>> => TopOf(Reverse(p)) = Last(p) BY <3>2, ReverseHead DEF TopOf
    <3>7. p = <<>> => TopOf(Reverse(p)) = None
      <4>1. p = <<>> => ToSet(Reverse(p)) = {} BY <3>2, ReverseSet, EmptySet
      <4> QED BY <3>2, <4>1, NoElements DEF TopOf
    <3>8. ~r0.settings.votes /\ room'.cur = r0.cur => r0.cur = Last(p) BY <1>b, <3>5, <3>6, <3>7
    <3> QED BY <2>1, <3>8 DEF Looped, p
  <2> QED BY <1>4, <2>1, <2>2, WentQuiet
<1> QED BY <1>3, <1>8, <1>10, <1>11, <1>12

\* Which leaves a good room.
LEMMA NextGood ==
  ASSUME Inv, NEW r0, Sound(r0), r0.cur \in Items, NextLocked(r0), r0.queue = room.queue, WaitsFor(room) => WaitsFor(r0),
         UNCHANGED deleted
  PROVE  Preserved
<1>1. Wrote(db) /\ (Failed(r0) \/ MovedOn(r0) \/ Topped(r0)) /\ Continued(r0) BY NextFacts
<1>a. Keeps BY <1>1 DEF Continued, Keeps, Sync, Agree
<1>2. SoundDb(db') /\ deleted' \in BOOLEAN /\ Keeps BY <1>1, <1>a DEF Wrote, Inv
<1>3. CASE Failed(r0)
  <2>1. Sound(room') /\ WaitsFor(room') = WaitsFor(r0) BY <1>3, QuietSound DEF Failed
  <2> QED BY <1>2, <2>1 DEF Preserved
<1>4. CASE MovedOn(r0)
  <2>1. PICK r, item : Chosen(r, item, room') BY <1>4 DEF MovedOn
  <2> QED BY <1>2, <2>1 DEF Preserved, Chosen, WaitsFor
<1>5. CASE Topped(r0)
  <2>1. Stuck(r0) = {} BY <1>5, RoomAssumption DEF Topped, Here, Stuck
  <2>2. r0.cur # None BY RoomAssumption
  <2>3. WaitsFor(r0) => room'.waiting = {} BY <1>5, <2>1, <2>2 DEF Topped, WaitsFor
  <2> QED BY <1>2, <1>5, <2>3 DEF Preserved, Topped, WaitsFor
<1> QED BY <1>1, <1>3, <1>4, <1>5

-----------------------------------------------------------------------------
(***************************************************************************)
(* The commands, callbacks and news, one after the other                   *)
(***************************************************************************)

\* A new clock on a room.
LEMMA PlaybackFacts ==
  ASSUME NEW r, Formed(r), NEW playing \in BOOLEAN, NEW pos \in Position,
         NEW s, s = SetPlayback(r, playing, pos)
  PROVE  SetTo(r, playing, pos, s) /\ Sound(s) /\ WaitsFor(s) = WaitsFor(r)
<1>1. SetTo(r, playing, pos, s)
  <2>1. r \in RoomType BY DEF Formed
  <2> QED BY <2>1, SetPlaybackFacts
<1>2. Sound(s) BY <1>1, SetToSound
<1>3. s.cur = r.cur /\ s.waiting = r.waiting /\ s.viewers = r.viewers BY <1>1 DEF SetTo
<1>4. WaitsFor(s) = WaitsFor(r) BY <1>3 DEF WaitsFor, Stuck
<1> QED BY <1>1, <1>2, <1>4

\* A room goes on waiting for whom it waited, or for nobody.
LEMMA CalmWaits ==
  ASSUME NEW r, NEW s, Calm(r, s), s.waiting = r.waiting \/ s.waiting = {}
  PROVE  WaitsFor(r) => WaitsFor(s)
BY CalmSound DEF WaitsFor, Calm

\* What the timers in the slots do is not seen.
LEMMA SlottedWaits ==
  ASSUME NEW r, NEW k, NEW s, Slotted(r, k, s)
  PROVE  WaitsFor(s) = WaitsFor(r)
BY SameViews DEF WaitsFor, Slotted, Same

\* The countdown is set.
LEMMA CountFacts ==
  ASSUME NEW r \in RoomType, NEW c \in BOOLEAN, NEW s, s = [r EXCEPT !.countdown = c]
  PROVE  Calm(r, s) /\ s.waiting = r.waiting /\ s.countdown = c
<1>1. s \in RoomType /\ s.waiting = r.waiting /\ s.countdown = c BY DEF RoomType
<1> QED BY <1>1 DEF RoomType, Calm

\* Where playback starts.
LEMMA StartType == ASSUME NEW pos \in Position PROVE StartFrom(pos) \in Position
BY DEF StartFrom, Position

\* Play
LEMMA PlayGood == ASSUME Inv, NEW counted \in BOOLEAN, Play(counted) PROVE Preserved
<1> DEFINE r == EndWait(room)
           a == Arm(r, "countdown")
           b == [a EXCEPT !.countdown = TRUE]
           c == CancelCountdown(r)
           s == SetPlayback(c, TRUE, StartFrom(r.base))
<1>0. room \in RoomType /\ Sound(room) BY DEF Inv, Sound, Formed
<1>1. Calm(room, r) /\ r.waiting = {} BY <1>0, EndWaitFacts
<1>2. Sound(r) /\ r \in RoomType BY <1>0, <1>1, CalmSound DEF Calm
<1>3. WaitsFor(r) BY <1>1 DEF WaitsFor
<1>4. \/ Become(r, FALSE) \/ Become(b, FALSE) \/ Become(s, TRUE) BY DEF Play
<1>5. UNCHANGED deleted BY DEF Play
<1> HIDE DEF r
<1>6. CASE Become(r, FALSE)
  <2>1. Steady(r, FALSE) BY <1>1 DEF Calm, Steady
  <2> QED BY <1>2, <1>3, <1>5, <1>6, <2>1, BecomeGood
<1>7. CASE Become(b, FALSE)
  <2>0. "countdown" \in Kinds /\ "countdown" # "empty" BY DEF Kinds
  <2>1. Slotted(r, "countdown", a) BY <1>2, <2>0, ArmFacts
  <2>2. Sound(a) /\ a \in RoomType BY <1>2, <2>0, <2>1, SlottedSound DEF Slotted
  <2>3. WaitsFor(a) BY <1>3, <2>1, SlottedWaits
  <2> HIDE DEF a
  <2>4. Calm(a, b) /\ b.waiting = a.waiting BY <2>2, CountFacts
  <2> HIDE DEF b
  <2>5. Sound(b) /\ WaitsFor(b) BY <2>2, <2>3, <2>4, CalmSound, CalmWaits
  <2>6. Steady(b, FALSE) BY <1>1, <2>1, <2>4 DEF Calm, Slotted, Same, Steady
  <2> QED BY <1>5, <1>7, <2>5, <2>6, BecomeGood
<1>8. CASE Become(s, TRUE)
  <2>1. Calm(r, c) /\ c.waiting = r.waiting BY <1>2, CancelFacts
  <2>2. Formed(c) /\ WaitsFor(c) BY <1>2, <1>3, <2>1, CalmSound, CalmWaits DEF Sound
  <2>3. StartFrom(r.base) \in Position BY <1>2, StartType DEF RoomType
  <2> HIDE DEF c
  <2>4. SetTo(c, TRUE, StartFrom(r.base), s) /\ Sound(s) /\ WaitsFor(s) BY <2>2, <2>3, PlaybackFacts
  <2> HIDE DEF s
  <2>5. room.cur # None BY DEF Play, Playable, HasMedia
  <2>6. Steady(s, TRUE) BY <1>1, <2>1, <2>4, <2>5 DEF Calm, SetTo, Steady
  <2> QED BY <1>5, <1>8, <2>4, <2>6, BecomeGood
<1> QED BY <1>4, <1>6, <1>7, <1>8

\* Pause
LEMMA PauseGood == ASSUME Inv, Pause PROVE Preserved
<1> DEFINE u == EndWait(room)
           r == CancelCountdown(u)
           s == SetPlayback(r, FALSE, r.here)
<1>0. room \in RoomType /\ Sound(room) BY DEF Inv, Sound, Formed
<1>1. Calm(room, u) /\ u.waiting = {} BY <1>0, EndWaitFacts
<1>2. Become(IF r.playing THEN s ELSE r, r.playing) /\ UNCHANGED deleted BY DEF Pause
<1> HIDE DEF u
<1>3. Calm(u, r) /\ r.waiting = u.waiting
  <2>1. u \in RoomType BY <1>1 DEF Calm
  <2> QED BY <2>1, CancelFacts
<1> HIDE DEF r
<1>4. Sound(r) /\ WaitsFor(r) BY <1>0, <1>1, <1>3, CalmSound DEF WaitsFor
<1>5. SetTo(r, FALSE, r.here, s) /\ Sound(s) /\ WaitsFor(s)
  <2>1. Formed(r) /\ r.here \in Position BY <1>4 DEF Sound, Formed, RoomType
  <2> QED BY <1>4, <2>1, PlaybackFacts
<1> HIDE DEF s
<1>6. CASE r.playing
  <2>1. Steady(s, r.playing) BY <1>1, <1>3, <1>5, <1>6 DEF Calm, SetTo, Steady
  <2> QED BY <1>2, <1>5, <1>6, <2>1, BecomeGood
<1>7. CASE ~r.playing
  <2>1. Steady(r, r.playing) BY <1>1, <1>3 DEF Calm, Steady
  <2> QED BY <1>2, <1>4, <1>7, <2>1, BecomeGood
<1> QED BY <1>6, <1>7

\* Seek
LEMMA SeekGood == ASSUME Inv, NEW pos \in Position, Seek(pos) PROVE Preserved
<1> DEFINE p == room.playing /\ Playable(room)
           s == SetPlayback(room, p, pos)
<1>0. Formed(room) /\ p \in BOOLEAN BY DEF Inv, Sound, Formed
<1>1. Become(s, TRUE) /\ UNCHANGED deleted /\ (p => room.playing) BY DEF Seek
<1> HIDE DEF p
<1>2. SetTo(room, p, pos, s) /\ Sound(s) /\ WaitsFor(s) = WaitsFor(room) BY <1>0, PlaybackFacts
<1> HIDE DEF s
<1>3. Steady(s, TRUE) BY <1>1, <1>2 DEF SetTo, Steady
<1> QED BY <1>1, <1>2, <1>3, BecomeGood

\* SetRate: the clock goes on from here, set anew.
LEMMA SetRateGood == ASSUME Inv, SetRate PROVE Preserved
<1> DEFINE s == SetPlayback(room, room.playing, room.here)
<1>0. Formed(room) /\ room.playing \in BOOLEAN /\ room.here \in Position BY DEF Inv, Sound, Formed, RoomType
<1>1. Become(s, TRUE) /\ UNCHANGED deleted BY DEF SetRate
<1>2. SetTo(room, room.playing, room.here, s) /\ Sound(s) /\ WaitsFor(s) = WaitsFor(room) BY <1>0, PlaybackFacts
<1> HIDE DEF s
<1>3. Steady(s, TRUE) BY <1>2 DEF SetTo, Steady
<1> QED BY <1>1, <1>2, <1>3, BecomeGood

\* The current item is one.
LEMMA CurItem == ASSUME Inv, room.cur # None PROVE room.cur \in Items
BY DEF Inv, Sound, Formed, RoomType

\* NextItem
LEMMA NextItemGood == ASSUME Inv, NextItem PROVE Preserved
BY CurItem, NextGood DEF NextItem, Inv

\* SkipVote, once enough people voted.
LEMMA SkipVoteGood == ASSUME Inv, SkipVote PROVE Preserved
BY CurItem, NextGood DEF SkipVote, Inv

\* Jump
LEMMA JumpGood == ASSUME Inv, NEW item \in Items, Jump(item) PROVE Preserved
<1> DEFINE going == IF room.cur \in {None, item} THEN <<>> ELSE <<room.cur>>
           r == MarkPlayed(room, going)
           d == Marked(db, going)
           s == SetCurrent(r, item)
<1>0. SoundDb(db) /\ Formed(room) BY DEF Inv, Sound
<1>1. Abort(room, db) \/ Save(s, d) BY DEF Jump
<1>2. UNCHANGED deleted BY DEF Jump
<1>3. Once(going) /\ item \notin ToSet(going)
  <2>1. room.cur # None => room.cur \in Items BY CurItem
  <2> QED BY <2>1, SingleSet, EmptySet DEF Once
<1> HIDE DEF going
<1>4. CASE Abort(room, db)
  <2>1. Keeps BY <1>4 DEF Abort, MayFail, Outcomes, Keeps
  <2> QED BY <1>2, <1>4, <2>1 DEF Abort, Inv, Preserved
<1>5. CASE Save(s, d)
  <2>1. Quiet(room, r) /\ r.queue = Without(room.queue, ToSet(going)) BY <1>0, <1>3, MarkPlayedFacts
  <2>2. Formed(r) BY <1>0, <2>1, QuietSound
  <2>3. SoundDb(d) /\ d.queue = Without(db.queue, ToSet(going)) BY <1>0, <1>3, MarkedRows
  <2> HIDE DEF r, d
  <2>4. Chosen(r, item, s) BY <2>2, SetCurrentFacts
  <2> HIDE DEF s
  <2>5. Chosen(r, item, room') /\ Wrote(d) BY <1>5, <2>3, <2>4, SaveChosen
  <2>6. item \in ToSet(r.queue)
    <3>1. room.queue \in Seq(Items) BY <1>0 DEF Formed, Apart
    <3>2. item \in ToSet(room.queue) BY <3>1, ContainsSet DEF Jump
    <3>3. ToSet(r.queue) = ToSet(room.queue) \ ToSet(going) BY <2>1, <3>1, WithoutSet
    <3> QED BY <1>3, <3>2, <3>3
  <2>7. Keeps
    <3> SUFFICES ASSUME Faults = {}, Sync PROVE Anchored(room') /\ Agree(room', db')
      BY <1>2 DEF Keeps, Sync
    <3>1. r.queue = d.queue BY <2>1, <2>3 DEF Sync, Agree
    <3>2. item # None BY RoomAssumption
    <3> QED BY <1>5, <2>3, <2>4, <2>6, <3>1, <3>2, ChosenSync
  <2> QED BY <1>2, <2>5, <2>7 DEF Preserved, Chosen, Wrote, WaitsFor, Inv
<1> QED BY <1>1, <1>4, <1>5

\* SetQueueRanks only rearranges the rows of the queue.
LEMMA RankedRows ==
  ASSUME NEW d, SoundDb(d), NEW q, NEW s \in Ranked(d, q)
  PROVE  /\ SoundDb(s) /\ s.media = d.media /\ s.cur = d.cur /\ s.playing = d.playing
         /\ s.base = d.base /\ s.settings = d.settings /\ Rows(s) = Rows(d)
         /\ Rearranged(d.queue, q) => s.queue = q
<1>0. d \in DbType /\ Apart(d.queue, d.played) BY DEF SoundDb
<1>1. PICK t \in SetToSeqs(ToSet(d.queue)) :
         s = [d EXCEPT !.queue = t] /\ Only(t, ToSet(q)) = Only(q, ToSet(d.queue))
  BY DEF Ranked
<1>2. Rearranged(d.queue, t) BY <1>0, OrderSet DEF Apart, Rearranged
<1>3. Apart(t, d.played) BY <1>0, <1>2, RearrangedApart
<1>4. s = PutRows(d, t, d.played) BY <1>0, <1>1 DEF PutRows, DbType
<1>5. /\ SoundDb(s) /\ s.queue = t /\ s.played = d.played /\ s.media = d.media /\ s.cur = d.cur
      /\ s.playing = d.playing /\ s.base = d.base /\ s.settings = d.settings
  BY <1>3, <1>4, Rewritten
<1>6. Rows(s) = Rows(d) BY <1>2, <1>5 DEF Rows, Rearranged
<1>7. ASSUME Rearranged(d.queue, q) PROVE t = q
  <2>1. /\ t \in Seq(Items) /\ q \in Seq(Items)
        /\ ToSet(t) \subseteq ToSet(q) /\ ToSet(q) \subseteq ToSet(d.queue)
    BY <1>2, <1>7 DEF Rearranged
  <2>2. Only(t, ToSet(q)) = t /\ Only(q, ToSet(d.queue)) = q BY <2>1, OnlyAll
  <2> QED BY <1>1, <2>2
<1> QED BY <1>5, <1>6, <1>7

\* applyOrderLocked
LEMMA ApplyOrderRows ==
  ASSUME NEW d, SoundDb(d), NEW r, NEW q, NEW s \in ApplyOrder(r, d, q)
  PROVE  /\ SoundDb(s) /\ s.media = d.media /\ s.cur = d.cur /\ s.playing = d.playing
         /\ s.base = d.base /\ s.settings = d.settings /\ Rows(s) = Rows(d)
         /\ Rearranged(d.queue, q) /\ r.queue = d.queue => s.queue = q
<1>1. CASE s = d /\ q = r.queue BY <1>1
<1>2. CASE s \in Ranked(d, q) BY <1>2, RankedRows
<1> QED BY <1>1, <1>2 DEF ApplyOrder

\* Where the room knew the rows of the queue, they are now in its order.
LEMMA AppliedOrder ==
  ASSUME NEW d, SoundDb(d), NEW r, NEW q, NEW s \in ApplyOrder(r, d, q), Rearranged(d.queue, q), r.queue = d.queue
  PROVE  s.queue = q
BY ApplyOrderRows

\* Items that are new to the room and to the tables.
NewItems(batch) ==
    /\ Once(batch) /\ batch # <<>>
    /\ ToSet(batch) \cap ToSet(room.queue) = {} /\ ToSet(batch) \cap ToSet(room.played) = {}
    /\ ToSet(batch) \cap Rows(db) = {} /\ room.cur \notin ToSet(batch) /\ db.cur \notin ToSet(batch)

\* They were queued, and the first of them is current if nothing was.
Queued(batch, media) ==
    /\ Keeps /\ SoundDb(db') /\ db'.media = Created(batch) /\ Rows(db') = Rows(db) \cup ToSet(batch)
    /\ \/ db'.cur = db.cur /\ db'.playing = db.playing
       \/ db'.cur = room'.cur /\ db'.playing = room'.playing
    /\ \/ Quiet(room, room') /\ room'.media = media /\ ToSet(room'.queue) = ToSet(room.queue) \cup ToSet(batch)
       \/ \E r : /\ Quiet(room, r) /\ r.media = media /\ batch[1] \in ToSet(r.queue) /\ batch[1] \in Items
                 /\ Chosen(r, batch[1], room')

\* The rows of a batch come with their media.
LEMMA CreatedRows ==
  ASSUME SoundDb(db), NEW batch, Once(batch), ToSet(batch) \cap Rows(db) = {},
         NEW d, d = [db EXCEPT !.queue = @ \o batch, !.media = Created(batch)]
  PROVE  /\ SoundDb(d) /\ d.media = Created(batch) /\ d.cur = db.cur /\ d.playing = db.playing
         /\ d.base = db.base /\ d.settings = db.settings /\ Rows(d) = Rows(db) \cup ToSet(batch)
         /\ d.queue = db.queue \o batch
<1> DEFINE q == db.queue \o batch
           m == Created(batch)
<1>0. db \in DbType /\ Apart(db.queue, db.played) BY DEF SoundDb
<1>1. Once(db.queue) /\ ToSet(db.queue) \cap ToSet(batch) = {} BY <1>0 DEF Apart, Once, Rows
<1>2. Once(q) /\ ToSet(q) = ToSet(db.queue) \cup ToSet(batch) BY <1>1, Joined
<1>3. m \in [Media -> MediaStatus \cup {"gone"}]
  <2>1. MediaBatch(db) \in [Media -> MediaStatus] BY <1>0, BatchType
  <2> QED BY <1>0, <2>1 DEF Created, DbType
<1>4. d = [db EXCEPT !.queue = q, !.media = m] BY <1>0 DEF DbType
<1> HIDE DEF q, m
<1>5. d \in DbType BY <1>0, <1>2, <1>3, <1>4 DEF DbType, Once
<1>6. /\ d.queue = q /\ d.played = db.played /\ d.media = m /\ d.cur = db.cur /\ d.playing = db.playing
      /\ d.base = db.base /\ d.settings = db.settings
  BY <1>0, <1>4 DEF DbType
<1>7. Apart(q, db.played) BY <1>0, <1>2 DEF Apart, Once, Rows
<1>8. SoundDb(d) BY <1>5, <1>6, <1>7 DEF SoundDb
<1>9. Rows(d) = Rows(db) \cup ToSet(batch) BY <1>2, <1>6 DEF Rows
<1> QED BY <1>6, <1>8, <1>9 DEF q, m

\* enqueueLocked
LEMMA EnqueueFacts ==
  ASSUME Inv, NEW batch, NewItems(batch), NEW media \in [Media -> MediaStatus],
         NEW next, Rearranged(room.queue \o batch, next), Enqueue(batch, media, next)
  PROVE  Queued(batch, media) /\ UNCHANGED deleted
<1> DEFINE q0 == room.queue \o batch
           r == [room EXCEPT !.queue = @ \o batch, !.media = media]
           d == [db EXCEPT !.queue = @ \o batch, !.media = Created(batch)]
<1>0. SoundDb(db) /\ Formed(room) /\ room \in RoomType /\ Apart(room.queue, room.played) BY DEF Inv, Sound, Formed
<1>1. Once(q0) /\ ToSet(q0) = ToSet(room.queue) \cup ToSet(batch) BY <1>0, Joined DEF NewItems, Apart, Once
<1>2. Apart(q0, room.played) BY <1>0, <1>1 DEF Apart, Once, NewItems
<1>3. r = Put(room, q0, room.played, media) BY <1>0 DEF Put, RoomType
<1>4. \E q \in IF r.settings.votes THEN {r.queue} ELSE FairOrders(r) \cup IF r.cur = None THEN {} ELSE {next} :
         \/ Abort(r, d)
         \/ \E d1 \in ApplyOrder(r, d, q) :
              IF [r EXCEPT !.queue = q].cur = None
                THEN Save(SetCurrent([r EXCEPT !.queue = q], batch[1]), d1)
                ELSE room' = [r EXCEPT !.queue = q] /\ db' = d1
  BY DEF Enqueue
<1>5. UNCHANGED deleted BY DEF Enqueue
<1> HIDE DEF q0
<1>6. /\ Quiet(room, r) /\ r.queue = q0 /\ r.played = room.played /\ r.media = media
      /\ r.unsaved = room.unsaved
  <2> HIDE DEF r
  <2> QED BY <1>0, <1>2, <1>3, Requeue
<1>7. /\ SoundDb(d) /\ d.media = Created(batch) /\ d.cur = db.cur /\ d.playing = db.playing
      /\ d.base = db.base /\ Rows(d) = Rows(db) \cup ToSet(batch) /\ d.queue = db.queue \o batch
  BY <1>0, CreatedRows DEF NewItems
<1> HIDE DEF r, d
<1>8. r \in RoomType /\ Formed(r) /\ Once(r.queue) BY <1>0, <1>1, <1>6, QuietSound DEF Formed
<1>9. PICK q : /\ \/ q = r.queue \/ q \in FairOrders(r) \/ q = next
               /\ \/ Abort(r, d)
                  \/ \E d1 \in ApplyOrder(r, d, q) :
                       IF [r EXCEPT !.queue = q].cur = None
                         THEN Save(SetCurrent([r EXCEPT !.queue = q], batch[1]), d1)
                         ELSE room' = [r EXCEPT !.queue = q] /\ db' = d1
  BY <1>4
<1>10. Rearranged(r.queue, q)
  <2>1. CASE q = r.queue BY <2>1, <1>8 DEF Rearranged, Once
  <2>2. CASE q \in FairOrders(r) BY <2>2, <1>8, FairOrdersPart
  <2>3. CASE q = next BY <2>3, <1>6 DEF q0
  <2> QED BY <1>9, <2>1, <2>2, <2>3
<1> DEFINE r1 == Put(r, q, r.played, r.media)
<1>11. [r EXCEPT !.queue = q] = r1 BY <1>8, PutQueue
<1>12. Quiet(r, r1) /\ r1.queue = q /\ r1.media = media /\ r1.unsaved = r.unsaved
  <2>1. Apart(q, r.played) BY <1>2, <1>6, <1>10, RearrangedApart
  <2>2. r.media \in [Media -> MediaStatus] BY <1>6
  <2> HIDE DEF r1
  <2> QED BY <1>6, <1>8, <2>1, <2>2, Requeue DEF r1
<1> HIDE DEF r1
<1>13. Quiet(room, r1) /\ Formed(r1) BY <1>0, <1>6, <1>12, QuietSound DEF Quiet
<1>14. ToSet(r1.queue) = ToSet(room.queue) \cup ToSet(batch) BY <1>1, <1>6, <1>10, <1>12 DEF Rearranged
<1>15. CASE Abort(r, d)
  <2>1. Keeps BY <1>15 DEF Abort, MayFail, Outcomes, Keeps
  <2> QED BY <1>1, <1>5, <1>6, <1>7, <1>15, <2>1 DEF Abort, Queued
<1>a. Sync => r.queue = d.queue BY <1>6, <1>7 DEF Sync, Agree, q0
<1>16. CASE \E d1 \in ApplyOrder(r, d, q) :
              IF r1.cur = None THEN Save(SetCurrent(r1, batch[1]), d1) ELSE room' = r1 /\ db' = d1
  <2>1. PICK d1 \in ApplyOrder(r, d, q) :
              IF r1.cur = None THEN Save(SetCurrent(r1, batch[1]), d1) ELSE room' = r1 /\ db' = d1
    BY <1>16
  <2>2. /\ SoundDb(d1) /\ d1.media = Created(batch) /\ d1.cur = db.cur /\ d1.playing = db.playing
        /\ d1.base = db.base /\ Rows(d1) = Rows(db) \cup ToSet(batch)
    BY <1>7, ApplyOrderRows
  <2>a. Sync => d1.queue = q
    <3> SUFFICES ASSUME Sync PROVE d1.queue = q OBVIOUS
    <3>1. Rearranged(d.queue, q) /\ r.queue = d.queue BY <1>10, <1>a
    <3> QED BY <1>7, <3>1, AppliedOrder
  <2>3. CASE r1.cur # None
    <3>1. room' = r1 /\ db' = d1 BY <2>1, <2>3
    <3>2. Keeps
      <4> SUFFICES ASSUME Sync PROVE Anchored(r1) /\ Agree(r1, d1) BY <1>5, <3>1 DEF Keeps, Sync
      <4>1. r1.cur = room.cur /\ r1.playing = room.playing /\ r1.base = room.base /\ ~r1.unsaved
        BY <1>6, <1>12, <1>13 DEF Quiet, Sync, Agree
      <4>2. Anchored(r1) BY <1>14, <2>3, <4>1 DEF Sync, Anchored
      <4>3. Agree(r1, d1) BY <1>12, <2>2, <2>a, <4>1 DEF Sync, Agree
      <4> QED BY <4>2, <4>3
    <3> QED BY <1>5, <1>12, <1>13, <1>14, <2>2, <3>1, <3>2 DEF Queued
  <2>4. CASE r1.cur = None
    <3> DEFINE i == batch[1]
               s == SetCurrent(r1, i)
    <3>1. i \in Items /\ i \in ToSet(batch)
      <4>1. batch \in Seq(Items) /\ batch # <<>> BY DEF NewItems, Once
      <4>2. 1 \in DOMAIN batch BY <4>1
      <4> QED BY <4>1, <4>2 DEF ToSet
    <3>2. Save(s, d1) BY <2>1, <2>4
    <3> HIDE DEF i
    <3>3. Chosen(r1, i, s) BY <1>13, <3>1, SetCurrentFacts
    <3> HIDE DEF s
    <3>4. Chosen(r1, i, room') /\ Wrote(d1) BY <2>2, <3>2, <3>3, SaveChosen
    <3>5. i \in ToSet(r1.queue) BY <1>14, <3>1
    <3>6. Keeps
      <4> SUFFICES ASSUME Faults = {}, Sync PROVE Anchored(room') /\ Agree(room', db')
        BY <1>5 DEF Keeps, Sync
      <4>1. i # None BY <3>1, RoomAssumption
      <4>2. r1.queue = d1.queue BY <1>12, <2>a
      <4> QED BY <2>2, <3>2, <3>3, <3>5, <4>1, <4>2, ChosenSync
    <3> QED BY <1>5, <1>12, <1>13, <2>2, <3>1, <3>4, <3>5, <3>6 DEF Queued, Wrote, i
  <2> QED BY <2>3, <2>4
<1> QED BY <1>9, <1>11, <1>15, <1>16

\* Which leaves a good room.
LEMMA QueuedGood ==
  ASSUME Inv, NEW batch, NEW media, Queued(batch, media), UNCHANGED deleted
  PROVE  Preserved
<1>1. SoundDb(db') /\ deleted' \in BOOLEAN /\ Keeps BY DEF Queued, Inv
<1>2. CASE Quiet(room, room') BY <1>1, <1>2, QuietSound DEF Preserved, Inv
<1>3. CASE \E r : batch[1] \in Items /\ Chosen(r, batch[1], room')
  <2>1. PICK r : batch[1] \in Items /\ Chosen(r, batch[1], room') BY <1>3
  <2> QED BY <1>1, <2>1 DEF Preserved, Chosen, WaitsFor
<1> QED BY <1>2, <1>3 DEF Queued

\* One element behind the others.
LEMMA AppendConcat == ASSUME NEW S, NEW s \in Seq(S), NEW e \in S PROVE Append(s, e) = s \o <<e>>
OBVIOUS

\* The room's copies of the media are what the rows say.
LEMMA FreshMediaType == ASSUME Inv, NEW batch PROVE FreshMedia(batch) \in [Media -> MediaStatus]
<1>1. MediaBatch(db) \in [Media -> MediaStatus] BY BatchType DEF Inv, SoundDb
<1>2. room.media \in [Media -> MediaStatus] BY DEF Inv, Sound, Formed, RoomType
<1> QED BY <1>1, <1>2 DEF FreshMedia

\* A row nothing mentions is new.
LEMMA FreshNew ==
  ASSUME NEW batch, Once(batch), batch # <<>>, \A i \in ToSet(batch) : Fresh(i)
  PROVE  NewItems(batch)
<1>1. \A i \in ToSet(batch) : i \notin Mentioned BY DEF Fresh
<1>2. /\ ToSet(room.queue) \subseteq Mentioned /\ ToSet(room.played) \subseteq Mentioned
      /\ Rows(db) \subseteq Mentioned /\ room.cur \in Mentioned /\ db.cur \in Mentioned
  BY DEF Mentioned
<1> QED BY <1>1, <1>2 DEF NewItems

\* One new item.
LEMMA FreshOne == ASSUME NEW item \in Items, Fresh(item) PROVE NewItems(<<item>>)
<1> DEFINE b == <<item>>
<1>1. Once(b) /\ ToSet(b) = {item} BY SingleSet DEF Once
<1>2. b # <<>> OBVIOUS
<1> HIDE DEF b
<1>3. NewItems(b) BY <1>1, <1>2, FreshNew
<1> QED BY <1>3 DEF b

\* QueueAdd queues it.
LEMMA QueueAddFacts ==
  ASSUME Inv, NEW item \in Items, QueueAdd(item)
  PROVE  Queued(<<item>>, FreshMedia(<<item>>)) /\ UNCHANGED deleted
<1> DEFINE b == <<item>>
           q == Append(room.queue, item)
           r == [room EXCEPT !.queue = q]
           next == PlaceAfter(r, item, room.cur)
<1>0. room \in RoomType /\ Once(room.queue) BY DEF Inv, Sound, Formed, Apart, Once
<1>1. Enqueue(b, FreshMedia(b), next) /\ Fresh(item) BY <1>0 DEF QueueAdd, RoomType
<1>2. NewItems(b) BY <1>1, FreshOne
<1>3. Once(b) /\ ToSet(b) = {item} BY SingleSet DEF Once
<1>4. q = room.queue \o b BY <1>0, AppendConcat DEF Once
<1> HIDE DEF b, q
<1>5. Once(q) /\ ToSet(q) = ToSet(room.queue) \cup {item}
  <2>1. ToSet(room.queue) \cap ToSet(b) = {} BY <1>2 DEF NewItems
  <2>2. Once(q) /\ ToSet(q) = ToSet(room.queue) \cup ToSet(b) BY <1>0, <1>3, <1>4, <2>1, Joined
  <2> QED BY <1>3, <2>2
<1>6. r.queue = q BY <1>0 DEF RoomType
<1> HIDE DEF r
<1>7. Rearranged(q, next) BY <1>5, <1>6, PlaceAfterPart
<1> HIDE DEF next
<1>8. FreshMedia(b) \in [Media -> MediaStatus] BY FreshMediaType
<1>9. Queued(b, FreshMedia(b)) /\ UNCHANGED deleted BY <1>1, <1>2, <1>4, <1>7, <1>8, EnqueueFacts
<1> QED BY <1>9 DEF b

\* So does QueueReplay, with the media as the room has them.
LEMMA QueueReplayFacts ==
  ASSUME Inv, NEW old \in Items, NEW item \in Items, QueueReplay(old, item)
  PROVE  Queued(<<item>>, room.media) /\ UNCHANGED deleted
<1> DEFINE b == <<item>>
           q == Append(room.queue, item)
<1>0. Once(room.queue) /\ room.media \in [Media -> MediaStatus] BY DEF Inv, Sound, Formed, RoomType, Apart, Once
<1>1. Enqueue(b, room.media, q) /\ Fresh(item) BY DEF QueueReplay
<1>2. NewItems(b) BY <1>1, FreshOne
<1>3. Once(b) /\ ToSet(b) = {item} BY SingleSet DEF Once
<1>4. q = room.queue \o b BY <1>0, AppendConcat DEF Once
<1> HIDE DEF b
<1>5. Once(q) BY <1>0, <1>2, <1>3, <1>4, Joined DEF NewItems
<1> HIDE DEF q
<1>6. Rearranged(q, q) BY <1>5 DEF Rearranged, Once
<1>7. Queued(b, room.media) /\ UNCHANGED deleted BY <1>0, <1>1, <1>2, <1>4, <1>6, EnqueueFacts
<1> QED BY <1>7 DEF b

\* And QueueAddMany, unless the rows are written and the room not told.
LEMMA QueueAddManyFacts ==
  ASSUME Inv, NEW batch \in Seq(Items), batch # <<>>, QueueAddMany(batch)
  PROVE  /\ UNCHANGED deleted
         /\ \/ Queued(batch, FreshMedia(batch))
            \/ "store" \in Faults /\ SoundDb(db') /\ Quiet(room, room')
<1>0. room \in RoomType /\ Apart(room.queue, room.played) /\ Once(room.queue) BY DEF Inv, Sound, Formed, Apart, Once
<1>1. NewItems(batch) /\ Once(batch) BY FreshNew DEF QueueAddMany, Once
<1>2. FreshMedia(batch) \in [Media -> MediaStatus] BY FreshMediaType
<1> DEFINE next == BatchAfterCurrent(room, batch)
           r == [room EXCEPT !.media = FreshMedia(batch)]
           d == [db EXCEPT !.queue = @ \o batch, !.media = Created(batch)]
<1>3. Enqueue(batch, FreshMedia(batch), next) \/ (Abort(r, d) /\ UNCHANGED deleted) BY DEF QueueAddMany
<1>4. CASE Enqueue(batch, FreshMedia(batch), next)
  <2>1. Rearranged(room.queue \o batch, next) BY <1>0, <1>1, BatchPart DEF NewItems
  <2> HIDE DEF next
  <2> QED BY <1>1, <1>2, <1>4, <2>1, EnqueueFacts
<1>5. CASE Abort(r, d) /\ UNCHANGED deleted
  <2>1. "store" \in Faults /\ room' = r /\ db' = d BY <1>5 DEF Abort, MayFail, Outcomes
  <2>2. r = Put(room, room.queue, room.played, FreshMedia(batch)) BY <1>0 DEF Put, RoomType
  <2> HIDE DEF r
  <2>3. Quiet(room, r) BY <1>0, <1>2, <2>2, Requeue
  <2>4. SoundDb(d) BY <1>1, CreatedRows DEF NewItems, Inv
  <2> QED BY <1>5, <2>1, <2>3, <2>4
<1> QED BY <1>3, <1>4, <1>5

\* QueueAdd leaves a good room behind.
LEMMA QueueAddGood == ASSUME Inv, NEW item \in Items, QueueAdd(item) PROVE Preserved
BY QueueAddFacts, QueuedGood

\* So does QueueReplay ...
LEMMA QueueReplayGood == ASSUME Inv, NEW old \in Items, NEW item \in Items, QueueReplay(old, item) PROVE Preserved
BY QueueReplayFacts, QueuedGood

\* ... and QueueAddMany.
LEMMA QueueAddManyGood == ASSUME Inv, NEW batch \in Seq(Items), batch # <<>>, QueueAddMany(batch) PROVE Preserved
<1>1. UNCHANGED deleted BY QueueAddManyFacts
<1>2. CASE Queued(batch, FreshMedia(batch)) BY <1>1, <1>2, QueuedGood
<1>3. CASE "store" \in Faults /\ SoundDb(db') /\ Quiet(room, room')
  <2>1. Keeps BY <1>3 DEF Keeps
  <2> QED BY <1>1, <1>3, <2>1, QuietSound DEF Preserved, Inv
<1> QED BY <1>2, <1>3, QueueAddManyFacts

\* A step that leaves the queue and the clock alone, or saves nothing new.
LEMMA StillSync ==
  ASSUME Steady(room', FALSE), db'.queue = db.queue, db'.cur = db.cur, db'.playing = db.playing,
         db'.base = db.base, deleted' = deleted
  PROVE  Keeps
BY DEF Steady, Keeps, Sync, Anchored, Agree

\* A step that changes the queue in the room and in the tables alike.
LEMMA QueueSync ==
  ASSUME Quiet(room, room'), room'.unsaved = room.unsaved, db'.playing = db.playing, db'.base = db.base,
         deleted' = deleted,
         Sync => /\ room'.queue = db'.queue /\ db'.cur = db.cur
                 /\ room.cur # None => room.cur \in ToSet(room'.queue)
                 /\ room.cur = None => room'.queue = <<>>
  PROVE  Keeps
BY DEF Quiet, Keeps, Sync, Anchored, Agree

\* The current item stays queued if it was, and nothing is added to the rows.
Tidied ==
    /\ Quiet(room, room') /\ room'.media = room.media /\ deleted' = deleted
    /\ room.cur \in ToSet(room.queue) => room.cur \in ToSet(room'.queue)
    /\ SoundDb(db') /\ db'.media = db.media /\ Rows(db') \subseteq Rows(db)
    /\ db'.playing = db.playing /\ db'.cur \in {db.cur, None}
    /\ Keeps

\* Which leaves a good room.
LEMMA TidiedGood == ASSUME Inv, Tidied PROVE Preserved
BY QuietSound DEF Tidied, Preserved, Inv

\* QueueRemove, of another item than the current one.
LEMMA RemoveFacts ==
  ASSUME Inv, NEW item \in Items, QueueRemove(item), ~(item = room.cur /\ NextLocked(room))
  PROVE  Tidied
<1> DEFINE q == Without(room.queue, {item})
<1>0. room \in RoomType /\ Apart(room.queue, room.played) /\ SoundDb(db) BY DEF Inv, Sound, Formed
<1>1. item # room.cur /\ room' = [room EXCEPT !.queue = q] /\ db' = Deleted(db, {item}) /\ UNCHANGED deleted
  BY <1>0 DEF QueueRemove, RoomType
<1>2. q \in Seq(Items) /\ ToSet(q) = ToSet(room.queue) \ {item} /\ IsInjective(q) BY <1>0, WithoutSet DEF Apart
<1>3. Apart(q, room.played) BY <1>0, <1>2 DEF Apart
<1> HIDE DEF q
<1>4. room' = Put(room, q, room.played, room.media) BY <1>0, <1>1, PutQueue
<1>5. room.media \in [Media -> MediaStatus] BY <1>0 DEF RoomType
<1>6. /\ Quiet(room, room') /\ room'.media = room.media /\ room'.queue = q /\ room'.unsaved = room.unsaved
  BY <1>0, <1>3, <1>4, <1>5, Requeue
<1>7. /\ SoundDb(db') /\ db'.media = db.media /\ Rows(db') = Rows(db) \ {item} /\ db'.playing = db.playing
      /\ db'.cur \in {db.cur, None} /\ db'.base = db.base /\ db'.queue = Without(db.queue, {item})
      /\ item # db.cur => db'.cur = db.cur
  BY <1>0, <1>1, DeletedRows
<1>8. Keeps
  <2>1. ASSUME Sync
        PROVE  /\ q = db'.queue /\ db'.cur = db.cur
               /\ room.cur # None => room.cur \in ToSet(q)
               /\ room.cur = None => q = <<>>
    <3>1. room.queue = db.queue /\ room.cur = db.cur BY <2>1 DEF Sync, Agree
    <3>2. room.cur # None => room.cur \in ToSet(room.queue) BY <2>1 DEF Sync, Anchored
    <3>3. room.cur = None => ToSet(room.queue) = {} BY <2>1, EmptySet DEF Sync, Anchored
    <3>4. room.cur = None => q = <<>> BY <1>2, <3>3, NoElements
    <3> QED BY <1>1, <1>2, <1>7, <3>1, <3>2, <3>4 DEF q
  <2> QED BY <1>1, <1>6, <1>7, <2>1, QueueSync
<1> QED BY <1>1, <1>2, <1>6, <1>7, <1>8 DEF Tidied

\* QueueRemove: the removal of the current item is a skip.
LEMMA QueueRemoveGood == ASSUME Inv, NEW item \in Items, QueueRemove(item) PROVE Preserved
<1>1. CASE item = room.cur /\ NextLocked(room) BY <1>1, NextGood DEF QueueRemove, Inv
<1>2. CASE ~(item = room.cur /\ NextLocked(room)) BY <1>2, RemoveFacts, TidiedGood
<1> QED BY <1>1, <1>2

\* QueueClear: everything but the current item goes.
LEMMA ClearFacts == ASSUME Inv, QueueClear PROVE Tidied
<1> DEFINE q == Only(room.queue, {room.cur})
<1>0. room \in RoomType /\ Apart(room.queue, room.played) /\ SoundDb(db) BY DEF Inv, Sound, Formed
<1>1. /\ room' = [room EXCEPT !.queue = q] /\ db' = Deleted(db, ToSet(db.queue) \ {room.cur})
      /\ UNCHANGED deleted
  BY <1>0 DEF QueueClear, RoomType
<1>2. q \in Seq(Items) /\ ToSet(q) = ToSet(room.queue) \cap {room.cur} /\ IsInjective(q)
  BY <1>0, OnlySet, OnlyInjective DEF Apart
<1>3. Apart(q, room.played) BY <1>0, <1>2 DEF Apart
<1> HIDE DEF q
<1>4. room' = Put(room, q, room.played, room.media) BY <1>0, <1>1, PutQueue
<1>5. room.media \in [Media -> MediaStatus] BY <1>0 DEF RoomType
<1>6. /\ Quiet(room, room') /\ room'.media = room.media /\ room'.queue = q /\ room'.unsaved = room.unsaved
  BY <1>0, <1>3, <1>4, <1>5, Requeue
<1> DEFINE gone == ToSet(db.queue) \ {room.cur}
<1>7. /\ SoundDb(db') /\ db'.media = db.media /\ Rows(db') = Rows(db) \ gone /\ db'.playing = db.playing
      /\ db'.cur \in {db.cur, None} /\ db'.base = db.base /\ db'.queue = Without(db.queue, gone)
      /\ db.cur \notin gone => db'.cur = db.cur
  <2>1. db' = Deleted(db, gone) BY <1>1
  <2> HIDE DEF gone
  <2> QED BY <1>0, <2>1, DeletedRows
<1>8. Keeps
  <2>1. ASSUME Sync
        PROVE  /\ q = db'.queue /\ db'.cur = db.cur
               /\ room.cur # None => room.cur \in ToSet(q)
               /\ room.cur = None => q = <<>>
    <3>1. room.queue = db.queue /\ room.cur = db.cur BY <2>1 DEF Sync, Agree
    <3>2. room.cur # None => room.cur \in ToSet(room.queue) BY <2>1 DEF Sync, Anchored
    <3>3. room.cur = None => ToSet(room.queue) = {} BY <2>1, EmptySet DEF Sync, Anchored
    <3>4. room.cur = None => q = <<>> BY <1>2, <3>3, NoElements
    <3> DEFINE kept == {room.cur}
               others == ToSet(db.queue) \ gone
    <3>5. ToSet(room.queue) \cap kept = ToSet(room.queue) \cap others BY <3>1
    <3>6. Only(room.queue, kept) = Only(room.queue, others)
      <4>1. room.queue \in Seq(Items) BY <1>0 DEF Apart
      <4> HIDE DEF kept, others
      <4> QED BY <3>5, <4>1, OnlySame
    <3>7. q = db'.queue BY <1>7, <3>1, <3>6 DEF q, Without
    <3> QED BY <1>2, <1>7, <3>1, <3>2, <3>4, <3>7
  <2> QED BY <1>1, <1>6, <1>7, <2>1, QueueSync
<1> QED BY <1>1, <1>2, <1>6, <1>7, <1>8 DEF Tidied

\* QueueClearPlayed: the history goes.
LEMMA ClearPlayedFacts == ASSUME Inv, QueueClearPlayed PROVE Tidied
<1>0. room \in RoomType /\ Apart(room.queue, room.played) /\ SoundDb(db) BY DEF Inv, Sound, Formed
<1>1. room' = [room EXCEPT !.played = <<>>] /\ db' = Deleted(db, ToSet(db.played)) /\ UNCHANGED deleted
  BY DEF QueueClearPlayed
<1>2. Apart(room.queue, <<>>)
  <2>1. <<>> \in Seq(Items) /\ ToSet(<<>>) = {} /\ IsInjective(<<>>) BY EmptySet
  <2> QED BY <1>0, <2>1 DEF Apart
<1>3. room' = Put(room, room.queue, <<>>, room.media) BY <1>0, <1>1 DEF Put, RoomType
<1>4. room.media \in [Media -> MediaStatus] BY <1>0 DEF RoomType
<1>5. /\ Quiet(room, room') /\ room'.media = room.media /\ room'.queue = room.queue /\ room'.unsaved = room.unsaved
  BY <1>0, <1>2, <1>3, <1>4, Requeue
<1> DEFINE gone == ToSet(db.played)
<1>6. /\ SoundDb(db') /\ db'.media = db.media /\ Rows(db') = Rows(db) \ gone /\ db'.playing = db.playing
      /\ db'.cur \in {db.cur, None} /\ db'.base = db.base /\ db'.queue = Without(db.queue, gone)
      /\ db.cur \notin gone => db'.cur = db.cur
  <2>1. db' = Deleted(db, gone) BY <1>1
  <2> HIDE DEF gone
  <2> QED BY <1>0, <2>1, DeletedRows
<1>7. Keeps
  <2>1. ToSet(db.queue) \cap gone = {} /\ db.queue \in Seq(Items) BY <1>0 DEF SoundDb, Apart
  <2> HIDE DEF gone
  <2>2. db'.queue = db.queue BY <1>6, <2>1, WithoutCases
  <2>3. ASSUME Sync
        PROVE  /\ room'.queue = db'.queue /\ db'.cur = db.cur
               /\ room.cur # None => room.cur \in ToSet(room'.queue)
               /\ room.cur = None => room'.queue = <<>>
    <3>1. room.queue = db.queue /\ room.cur = db.cur BY <2>3 DEF Sync, Agree
    <3>2. /\ room.cur # None => room.cur \in ToSet(room.queue)
          /\ room.cur = None => room.queue = <<>>
      BY <2>3 DEF Sync, Anchored
    <3>3. db.cur \notin gone
      <4>1. CASE room.cur # None BY <2>1, <3>1, <3>2, <4>1
      <4>2. CASE room.cur = None
        <5>1. gone \subseteq Items BY <1>0 DEF gone, SoundDb, Apart, ToSet
        <5> QED BY <3>1, <4>2, <5>1, RoomAssumption
      <4> QED BY <4>1, <4>2
    <3> QED BY <1>5, <1>6, <2>2, <3>1, <3>2, <3>3
  <2> QED BY <1>1, <1>5, <1>6, <2>3, QueueSync
<1> QED BY <1>1, <1>5, <1>6, <1>7 DEF Tidied

\* The queue in another order.
LEMMA ReorderFacts ==
  ASSUME Inv, NEW q, Rearranged(room.queue, q), Reorder(q)
  PROVE  Tidied
<1>0. room \in RoomType /\ Apart(room.queue, room.played) /\ SoundDb(db) BY DEF Inv, Sound, Formed
<1>1. room' = [room EXCEPT !.queue = q] /\ db' \in ApplyOrder(room, db, q) /\ UNCHANGED deleted BY DEF Reorder
<1>2. Apart(q, room.played) BY <1>0, RearrangedApart
<1>3. room' = Put(room, q, room.played, room.media) BY <1>0, <1>1, PutQueue
<1>4. room.media \in [Media -> MediaStatus] BY <1>0 DEF RoomType
<1>5. /\ Quiet(room, room') /\ room'.media = room.media /\ room'.queue = q /\ room'.unsaved = room.unsaved
  BY <1>0, <1>2, <1>3, <1>4, Requeue
<1>6. /\ SoundDb(db') /\ db'.media = db.media /\ Rows(db') = Rows(db) /\ db'.playing = db.playing /\ db'.cur = db.cur
      /\ db'.base = db.base
  BY <1>0, <1>1, ApplyOrderRows
<1>7. Rearranged(db.queue, q) /\ room.queue = db.queue => db'.queue = q BY <1>0, <1>1, ApplyOrderRows
<1>8. Keeps
  <2>1. ASSUME Sync
        PROVE  /\ q = db'.queue
               /\ room.cur # None => room.cur \in ToSet(q)
               /\ room.cur = None => q = <<>>
    <3>1. room.queue = db.queue BY <2>1 DEF Sync, Agree
    <3>2. room.cur # None => room.cur \in ToSet(room.queue) BY <2>1 DEF Sync, Anchored
    <3>3. room.cur = None => ToSet(room.queue) = {} BY <2>1, EmptySet DEF Sync, Anchored
    <3>4. q \in Seq(Items) /\ ToSet(q) = ToSet(room.queue) BY DEF Rearranged
    <3>5. room.cur = None => q = <<>> BY <3>3, <3>4, NoElements
    <3> QED BY <1>7, <3>1, <3>2, <3>4, <3>5
  <2> QED BY <1>1, <1>5, <1>6, <2>1, QueueSync
<1> QED BY <1>1, <1>5, <1>6, <1>8 DEF Tidied, Rearranged

\* QueueMove
LEMMA QueueMoveFacts == ASSUME Inv, NEW item, NEW after, QueueMove(item, after) PROVE Tidied
<1>0. Once(room.queue) BY DEF Inv, Sound, Formed, Apart, Once
<1>1. item \in ToSet(room.queue) BY <1>0, ContainsSet DEF QueueMove, Once
<1> DEFINE q == PlaceAfter(room, item, after)
<1>2. Rearranged(room.queue, q) BY <1>0, <1>1, PlaceAfterPart
<1>3. Reorder(q) BY DEF QueueMove
<1> HIDE DEF q
<1> QED BY <1>2, <1>3, ReorderFacts

\* QueueShuffle
LEMMA QueueShuffleFacts == ASSUME Inv, QueueShuffle PROVE Tidied
<1>0. Once(room.queue) BY DEF Inv, Sound, Formed, Apart, Once
<1>1. PICK q \in Orders(room) : Reorder(q) BY DEF QueueShuffle
<1> QED BY <1>0, <1>1, OrdersPart, ReorderFacts

\* QueueVote
LEMMA QueueVoteFacts == ASSUME Inv, NEW item, QueueVote(item) PROVE Tidied
<1>0. Once(room.queue) BY DEF Inv, Sound, Formed, Apart, Once
<1>1. PICK q \in RuleOrders(room) : Reorder(q) BY DEF QueueVote
<1> QED BY <1>0, <1>1, RuleOrdersPart, ReorderFacts

\* A room with nothing current, and nobody in it.
LEMMA OutFacts ==
  ASSUME NEW r, Sound(r), ~r.playing, NEW s, s = [r EXCEPT !.viewers = [v \in Viewers |-> "out"]]
  PROVE  /\ Sound(s) /\ s.queue = r.queue /\ s.media = r.media /\ s.cur = r.cur /\ s.playing = r.playing
         /\ s.waiting = r.waiting /\ s.countdown = r.countdown /\ s.adv = r.adv /\ s.settings = r.settings
<1> DEFINE out == [v \in Viewers |-> "out"]
<1>0. r \in RoomType /\ out \in [Viewers -> ViewerState] BY DEF Sound, Formed, ViewerState
<1> HIDE DEF out
<1>1. s = [r EXCEPT !.viewers = out] BY DEF out
<1>2. s \in RoomType BY <1>0, <1>1 DEF RoomType
<1>3. /\ s.queue = r.queue /\ s.played = r.played /\ s.media = r.media /\ s.cur = r.cur /\ s.playing = r.playing
      /\ s.here = r.here /\ s.adv = r.adv /\ s.ended = r.ended
      /\ s.waiting = r.waiting /\ s.countdown = r.countdown /\ s.settings = r.settings
  BY <1>0, <1>1 DEF RoomType
<1>4. Formed(s) /\ AtEnd(s) /\ EmptyArmed(s)
  BY <1>2, <1>3 DEF Sound, Formed, Held, AtEnd, EmptyArmed
<1> QED BY <1>3, <1>4 DEF Sound

\* EndSession leaves nothing current, unless a statement fails.
LEMMA EndSessionFacts ==
  ASSUME Inv, EndSession
  PROVE  /\ Wrote(db) /\ UNCHANGED deleted /\ Sound(room') /\ Keeps
         /\ \/ Failed(room)
            \/ /\ room'.cur = None /\ ~room'.playing /\ room'.media = room.media
               /\ room'.waiting = room.waiting /\ room'.countdown = room.countdown
<1> DEFINE q == room.queue
           r == MarkPlayed(room, q)
           d == Marked(db, q)
           s == SetCurrent(r, None)
           o == [s EXCEPT !.viewers = [v \in Viewers |-> "out"]]
<1>0. SoundDb(db) /\ Formed(room) /\ Once(room.queue) /\ Sound(room) BY DEF Inv, Sound, Formed, Apart, Once
<1>1. \/ \E n \in 0..Len(q) - 1 : Abort(MarkPlayed(room, SubSeq(q, 1, n)), Marked(db, SubSeq(q, 1, n)))
      \/ Save(o, d)
  BY DEF EndSession
<1>2. UNCHANGED deleted BY DEF EndSession
<1>3. CASE \E n \in 0..Len(q) - 1 : Abort(MarkPlayed(room, SubSeq(q, 1, n)), Marked(db, SubSeq(q, 1, n)))
  <2>1. PICK n \in 0..Len(q) - 1 : Abort(MarkPlayed(room, SubSeq(q, 1, n)), Marked(db, SubSeq(q, 1, n)))
    BY <1>3
  <2> DEFINE part == SubSeq(q, 1, n)
  <2>2. Once(part)
    <3>1. q \in Seq(Items) /\ IsInjective(q) /\ n \in Nat /\ 1 \in Nat /\ 1 >= 1 /\ n <= Len(q)
      <4>1. Len(q) \in Nat BY <1>0 DEF Once
      <4> QED BY <1>0, <4>1 DEF Once
    <3> QED BY <3>1, SubSeqSet DEF Once
  <2>3. "store" \in Faults /\ room' = MarkPlayed(room, part) /\ db' = Marked(db, part)
    BY <2>1 DEF Abort, MayFail, Outcomes
  <2> HIDE DEF part
  <2>4. Quiet(room, room') /\ room'.media = room.media BY <1>0, <2>2, <2>3, MarkPlayedFacts
  <2>5. /\ SoundDb(db') /\ db'.media = db.media /\ db'.cur = db.cur /\ db'.playing = db.playing
        /\ db'.settings = db.settings /\ Rows(db') = Rows(db)
    BY <1>0, <2>2, <2>3, MarkedRows
  <2>6. Sound(room') BY <1>0, <2>4, QuietSound
  <2>7. Keeps BY <2>3 DEF Keeps
  <2> QED BY <1>2, <2>3, <2>4, <2>5, <2>6, <2>7 DEF Failed, Wrote
<1>4. CASE Save(o, d)
  <2>1. Quiet(room, r) /\ r.media = room.media /\ r.queue = Without(room.queue, ToSet(q))
    BY <1>0, MarkPlayedFacts
  <2>2. Formed(r) BY <1>0, <2>1, QuietSound
  <2>3. /\ SoundDb(d) /\ d.media = db.media /\ d.cur = db.cur /\ d.playing = db.playing
        /\ d.settings = db.settings /\ Rows(d) = Rows(db) /\ d.queue = Without(db.queue, ToSet(q))
    BY <1>0, MarkedRows
  <2> HIDE DEF r, d
  <2>4. Chosen(r, None, s) BY <2>2, SetCurrentFacts
  <2> HIDE DEF s
  <2>5. /\ s.cur = None /\ ~s.playing /\ s.waiting = room.waiting /\ s.countdown = room.countdown
        /\ s.media = room.media /\ s.queue = r.queue /\ Sound(s)
    BY <2>1, <2>4 DEF Chosen, Quiet
  <2>6. /\ Sound(o) /\ o.media = s.media /\ o.cur = s.cur /\ o.playing = s.playing
        /\ o.waiting = s.waiting /\ o.countdown = s.countdown /\ o.queue = s.queue
    BY <2>5, OutFacts
  <2> HIDE DEF o
  <2>7. Sound(room') /\ SoundDb(db') /\ Stays(o, room') /\ (db' = d \/ db' = Saved(o, d))
    BY <1>4, <2>3, <2>6, SaveFacts
  <2>8. /\ room'.cur = None /\ ~room'.playing /\ room'.media = room.media
        /\ room'.waiting = room.waiting /\ room'.countdown = room.countdown /\ room'.playing = o.playing
    BY <2>5, <2>6, <2>7 DEF Stays, Quiet
  <2>9. d \in DbType BY <2>3 DEF SoundDb
  <2>10. /\ Saved(o, d).media = d.media /\ Rows(Saved(o, d)) = Rows(d) /\ Saved(o, d).settings = d.settings
         /\ Saved(o, d).cur = o.cur /\ Saved(o, d).playing = o.playing
    BY <2>9 DEF Saved, Rows, DbType
  <2>11. Wrote(db) BY <2>3, <2>5, <2>6, <2>7, <2>8, <2>10 DEF Wrote
  <2>12. Keeps
    <3> SUFFICES ASSUME Faults = {}, Sync PROVE Anchored(room') /\ Agree(room', db')
      BY <1>2 DEF Keeps, Sync
    <3>1. r.queue = <<>> /\ d.queue = <<>>
      <4>1. room.queue \in Seq(Items) /\ ToSet(room.queue) \subseteq ToSet(room.queue) BY <1>0 DEF Once
      <4>2. Without(room.queue, ToSet(room.queue)) = <<>> BY <4>1, WithoutCases
      <4>3. room.queue = db.queue BY DEF Sync, Agree
      <4> QED BY <2>1, <2>3, <4>2, <4>3
    <3>2. Anchored(o) BY <2>5, <2>6, <3>1 DEF Anchored
    <3>3. o.queue = d.queue BY <2>5, <2>6, <3>1
    <3> QED BY <1>4, <2>3, <2>6, <3>2, <3>3, SaveSync
  <2> QED BY <1>2, <2>7, <2>8, <2>11, <2>12
<1> QED BY <1>1, <1>3, <1>4

\* EndSession leaves a good room behind.
LEMMA EndSessionGood == ASSUME Inv, EndSession PROVE Preserved
<1>1. SoundDb(db') /\ deleted' \in BOOLEAN /\ Sound(room') /\ Keeps BY EndSessionFacts DEF Wrote, Inv
<1>2. WaitsFor(room) => WaitsFor(room')
  <2>1. CASE Failed(room) BY <2>1, QuietSound DEF Failed
  <2>2. CASE room'.cur = None BY <2>2 DEF WaitsFor
  <2> QED BY <2>1, <2>2, EndSessionFacts
<1> QED BY <1>1, <1>2 DEF Preserved

\* Only the settings, the order of the queue and the empty-room pause differ.
Set(s) ==
    /\ Sound(room') /\ SoundDb(db') /\ deleted' = deleted /\ (Viewers = {} \/ Here(room) # {})
    /\ room'.media = room.media /\ room'.cur = room.cur /\ ToSet(room'.queue) = ToSet(room.queue)
    /\ room'.playing = room.playing /\ room'.waiting = room.waiting /\ room'.countdown = room.countdown
    /\ room'.adv = room.adv /\ room'.viewers = room.viewers
    /\ room'.slot["buffer"] = room.slot["buffer"]
    /\ db'.media = db.media /\ Rows(db') = Rows(db) /\ db'.playing = db.playing /\ db'.cur = db.cur
    /\ Keeps

\* The empty-room pause of a room with viewers here does not matter.
LEMMA HereSound ==
  ASSUME NEW r, Formed(r), AtEnd(r), Viewers # {} => Here(r) # {}
  PROVE  Sound(r)
BY DEF Sound, EmptyArmed

\* SettingsSet
LEMMA SettingsFacts == ASSUME Inv, NEW s \in Settings, SettingsSet(s) PROVE Set(s)
<1> DEFINE r == IF s.pauseWhenEmpty THEN room ELSE Stop(room, "empty")
           r1 == [r EXCEPT !.settings = s]
           d == [db EXCEPT !.settings = s]
<1>0. /\ SoundDb(db) /\ db \in DbType /\ room \in RoomType /\ Sound(room) /\ Apart(room.queue, room.played)
      /\ Once(room.queue) /\ Held(room) /\ AtEnd(room) /\ Apart(db.queue, db.played)
  BY DEF Inv, Sound, Formed, Apart, Once, SoundDb
<1>1. /\ Viewers = {} \/ Here(room) # {}
      /\ UNCHANGED deleted
      /\ \/ Abort(r, db) \/ Abort(r1, d)
         \/ \E q \in RuleOrders(r1) \cup FairOrders(r1) :
              room' = [r1 EXCEPT !.queue = q] /\ db' \in ApplyOrder(r1, d, q)
  BY DEF SettingsSet
<1>2. Slotted(room, "empty", r)
  <2>1. Slotted(room, "empty", room) BY <1>0 DEF Slotted, Same
  <2>2. "empty" \in Kinds BY DEF Kinds
  <2>3. Slotted(room, "empty", Stop(room, "empty")) BY <1>0, <2>2, StopFacts
  <2> QED BY <2>1, <2>3
<1> HIDE DEF r
<1>3. /\ r \in RoomType /\ r.queue = room.queue /\ r.played = room.played /\ r.media = room.media
      /\ r.cur = room.cur /\ r.playing = room.playing /\ r.waiting = room.waiting
      /\ r.countdown = room.countdown /\ r.adv = room.adv /\ r.ended = room.ended /\ r.viewers = room.viewers
      /\ r.here = room.here /\ r.base = room.base /\ r.unsaved = room.unsaved /\ r.slot["buffer"] = room.slot["buffer"]
  BY <1>2 DEF Slotted, Same, Kinds
<1>4. /\ r1 \in RoomType /\ r1.queue = r.queue /\ r1.played = r.played /\ r1.media = r.media
      /\ r1.cur = r.cur /\ r1.playing = r.playing /\ r1.waiting = r.waiting
      /\ r1.countdown = r.countdown /\ r1.adv = r.adv /\ r1.ended = r.ended /\ r1.viewers = r.viewers
      /\ r1.here = r.here /\ r1.base = r.base /\ r1.unsaved = r.unsaved /\ r1.slot = r.slot /\ r1.settings = s
  BY <1>3 DEF RoomType
<1>5. /\ SoundDb(d) /\ d.media = db.media /\ Rows(d) = Rows(db) /\ d.playing = db.playing /\ d.cur = db.cur
      /\ d.queue = db.queue /\ d.base = db.base
  <2>1. d \in DbType BY <1>0 DEF DbType
  <2>2. /\ d.queue = db.queue /\ d.played = db.played /\ d.media = db.media /\ d.playing = db.playing
        /\ d.cur = db.cur /\ d.base = db.base
    BY <1>0 DEF DbType
  <2> QED BY <1>0, <2>1, <2>2 DEF SoundDb, Rows
<1> HIDE DEF r1, d
<1>6. Sound(r)
  <2>1. Formed(r) /\ AtEnd(r) BY <1>0, <1>3 DEF Formed, Held, AtEnd
  <2>2. Viewers # {} => Here(r) # {} BY <1>1, <1>3 DEF Here
  <2> QED BY <2>1, <2>2, HereSound
<1>7. Sound(r1)
  <2>1. Formed(r1) /\ AtEnd(r1) BY <1>0, <1>3, <1>4 DEF Formed, Held, AtEnd
  <2>2. Viewers # {} => Here(r1) # {} BY <1>1, <1>3, <1>4 DEF Here
  <2> QED BY <2>1, <2>2, HereSound
<1>a. MayFail => Keeps BY DEF MayFail, Outcomes, Keeps
<1>8. CASE Abort(r, db) BY <1>0, <1>1, <1>3, <1>6, <1>8, <1>a DEF Abort, Set
<1>9. CASE Abort(r1, d) BY <1>1, <1>3, <1>4, <1>5, <1>7, <1>9, <1>a DEF Abort, Set
<1>10. CASE \E q \in RuleOrders(r1) \cup FairOrders(r1) :
              room' = [r1 EXCEPT !.queue = q] /\ db' \in ApplyOrder(r1, d, q)
  <2>1. PICK q \in RuleOrders(r1) \cup FairOrders(r1) :
              room' = [r1 EXCEPT !.queue = q] /\ db' \in ApplyOrder(r1, d, q)
    BY <1>10
  <2>2. Once(r1.queue) /\ Apart(r1.queue, r1.played) BY <1>0, <1>3, <1>4
  <2>3. Rearranged(r1.queue, q) BY <2>2, RuleOrdersPart, FairOrdersPart
  <2>4. Apart(q, r1.played) BY <2>2, <2>3, RearrangedApart
  <2>5. room' = Put(r1, q, r1.played, r1.media) BY <1>4, <2>1, PutQueue
  <2>6. r1.media \in [Media -> MediaStatus] BY <1>4 DEF RoomType
  <2>7. /\ Quiet(r1, room') /\ room'.media = r1.media /\ room'.queue = q /\ room'.unsaved = r1.unsaved
    BY <1>4, <2>4, <2>5, <2>6, Requeue
  <2>8. Sound(room') BY <1>7, <2>7, QuietSound
  <2>9. ToSet(room'.queue) = ToSet(room.queue) BY <1>3, <1>4, <2>3, <2>7 DEF Rearranged
  <2>10. /\ SoundDb(db') /\ db'.media = d.media /\ Rows(db') = Rows(d) /\ db'.playing = d.playing
         /\ db'.cur = d.cur /\ db'.base = d.base
    BY <1>5, <2>1, ApplyOrderRows
  <2>11. /\ room'.cur = r1.cur /\ room'.playing = r1.playing /\ room'.waiting = r1.waiting
         /\ room'.countdown = r1.countdown /\ room'.adv = r1.adv /\ room'.viewers = r1.viewers
         /\ room'.slot = r1.slot /\ room'.base = r1.base
    BY <2>7 DEF Quiet
  <2>12. Keeps
    <3> SUFFICES ASSUME Sync PROVE Anchored(room') /\ Agree(room', db') BY <1>1 DEF Keeps, Sync
    <3>1. /\ room'.cur = room.cur /\ room'.playing = room.playing /\ room'.base = room.base
          /\ room'.unsaved = room.unsaved
      BY <1>3, <1>4, <2>7, <2>11
    <3>2. r1.queue = d.queue BY <1>3, <1>4, <1>5 DEF Sync, Agree
    <3>3. Rearranged(d.queue, q) BY <2>3, <3>2
    <3>4. db'.queue = q BY <1>5, <2>1, <3>2, <3>3, AppliedOrder
    <3>5. Agree(room', db') BY <1>5, <2>7, <2>10, <3>1, <3>4 DEF Sync, Agree
    <3>6. room.cur = None => ToSet(q) = {} BY <2>7, <2>9, EmptySet DEF Sync, Anchored
    <3>7. room.cur = None => q = <<>> BY <2>3, <3>6, NoElements DEF Rearranged
    <3>8. Anchored(room') BY <2>7, <2>9, <3>1, <3>7 DEF Sync, Anchored
    <3> QED BY <3>5, <3>8
  <2> QED BY <1>1, <1>3, <1>4, <1>5, <2>7, <2>8, <2>9, <2>10, <2>11, <2>12 DEF Set
<1> QED BY <1>1, <1>8, <1>9, <1>10

\* SettingsSet leaves a good room behind.
LEMMA SettingsGood == ASSUME Inv, NEW s \in Settings, SettingsSet(s) PROVE Preserved
<1>1. Set(s) BY SettingsFacts
<1>2. WaitsFor(room) => WaitsFor(room') BY <1>1 DEF Set, WaitsFor, Stuck
<1>3. deleted' \in BOOLEAN /\ Sound(room') /\ SoundDb(db') /\ Keeps BY <1>1 DEF Set, Inv
<1> QED BY <1>2, <1>3 DEF Preserved

\* QueueRetry: the media of the item waits again, in the room and in the tables.
LEMMA QueueRetryGood == ASSUME Inv, NEW item \in Items, QueueRetry(item) PROVE Preserved
<1> DEFINE l == Link[item]
           m == [room.media EXCEPT ![l] = "wait"]
           n == [db.media EXCEPT ![l] = "wait"]
<1>0. room \in RoomType /\ Apart(room.queue, room.played) /\ db \in DbType /\ Apart(db.queue, db.played)
  BY DEF Inv, Sound, Formed, SoundDb
<1>1. room' = [room EXCEPT !.media = m] /\ db' = [db EXCEPT !.media = n] /\ UNCHANGED deleted
  BY <1>0 DEF QueueRetry, RoomType, DbType
<1>2. m \in [Media -> MediaStatus] /\ n \in [Media -> MediaStatus \cup {"gone"}]
  BY <1>0 DEF RoomType, DbType, MediaStatus
<1> HIDE DEF m, n
<1>3. room' = Put(room, room.queue, room.played, m) BY <1>0, <1>1 DEF Put, RoomType
<1>4. Quiet(room, room') /\ room'.queue = room.queue /\ room'.unsaved = room.unsaved BY <1>0, <1>2, <1>3, Requeue
<1>5. /\ db' \in DbType /\ db'.queue = db.queue /\ db'.played = db.played /\ db'.cur = db.cur
      /\ db'.playing = db.playing /\ db'.base = db.base
  BY <1>0, <1>1, <1>2 DEF DbType
<1>6. Steady(room', FALSE) BY <1>4 DEF Quiet, Steady
<1>7. Keeps BY <1>1, <1>5, <1>6, StillSync
<1> QED BY <1>0, <1>1, <1>4, <1>5, <1>7, QuietSound DEF Preserved, Inv, SoundDb

\* Only who is there differs.
Beside(r, s) ==
    /\ s \in RoomType
    /\ s.queue = r.queue /\ s.played = r.played /\ s.media = r.media /\ s.cur = r.cur
    /\ s.playing = r.playing /\ s.base = r.base /\ s.here = r.here
    /\ s.waiting = r.waiting /\ s.countdown = r.countdown /\ s.slot = r.slot
    /\ s.adv = r.adv /\ s.ended = r.ended /\ s.settings = r.settings /\ s.unsaved = r.unsaved

\* The viewers replaced.
LEMMA Seats ==
  ASSUME NEW r \in RoomType, NEW w \in [Viewers -> ViewerState], NEW s, s = [r EXCEPT !.viewers = w]
  PROVE  Beside(r, s) /\ s.viewers = w
<1>1. s \in RoomType /\ s.viewers = w BY DEF RoomType
<1> QED BY <1>1 DEF RoomType, Beside

\* One of them.
Seating(r, v, x) == [r EXCEPT !.viewers[v] = x]

\* It leaves the others where they are.
LEMMA Seat ==
  ASSUME NEW r \in RoomType, NEW v \in Viewers, NEW x \in ViewerState, NEW s, s = Seating(r, v, x)
  PROVE  Beside(r, s) /\ s.viewers[v] = x /\ \A u \in Viewers \ {v} : s.viewers[u] = r.viewers[u]
<1> DEFINE w == [r.viewers EXCEPT ![v] = x]
<1>1. w \in [Viewers -> ViewerState] /\ w[v] = x /\ \A u \in Viewers \ {v} : w[u] = r.viewers[u] BY DEF RoomType
<1>2. s = [r EXCEPT !.viewers = w] BY DEF RoomType, Seating
<1> HIDE DEF w
<1>3. Beside(r, s) /\ s.viewers = w BY <1>1, <1>2, Seats
<1> QED BY <1>1, <1>3

\* What does not depend on who is there.
LEMMA BesideFormed ==
  ASSUME NEW r, NEW s, Beside(r, s)
  PROVE  (Formed(r) => Formed(s)) /\ (AtEnd(r) => AtEnd(s)) /\ Playable(s) = Playable(r)
<1>1. Formed(r) => Formed(s) BY DEF Beside, Formed, Held
<1>2. AtEnd(r) => AtEnd(s) BY DEF Beside, AtEnd
<1>3. Playable(s) = Playable(r) BY DEF Beside, Playable, HasMedia
<1> QED BY <1>1, <1>2, <1>3

\* What the timers of the slots do not change.
LEMMA SlottedFormed ==
  ASSUME NEW r, NEW k, NEW s, Slotted(r, k, s)
  PROVE  (Formed(r) => Formed(s)) /\ (AtEnd(r) => AtEnd(s))
<1>1. Formed(r) => Formed(s) BY DEF Slotted, Same, Formed, Held
<1>2. AtEnd(r) => AtEnd(s) BY DEF Slotted, Same, AtEnd
<1> QED BY <1>1, <1>2

\* Join
LEMMA JoinFacts ==
  ASSUME Inv, NEW v \in Viewers, Join(v)
  PROVE  /\ db' = db /\ deleted' = deleted /\ Sound(room') /\ Stuck(room') = Stuck(room)
         /\ \E r : Slotted(room, "empty", r) /\ Beside(r, room')
<1> DEFINE r == Stop(room, "empty")
<1>0. room \in RoomType /\ Formed(room) /\ AtEnd(room) BY DEF Inv, Sound, Formed
<1>1. /\ room.viewers[v] = "out" /\ db' = db /\ deleted' = deleted /\ room' = Seating(r, v, "ok")
  BY DEF Join, Become, Seating
<1>2. Slotted(room, "empty", r)
  <2>1. "empty" \in Kinds BY DEF Kinds
  <2> QED BY <1>0, <2>1, StopFacts
<1>3. r \in RoomType /\ r.viewers = room.viewers /\ Formed(r) /\ AtEnd(r)
  BY <1>0, <1>2, SlottedFormed DEF Slotted, Same
<1> HIDE DEF r
<1>4. /\ Beside(r, room') /\ room'.viewers[v] = "ok"
      /\ \A u \in Viewers \ {v} : room'.viewers[u] = r.viewers[u]
  <2>1. "ok" \in ViewerState BY DEF ViewerState
  <2> QED BY <1>1, <1>3, <2>1, Seat
<1>5. Formed(room') /\ AtEnd(room') BY <1>3, <1>4, BesideFormed
<1>6. v \in Here(room') BY <1>4 DEF Here
<1>7. Sound(room') BY <1>5, <1>6, HereSound
<1>8. Stuck(room') = Stuck(room) BY <1>1, <1>3, <1>4 DEF Stuck
<1> QED BY <1>1, <1>2, <1>4, <1>7, <1>8

\* Join leaves a good room behind.
LEMMA JoinGood == ASSUME Inv, NEW v \in Viewers, Join(v) PROVE Preserved
<1>1. PICK r : Slotted(room, "empty", r) /\ Beside(r, room') BY JoinFacts
<1>2. room'.waiting = room.waiting /\ room'.cur = room.cur BY <1>1 DEF Slotted, Same, Beside
<1>3. /\ db' = db /\ deleted' = deleted /\ Sound(room') /\ Stuck(room') = Stuck(room) BY JoinFacts
<1>4. WaitsFor(room) => WaitsFor(room') BY <1>2, <1>3 DEF WaitsFor
<1>5. Steady(room', FALSE) BY <1>1 DEF Slotted, Same, Beside, Steady
<1>6. Keeps BY <1>3, <1>5, StillSync
<1> QED BY <1>3, <1>4, <1>6 DEF Preserved, Inv

\* A connection goes, and an empty room is noticed.
LEMMA GoneFacts ==
  ASSUME Inv, NEW v \in Viewers, NEW u, u = Seating(room, v, "out"),
         NEW a, a = ArmEmptyPause(u)
  PROVE  /\ Beside(room, u) /\ Slotted(u, "empty", a) /\ Sound(a) /\ Stuck(a) \subseteq Stuck(room)
<1>0. room \in RoomType /\ Formed(room) /\ AtEnd(room) BY DEF Inv, Sound, Formed
<1>1. /\ Beside(room, u) /\ u.viewers[v] = "out" /\ \A w \in Viewers \ {v} : u.viewers[w] = room.viewers[w]
  <2>1. "out" \in ViewerState BY DEF ViewerState
  <2> QED BY <1>0, <2>1, Seat
<1>2. Formed(u) /\ AtEnd(u) /\ u \in RoomType BY <1>0, <1>1, BesideFormed DEF Beside
<1>3. Slotted(u, "empty", a) /\ EmptyArmed(a) BY <1>2, ArmEmptyPauseFacts
<1>4. Sound(a) BY <1>2, <1>3, SlottedFormed DEF Sound
<1>5. Stuck(a) = Stuck(u) BY <1>3, SameViews DEF Slotted
<1>6. Stuck(u) \subseteq Stuck(room) BY <1>1 DEF Stuck
<1> QED BY <1>1, <1>3, <1>4, <1>5, <1>6

\* Leave
LEMMA LeaveFacts ==
  ASSUME Inv, NEW v \in Viewers, Leave(v)
  PROVE  \E u, a, s, save : /\ Beside(room, u) /\ Slotted(u, "empty", a) /\ Stuck(a) \subseteq Stuck(room)
                            /\ Looked(a, s) /\ Become(s, save) /\ Steady(s, save) /\ deleted' = deleted
<1> DEFINE u == Seating(room, v, "out")
           a == ArmEmptyPause(u)
           s == CheckBuffering(a)
<1>1. Become(s, s.playing # room.playing) /\ deleted' = deleted BY DEF Leave, Seating
<1>2. /\ Beside(room, u) /\ Slotted(u, "empty", a) /\ Sound(a) /\ Stuck(a) \subseteq Stuck(room) BY GoneFacts
<1> HIDE DEF a, u
<1>3. Looked(a, s) BY <1>2, CheckBufferingFacts
<1> DEFINE save == s.playing # room.playing
<1>4. Become(s, save) BY <1>1
<1> HIDE DEF s
<1>5. Steady(s, save) BY <1>2, <1>3 DEF Looked, Beside, Slotted, Same, Steady
<1> HIDE DEF save
<1> QED BY <1>1, <1>2, <1>3, <1>4, <1>5

\* Leave leaves a good room behind.
LEMMA LeaveGood == ASSUME Inv, NEW v \in Viewers, Leave(v) PROVE Preserved
<1>1. PICK u, a, s, save : Looked(a, s) /\ Become(s, save) /\ Steady(s, save) /\ deleted' = deleted BY LeaveFacts
<1>2. Sound(s) /\ WaitsFor(s) BY <1>1 DEF Looked, WaitsFor
<1> QED BY <1>1, <1>2, BecomeGood

\* Kick
LEMMA KickFacts ==
  ASSUME Inv, NEW v \in Viewers, Kick(v)
  PROVE  /\ db' = db /\ deleted' = deleted /\ Sound(room') /\ Stuck(room') \subseteq Stuck(room)
         /\ \E u : Beside(room, u) /\ Slotted(u, "empty", room')
         /\ Keeps
<1> DEFINE u == Seating(room, v, "out")
           a == ArmEmptyPause(u)
<1>1. room' = a /\ db' = db /\ deleted' = deleted BY DEF Kick, Become, Seating
<1>2. /\ Beside(room, u) /\ Slotted(u, "empty", a) /\ Sound(a) /\ Stuck(a) \subseteq Stuck(room) BY GoneFacts
<1> HIDE DEF a, u
<1>3. Steady(room', FALSE) BY <1>1, <1>2 DEF Slotted, Same, Beside, Steady
<1>4. Keeps BY <1>1, <1>3, StillSync
<1> QED BY <1>1, <1>2, <1>4

\* Report
LEMMA ReportFacts ==
  ASSUME Inv, NEW v \in Viewers, Report(v)
  PROVE  \E u, s, save : /\ Beside(room, u) /\ Looked(u, s) /\ Become(s, save) /\ Steady(s, save)
                         /\ deleted' = deleted
<1> DEFINE x == IF room.viewers[v] = "ok" THEN "stuck" ELSE "ok"
           u == Seating(room, v, x)
           s == CheckBuffering(u)
<1>0. room \in RoomType /\ Formed(room) /\ AtEnd(room) BY DEF Inv, Sound, Formed
<1>1. /\ u = [room EXCEPT !.viewers[v] = IF @ = "ok" THEN "stuck" ELSE "ok"]
  BY <1>0 DEF RoomType, Seating
<1>2. Become(s, s.playing # room.playing) /\ deleted' = deleted BY <1>1 DEF Report
<1>3. x \in ViewerState /\ x # "out" BY DEF ViewerState
<1> HIDE DEF x
<1>4. Beside(room, u) /\ u.viewers[v] = x BY <1>0, <1>3, Seat
<1> HIDE DEF u
<1>5. Formed(u) /\ AtEnd(u) BY <1>0, <1>4, BesideFormed
<1>6. v \in Here(u) BY <1>3, <1>4 DEF Here
<1>7. Sound(u) BY <1>5, <1>6, HereSound
<1>8. Looked(u, s) BY <1>7, CheckBufferingFacts
<1> DEFINE save == s.playing # room.playing
<1>9. Become(s, save) BY <1>2
<1> HIDE DEF s
<1>10. Steady(s, save) BY <1>4, <1>8 DEF Looked, Beside, Steady
<1> HIDE DEF save
<1> QED BY <1>2, <1>4, <1>8, <1>9, <1>10

\* Report leaves a good room behind.
LEMMA ReportGood == ASSUME Inv, NEW v \in Viewers, Report(v) PROVE Preserved
<1>1. PICK u, s, save : Looked(u, s) /\ Become(s, save) /\ Steady(s, save) /\ deleted' = deleted BY ReportFacts
<1>2. Sound(s) /\ WaitsFor(s) BY <1>1 DEF Looked, WaitsFor
<1> QED BY <1>1, <1>2, BecomeGood

\* Time passes: only the position differs.
LEMMA ElapseFacts ==
  ASSUME Inv, Elapse
  PROVE  /\ db' = db /\ deleted' = deleted /\ Sound(room')
         /\ room'.queue = room.queue /\ room'.media = room.media /\ room'.cur = room.cur
         /\ room'.playing = room.playing /\ room'.base = room.base /\ room'.viewers = room.viewers
         /\ room'.waiting = room.waiting /\ room'.countdown = room.countdown /\ room'.slot = room.slot
         /\ room'.adv = room.adv /\ room'.settings = room.settings /\ room'.unsaved = room.unsaved
<1> DEFINE h == IF room.here = "start" THEN "mid" ELSE "end"
<1>0. room \in RoomType /\ Formed(room) /\ AtEnd(room) BY DEF Inv, Sound, Formed
<1>1. room.here # "end" /\ room' = [room EXCEPT !.here = h] /\ db' = db /\ deleted' = deleted
  BY <1>0 DEF Elapse, RoomType
<1>2. h \in Position BY DEF Position
<1> HIDE DEF h
<1>3. room' \in RoomType BY <1>0, <1>1, <1>2 DEF RoomType
<1>4. /\ room'.queue = room.queue /\ room'.played = room.played /\ room'.media = room.media
      /\ room'.cur = room.cur /\ room'.playing = room.playing /\ room'.base = room.base
      /\ room'.viewers = room.viewers /\ room'.waiting = room.waiting /\ room'.countdown = room.countdown
      /\ room'.slot = room.slot /\ room'.adv = room.adv /\ room'.ended = room.ended
      /\ room'.settings = room.settings /\ room'.unsaved = room.unsaved
  BY <1>0, <1>1 DEF RoomType
<1>5. Formed(room') BY <1>0, <1>3, <1>4 DEF Formed, Held
<1>6. AtEnd(room') BY <1>0, <1>1, <1>4 DEF AtEnd
<1>7. EmptyArmed(room) => EmptyArmed(room') BY <1>4 DEF EmptyArmed, Here
<1> QED BY <1>1, <1>4, <1>5, <1>6, <1>7 DEF Sound, Inv

\* Elapse leaves a good room behind.
LEMMA ElapseGood == ASSUME Inv, Elapse PROVE Preserved
<1>1. WaitsFor(room) => WaitsFor(room') BY ElapseFacts DEF WaitsFor, Stuck
<1>2. Steady(room', FALSE) BY ElapseFacts DEF Steady
<1>3. Keeps BY <1>2, ElapseFacts, StillSync
<1> QED BY <1>1, <1>3, ElapseFacts DEF Preserved, Inv

\* A timer fires: only its slot differs.
LEMMA FireFacts ==
  ASSUME Inv, NEW k \in Kinds, Fire(k)
  PROVE  /\ db' = db /\ deleted' = deleted /\ Slotted(room, k, room') /\ Sound(room')
         /\ room.slot[k] # "nil" /\ room'.slot[k] # "nil"
<1>0. room \in RoomType /\ Formed(room) /\ AtEnd(room) BY DEF Inv, Sound, Formed
<1>1. room.slot[k] = "run" /\ room' = [room EXCEPT !.slot[k] = "fired"] /\ db' = db /\ deleted' = deleted
  BY DEF Fire
<1>2. Slotted(room, k, room') /\ room'.slot[k] = "fired"
  BY <1>0, <1>1 DEF RoomType, Slotted, Same, SlotState
<1>3. Formed(room') /\ AtEnd(room') BY <1>0, <1>2, SlottedFormed
<1>4. EmptyArmed(room) => EmptyArmed(room')
  <2>1. "empty" \in Kinds BY DEF Kinds
  <2>2. room.slot["empty"] # "nil" => room'.slot["empty"] # "nil" BY <1>2, <2>1 DEF Slotted
  <2>3. Here(room') = Here(room) BY <1>2, SameViews DEF Slotted
  <2> QED BY <1>2, <2>2, <2>3 DEF EmptyArmed, Slotted, Same
<1> QED BY <1>1, <1>2, <1>3, <1>4 DEF Sound, Inv

\* A timer that fires leaves a good room behind.
LEMMA FireGood == ASSUME Inv, NEW k \in Kinds, Fire(k) PROVE Preserved
<1>1. Steady(room', FALSE) BY FireFacts DEF Slotted, Same, Steady
<1>2. Keeps BY <1>1, FireFacts, StillSync
<1> QED BY <1>2, FireFacts, SlottedWaits DEF Preserved, Inv

\* Only the advance timer and its stray callbacks differ.
Ticking(r, s) ==
    /\ s \in RoomType
    /\ s.queue = r.queue /\ s.played = r.played /\ s.media = r.media /\ s.cur = r.cur
    /\ s.playing = r.playing /\ s.base = r.base /\ s.here = r.here
    /\ s.viewers = r.viewers /\ s.waiting = r.waiting /\ s.countdown = r.countdown
    /\ s.slot = r.slot /\ s.settings = r.settings /\ s.unsaved = r.unsaved

\* What that leaves alone.
LEMMA TickingSound ==
  ASSUME NEW r, Sound(r), NEW s, Ticking(r, s), Held(s), AtEnd(s)
  PROVE  Sound(s) /\ WaitsFor(s) = WaitsFor(r)
<1>1. Formed(s) BY DEF Ticking, Sound, Formed
<1>2. EmptyArmed(r) => EmptyArmed(s) BY DEF Ticking, EmptyArmed, Here
<1>3. WaitsFor(s) = WaitsFor(r) BY DEF Ticking, WaitsFor, Stuck
<1> QED BY <1>1, <1>2, <1>3 DEF Sound

\* The advance timer fires at the end.
LEMMA FireAdvanceFacts ==
  ASSUME Inv, FireAdvance
  PROVE  /\ db' = db /\ deleted' = deleted /\ Ticking(room, room') /\ Sound(room')
         /\ WaitsFor(room') = WaitsFor(room)
         /\ room'.adv.state # "nil" /\ room'.adv.item = room.adv.item /\ room'.adv.fresh = room.adv.fresh
<1>0. room \in RoomType /\ Sound(room) /\ Held(room) /\ AtEnd(room) BY DEF Inv, Sound, Formed
<1>1. /\ room.adv.state = "run" /\ room.here = "end" /\ db' = db /\ deleted' = deleted
      /\ room' = [room EXCEPT !.adv.state = "fired"]
  BY DEF FireAdvance
<1> DEFINE adv == [room.adv EXCEPT !.state = "fired"]
<1>2. /\ adv \in Advance /\ adv.state = "fired" /\ adv.item = room.adv.item /\ adv.fresh = room.adv.fresh
  BY <1>0 DEF RoomType, Advance, SlotState
<1>3. room' = [room EXCEPT !.adv = adv] BY <1>0, <1>1 DEF RoomType
<1> HIDE DEF adv
<1>4. room' \in RoomType /\ room'.adv = adv /\ room'.ended = room.ended /\ room'.here = room.here
  BY <1>0, <1>2, <1>3 DEF RoomType
<1>5. Ticking(room, room') BY <1>0, <1>3, <1>4 DEF RoomType, Ticking
<1>6. Held(room') /\ AtEnd(room') BY <1>0, <1>1, <1>2, <1>4 DEF Held, AtEnd
<1> QED BY <1>0, <1>1, <1>2, <1>4, <1>5, <1>6, TickingSound

\* So does the advance timer.
LEMMA FireAdvanceGood == ASSUME Inv, FireAdvance PROVE Preserved
<1>1. Steady(room', FALSE) BY FireAdvanceFacts DEF Ticking, Steady
<1>2. Keeps BY <1>1, FireAdvanceFacts, StillSync
<1> QED BY <1>2, FireAdvanceFacts DEF Preserved, Inv

\* The callback of the advance timer has the mutex.
LEMMA AdvanceGone ==
  ASSUME Inv, NEW r, r = [room EXCEPT !.adv = NoAdvance]
  PROVE  Ticking(room, r) /\ Sound(r) /\ WaitsFor(r) = WaitsFor(room) /\ r.adv = NoAdvance
<1>0. room \in RoomType /\ Sound(room) /\ Held(room) /\ AtEnd(room) BY DEF Inv, Sound, Formed
<1>1. NoAdvance \in Advance /\ NoAdvance.state = "nil" BY DEF NoAdvance, Advance, SlotState
<1>2. r \in RoomType /\ r.adv = NoAdvance /\ r.ended = room.ended /\ r.here = room.here BY <1>0, <1>1 DEF RoomType
<1>3. Ticking(room, r) BY <1>0, <1>2 DEF RoomType, Ticking
<1>4. Held(r) /\ AtEnd(r) BY <1>0, <1>1, <1>2 DEF Held, AtEnd
<1> QED BY <1>0, <1>2, <1>3, <1>4, TickingSound

\* A stray one has it.
LEMMA LateGone ==
  ASSUME Inv, NEW e, NEW r, r = [room EXCEPT !.ended = @ \ {e}]
  PROVE  Ticking(room, r) /\ Sound(r) /\ WaitsFor(r) = WaitsFor(room) /\ r.adv = room.adv
<1> DEFINE left == room.ended \ {e}
<1>0. room \in RoomType /\ Sound(room) /\ Held(room) /\ AtEnd(room) BY DEF Inv, Sound, Formed
<1>1. r = [room EXCEPT !.ended = left] BY <1>0 DEF RoomType
<1>2. left \subseteq room.ended OBVIOUS
<1> HIDE DEF left
<1>3. r \in RoomType /\ r.adv = room.adv /\ r.ended = left /\ r.here = room.here BY <1>0, <1>1, <1>2 DEF RoomType
<1>4. Ticking(room, r) BY <1>0, <1>1, <1>3 DEF RoomType, Ticking
<1>5. Held(r) /\ AtEnd(r) BY <1>0, <1>2, <1>3 DEF Held, AtEnd
<1> QED BY <1>0, <1>3, <1>4, <1>5, TickingSound

\* OnEnded: the item is left when the timer is still that of the clock.
LEMMA OnEndedGood == ASSUME Inv, OnEnded PROVE Preserved
<1> DEFINE r == [room EXCEPT !.adv = NoAdvance]
<1>1. Ticking(room, r) /\ Sound(r) /\ WaitsFor(r) = WaitsFor(room) BY AdvanceGone
<1>2. /\ room.adv.state = "fired" /\ UNCHANGED deleted
      /\ IF StillCurrent(room.adv) THEN NextLocked(r) ELSE Become(r, FALSE)
  BY DEF OnEnded
<1> HIDE DEF r
<1>a. r.queue = room.queue /\ Steady(r, FALSE) BY <1>1 DEF Ticking, Steady
<1>3. CASE StillCurrent(room.adv)
  <2>1. room.cur # None BY <1>2, <1>3 DEF StillCurrent, Inv, Sound, Formed, Held
  <2>2. r.cur \in Items BY <1>1, <2>1, CurItem DEF Ticking
  <2> QED BY <1>1, <1>2, <1>3, <1>a, <2>2, NextGood
<1>4. CASE ~StillCurrent(room.adv) BY <1>1, <1>2, <1>4, <1>a, BecomeGood
<1> QED BY <1>3, <1>4

\* OnEndedLate, likewise.
LEMMA OnEndedLateGood == ASSUME Inv, NEW e \in room.ended, OnEndedLate(e) PROVE Preserved
<1> DEFINE r == [room EXCEPT !.ended = @ \ {e}]
<1>1. Ticking(room, r) /\ Sound(r) /\ WaitsFor(r) = WaitsFor(room) BY LateGone
<1>2. /\ UNCHANGED deleted
      /\ IF StillCurrent(e) THEN NextLocked(r) ELSE Become(r, FALSE)
  BY DEF OnEndedLate
<1> HIDE DEF r
<1>a. r.queue = room.queue /\ Steady(r, FALSE) BY <1>1 DEF Ticking, Steady
<1>3. CASE StillCurrent(e)
  <2>1. room.cur # None BY <1>3 DEF StillCurrent, Inv, Sound, Formed, Held
  <2>2. r.cur \in Items BY <1>1, <2>1, CurItem DEF Ticking
  <2> QED BY <1>1, <1>2, <1>3, <1>a, <2>2, NextGood
<1>4. CASE ~StillCurrent(e) BY <1>1, <1>2, <1>4, <1>a, BecomeGood
<1> QED BY <1>3, <1>4

\* The pause of an empty room: the room as it was, or paused.
LEMMA PauseIfEmptyFacts ==
  ASSUME Inv, PauseIfEmpty
  PROVE  \E r, s, save : /\ Slotted(room, "empty", r) /\ Become(s, save) /\ deleted' = deleted /\ Sound(s)
                         /\ WaitsFor(s) = WaitsFor(room) /\ Steady(s, save)
                         /\ \/ s = r
                            \/ \E pos : SetTo(r, FALSE, pos, s)
<1> DEFINE r == Enter(room, "empty")
           pause == r.settings.pauseWhenEmpty /\ r.playing /\ Here(r) = {}
           p == SetPlayback(r, FALSE, r.here)
           s == IF pause THEN p ELSE r
<1>0. room \in RoomType /\ Formed(room) /\ AtEnd(room) /\ "empty" \in Kinds BY DEF Inv, Sound, Formed, Kinds
<1>1. Become(s, pause) /\ deleted' = deleted BY DEF PauseIfEmpty
<1>2. Slotted(room, "empty", r) BY <1>0, EnterFacts
<1> HIDE DEF r
<1>3. Formed(r) /\ AtEnd(r) /\ WaitsFor(r) = WaitsFor(room) BY <1>0, <1>2, SlottedFormed, SlottedWaits
<1>4. CASE pause
  <2>1. r.here \in Position BY <1>3 DEF Formed, RoomType
  <2>2. SetTo(r, FALSE, r.here, p) /\ Sound(p) /\ WaitsFor(p) = WaitsFor(r) BY <1>3, <2>1, PlaybackFacts
  <2>3. s = p BY <1>4
  <2>4. pause = TRUE BY <1>4
  <2> HIDE DEF s, p, pause
  <2>5. Steady(s, pause) BY <1>2, <2>2, <2>3, <2>4 DEF Slotted, Same, SetTo, Steady
  <2> QED BY <1>1, <1>2, <1>3, <2>2, <2>3, <2>5
<1>5. CASE ~pause
  <2>1. EmptyArmed(r) BY <1>5 DEF EmptyArmed
  <2>2. Sound(r) BY <1>3, <2>1 DEF Sound
  <2>3. s = r BY <1>5
  <2> HIDE DEF s, pause
  <2>4. Steady(s, pause) BY <1>2, <2>3 DEF Slotted, Same, Steady
  <2> QED BY <1>1, <1>2, <1>3, <2>2, <2>3, <2>4
<1> QED BY <1>4, <1>5

\* PauseIfEmpty leaves a good room behind.
LEMMA PauseIfEmptyGood == ASSUME Inv, PauseIfEmpty PROVE Preserved
<1>1. PICK s, save : Become(s, save) /\ deleted' = deleted /\ Sound(s)
                      /\ WaitsFor(s) = WaitsFor(room) /\ Steady(s, save)
  BY PauseIfEmptyFacts
<1> QED BY <1>1, BecomeGood

\* The wait for buffering viewers starts, or does not.
LEMMA StartWaitingFacts ==
  ASSUME Inv, StartWaiting
  PROVE  \E r, s, save :
            /\ Slotted(room, "buffer", r) /\ Become(s, save) /\ deleted' = deleted /\ Sound(s)
            /\ (WaitsFor(room) => WaitsFor(s)) /\ Steady(s, save)
            /\ \/ s = r /\ (room.settings.wait /\ room.playing => Stuck(room) = {} \/ room.waiting # {})
               \/ /\ room.playing /\ ~s.playing /\ s.cur = room.cur /\ s.queue = room.queue
                  /\ s.media = room.media /\ s.countdown = room.countdown /\ s.viewers = room.viewers
                  /\ s.settings = room.settings
<1> DEFINE r == Enter(room, "buffer")
           wait == r.settings.wait /\ r.playing /\ Stuck(r) # {} /\ r.waiting = {}
           w == [r EXCEPT !.waiting = Stuck(r)]
           p == SetPlayback(w, FALSE, r.here)
           a == Arm(p, "wait")
           s == IF wait THEN a ELSE r
<1>0. /\ room \in RoomType /\ Sound(room) /\ "buffer" \in Kinds /\ "buffer" # "empty" /\ "wait" \in Kinds
      /\ "wait" # "empty"
  BY DEF Inv, Sound, Formed, Kinds
<1>1. Become(s, wait) /\ deleted' = deleted BY DEF StartWaiting
<1>2. Slotted(room, "buffer", r) BY <1>0, EnterFacts
<1> HIDE DEF r
<1>3. /\ Sound(r) /\ r \in RoomType /\ WaitsFor(r) = WaitsFor(room) /\ Stuck(r) = Stuck(room)
  BY <1>0, <1>2, SlottedSound, SlottedWaits, SameViews DEF Slotted
<1>4. CASE wait
  <2>1. Stuck(r) \subseteq Viewers /\ r.here \in Position BY <1>3 DEF Stuck, RoomType
  <2>2. Calm(r, w) /\ w.waiting = Stuck(r) /\ w.countdown = r.countdown
    <3>1. w \in RoomType /\ w.waiting = Stuck(r) /\ w.countdown = r.countdown BY <1>3, <2>1 DEF RoomType
    <3> QED BY <1>3, <3>1 DEF RoomType, Calm
  <2> HIDE DEF w
  <2>3. Formed(w) /\ Stuck(w) = Stuck(r) BY <1>3, <2>2, CalmSound DEF Sound
  <2>4. WaitsFor(w) BY <1>4, <2>3 DEF WaitsFor
  <2>5. SetTo(w, FALSE, r.here, p) /\ Sound(p) /\ WaitsFor(p) BY <2>1, <2>3, <2>4, PlaybackFacts
  <2> HIDE DEF p
  <2>6. Slotted(p, "wait", a)
    <3>1. p \in RoomType BY <2>5 DEF SetTo
    <3> QED BY <1>0, <3>1, ArmFacts
  <2>7. Sound(a) /\ WaitsFor(a) BY <1>0, <2>5, <2>6, SlottedSound, SlottedWaits
  <2>8. /\ room.playing /\ ~a.playing /\ a.cur = room.cur /\ a.queue = room.queue
        /\ a.media = room.media /\ a.countdown = room.countdown /\ a.viewers = room.viewers
        /\ a.settings = room.settings /\ a.unsaved = room.unsaved
    BY <1>2, <1>4, <2>2, <2>5, <2>6 DEF Slotted, Same, Calm, SetTo
  <2>9. s = a BY <1>4
  <2>10. wait = TRUE BY <1>4
  <2> HIDE DEF s, a, wait
  <2>11. Steady(s, wait) BY <2>8, <2>9, <2>10 DEF Steady
  <2> QED BY <1>1, <1>2, <2>7, <2>8, <2>9, <2>11
<1>5. CASE ~wait
  <2>1. s = r BY <1>5
  <2>2. room.settings.wait /\ room.playing => Stuck(room) = {} \/ room.waiting # {}
    BY <1>2, <1>3, <1>5 DEF Slotted, Same
  <2> HIDE DEF s, wait
  <2>3. Steady(s, wait) BY <1>2, <2>1 DEF Slotted, Same, Steady
  <2> QED BY <1>1, <1>2, <1>3, <2>1, <2>2, <2>3
<1> QED BY <1>4, <1>5

\* StartWaiting leaves a good room behind.
LEMMA StartWaitingGood == ASSUME Inv, StartWaiting PROVE Preserved
<1>1. PICK s, save : Become(s, save) /\ deleted' = deleted /\ Sound(s)
                      /\ (WaitsFor(room) => WaitsFor(s)) /\ Steady(s, save)
  BY StartWaitingFacts
<1> QED BY <1>1, BecomeGood

\* The wait is over, whoever is still buffering.
LEMMA StopWaitingFacts ==
  ASSUME Inv, StopWaiting
  PROVE  \E r, g, s, save :
            /\ Slotted(room, "wait", r) /\ Become(s, save) /\ deleted' = deleted
            /\ Sound(s) /\ s.waiting = {} /\ Steady(s, save)
            /\ \/ s = r
               \/ Beside(r, g) /\ Stuck(g) \subseteq Stuck(room) /\ Resumed(g, s)
<1> DEFINE r == Enter(room, "wait")
           out == [v \in Viewers |-> IF r.viewers[v] = "stuck" THEN "ignored" ELSE r.viewers[v]]
           g == [r EXCEPT !.viewers = out]
           t == Resume(g)
           s == IF r.waiting = {} THEN r ELSE t
           save == s.playing # room.playing
<1>0. room \in RoomType /\ Sound(room) /\ "wait" \in Kinds /\ "wait" # "empty" BY DEF Inv, Sound, Formed, Kinds
<1>2. Slotted(room, "wait", r) BY <1>0, EnterFacts
<1>3. r \in RoomType BY <1>2 DEF Slotted
<1>1. Become(s, save) /\ deleted' = deleted
  <2>1. g = [r EXCEPT !.viewers = [v \in Viewers |-> IF @[v] = "stuck" THEN "ignored" ELSE @[v]]]
    BY <1>3 DEF RoomType
  <2> QED BY <2>1 DEF StopWaiting
<1> HIDE DEF r
<1>4. Sound(r) /\ Stuck(r) = Stuck(room) BY <1>0, <1>2, SlottedSound, SameViews DEF Slotted
<1>5. CASE r.waiting = {}
  <2>1. s = r BY <1>5
  <2> HIDE DEF s
  <2>2. Steady(s, save) BY <1>2, <2>1 DEF Slotted, Same, Steady
  <2> HIDE DEF save
  <2> QED BY <1>1, <1>2, <1>4, <1>5, <2>1, <2>2
<1>6. CASE r.waiting # {}
  <2>1. /\ out \in [Viewers -> ViewerState]
        /\ \A v \in Viewers : (out[v] # "out" <=> r.viewers[v] # "out") /\ out[v] # "stuck"
    BY <1>3 DEF RoomType, ViewerState
  <2> HIDE DEF out
  <2>2. Beside(r, g) /\ g.viewers = out BY <1>3, <2>1, Seats
  <2> HIDE DEF g
  <2>3. Here(g) = Here(r) BY <2>1, <2>2 DEF Here
  <2>4. Stuck(g) \subseteq Stuck(room) BY <2>1, <2>2 DEF Stuck
  <2>5. Formed(g) /\ AtEnd(g) BY <1>4, <2>2, BesideFormed DEF Sound
  <2>6. Sound(g)
    <3>1. EmptyArmed(r) => EmptyArmed(g) BY <2>2, <2>3 DEF EmptyArmed, Beside
    <3> QED BY <1>4, <2>5, <3>1 DEF Sound
  <2>7. Resumed(g, t) BY <2>6, ResumeFacts
  <2>8. s = t BY <1>6
  <2> HIDE DEF s, t
  <2>9. Sound(s) /\ s.waiting = {} BY <2>7, <2>8 DEF Resumed
  <2>10. Steady(s, save) BY <1>2, <2>2, <2>7, <2>8 DEF Slotted, Same, Beside, Resumed, Steady
  <2> HIDE DEF save
  <2> QED BY <1>1, <1>2, <2>2, <2>4, <2>7, <2>8, <2>9, <2>10
<1> QED BY <1>5, <1>6

\* StopWaiting leaves a good room behind.
LEMMA StopWaitingGood == ASSUME Inv, StopWaiting PROVE Preserved
<1>1. PICK s, save : Become(s, save) /\ deleted' = deleted /\ Sound(s)
                      /\ s.waiting = {} /\ Steady(s, save)
  BY StopWaitingFacts
<1>2. WaitsFor(s) BY <1>1 DEF WaitsFor
<1> QED BY <1>1, <1>2, BecomeGood

\* The countdown is over: playback starts, if it can.
LEMMA EndCountdownFacts ==
  ASSUME Inv, EndCountdown
  PROVE  \E r, s, save :
            /\ Calm(room, r) /\ r.waiting = room.waiting /\ (r.countdown => room.countdown)
            /\ Become(s, save) /\ deleted' = deleted /\ Sound(s)
            /\ (WaitsFor(room) => WaitsFor(s)) /\ Steady(s, save)
            /\ \/ s = r
               \/ /\ room.countdown /\ ~r.countdown /\ Playable(room) /\ ~room.playing
                  /\ \E pos : SetTo(r, TRUE, pos, s)
<1> DEFINE n == [room EXCEPT !.stray = @ \ {"countdown"}]
           e == Enter(room, "countdown")
           r == [e EXCEPT !.countdown = FALSE]
           start == room.countdown /\ Playable(room) /\ ~room.playing
           p == SetPlayback(r, TRUE, StartFrom(r.base))
<1>0. /\ room \in RoomType /\ Sound(room) /\ "countdown" \in Kinds /\ "countdown" # "empty"
      /\ "empty" \in Kinds \ {"countdown"} /\ "buffer" \in Kinds \ {"countdown"}
  BY DEF Inv, Sound, Formed, Kinds
<1>1. /\ deleted' = deleted
      /\ \/ ~room.countdown /\ Become(n, FALSE)
         \/ room.countdown /\ start /\ Become(p, start)
         \/ room.countdown /\ ~start /\ Become(r, start)
  BY DEF EndCountdown
<1>2. Slotted(room, "countdown", e) BY <1>0, EnterFacts
<1> HIDE DEF e
<1>3. e \in RoomType /\ Sound(e) BY <1>0, <1>2, SlottedSound DEF Slotted
<1>4. Calm(e, r) /\ r.waiting = e.waiting /\ ~r.countdown BY <1>3, CountFacts
<1> HIDE DEF r
<1>5. Calm(room, r) /\ r.waiting = room.waiting BY <1>0, <1>2, <1>4 DEF Slotted, Same, Calm
<1>6. Sound(r) /\ (WaitsFor(room) => WaitsFor(r)) BY <1>0, <1>5, CalmSound, CalmWaits
<1>7. CASE ~room.countdown /\ Become(n, FALSE)
  <2>1. n \in RoomType /\ n.waiting = room.waiting /\ n.countdown = room.countdown BY <1>0 DEF RoomType
  <2>2. Calm(room, n) BY <1>0, <2>1 DEF RoomType, Calm
  <2> HIDE DEF n
  <2>3. Sound(n) /\ (WaitsFor(room) => WaitsFor(n)) BY <1>0, <2>1, <2>2, CalmSound, CalmWaits
  <2>4. Steady(n, FALSE) BY <2>2 DEF Calm, Steady
  <2> QED BY <1>1, <1>7, <2>1, <2>2, <2>3, <2>4
<1>8. CASE room.countdown /\ start /\ Become(p, start)
  <2>1. StartFrom(r.base) \in Position BY <1>6, StartType DEF Sound, Formed, RoomType
  <2>2. SetTo(r, TRUE, StartFrom(r.base), p) /\ Sound(p) /\ WaitsFor(p) = WaitsFor(r)
    BY <1>6, <2>1, PlaybackFacts DEF Sound
  <2> HIDE DEF p
  <2>3. room.cur # None /\ start = TRUE BY <1>8 DEF Playable, HasMedia
  <2>4. Steady(p, start) BY <1>5, <2>2, <2>3 DEF Calm, SetTo, Steady
  <2> QED BY <1>1, <1>4, <1>5, <1>6, <1>8, <2>2, <2>4
<1>9. CASE room.countdown /\ ~start /\ Become(r, start)
  <2>1. Steady(r, start) BY <1>5 DEF Calm, Steady
  <2> HIDE DEF start
  <2> QED BY <1>1, <1>4, <1>5, <1>6, <1>9, <2>1
<1> QED BY <1>1, <1>7, <1>8, <1>9

\* EndCountdown leaves a good room behind.
LEMMA EndCountdownGood == ASSUME Inv, EndCountdown PROVE Preserved
<1>1. PICK s, save : Become(s, save) /\ deleted' = deleted /\ Sound(s)
                      /\ (WaitsFor(room) => WaitsFor(s)) /\ Steady(s, save)
  BY EndCountdownFacts
<1> QED BY <1>1, BecomeGood

\* A media row replaced.
LEMMA MediaRow ==
  ASSUME NEW d, SoundDb(d), NEW m \in [Media -> MediaStatus \cup {"gone"}], NEW s, s = [d EXCEPT !.media = m]
  PROVE  /\ SoundDb(s) /\ s.media = m /\ Rows(s) = Rows(d) /\ s.cur = d.cur /\ s.playing = d.playing
         /\ s.queue = d.queue /\ s.base = d.base
<1>0. d \in DbType /\ Apart(d.queue, d.played) BY DEF SoundDb
<1>1. s \in DbType BY <1>0 DEF DbType
<1>2. /\ s.queue = d.queue /\ s.played = d.played /\ s.media = m /\ s.cur = d.cur /\ s.playing = d.playing
      /\ s.base = d.base
  BY <1>0 DEF DbType
<1> QED BY <1>0, <1>1, <1>2 DEF SoundDb, Rows

\* Ingest changes a row of a media only.
LEMMA IngestGood == ASSUME Inv, NEW m \in Media, Ingest(m) PROVE Preserved
<1>0. SoundDb(db) /\ db \in DbType BY DEF Inv, SoundDb
<1>1. PICK s \in {"ready", "failed"} : db' = [db EXCEPT !.media[m] = s] BY DEF Ingest
<1>2. UNCHANGED <<room, deleted>> BY DEF Ingest
<1> DEFINE n == [db.media EXCEPT ![m] = s]
<1>3. n \in [Media -> MediaStatus \cup {"gone"}] BY <1>0 DEF DbType, MediaStatus
<1>4. db' = [db EXCEPT !.media = n] BY <1>0, <1>1 DEF DbType
<1> HIDE DEF n
<1>5. /\ SoundDb(db') /\ db'.queue = db.queue /\ db'.cur = db.cur /\ db'.playing = db.playing
      /\ db'.base = db.base
  BY <1>0, <1>3, <1>4, MediaRow
<1>6. Keeps BY <1>2, <1>5, StillSync DEF Steady
<1> QED BY <1>2, <1>5, <1>6 DEF Preserved, Inv

\* The room takes over a row.
TakenOver(m) == [room EXCEPT !.media[m] = db.media[m]]

\* Only that differs.
LEMMA TakenFacts ==
  ASSUME Inv, NEW m \in Media, db.media[m] # "gone", NEW r, r = TakenOver(m)
  PROVE  /\ Quiet(room, r) /\ r.queue = room.queue /\ r.played = room.played /\ r.unsaved = room.unsaved
         /\ r.media = [room.media EXCEPT ![m] = db.media[m]]
<1>0. room \in RoomType /\ Apart(room.queue, room.played) /\ db \in DbType BY DEF Inv, Sound, Formed, SoundDb
<1> DEFINE n == [room.media EXCEPT ![m] = db.media[m]]
<1>1. n \in [Media -> MediaStatus] BY <1>0 DEF RoomType, DbType, MediaStatus
<1>2. r = Put(room, room.queue, room.played, n) BY <1>0 DEF Put, RoomType, TakenOver
<1> HIDE DEF n
<1>3. /\ Quiet(room, r) /\ r.queue = room.queue /\ r.played = room.played /\ r.media = n
      /\ r.unsaved = room.unsaved
  BY <1>0, <1>1, <1>2, Requeue
<1> QED BY <1>3 DEF n

\* The room took over a row, and starts what just became playable.
StartsHere(m) ==
    /\ HasMedia(room) /\ Link[room.cur] = m
    /\ db.media[m] = "ready" /\ room.media[m] # "ready"
Took(m, r, s) ==
    /\ db.media[m] \notin {room.media[m], "gone"}
    /\ Quiet(room, r) /\ r.queue = room.queue /\ r.played = room.played
    /\ r.media = [room.media EXCEPT ![m] = db.media[m]]
    /\ \/ s = r /\ (StartsHere(m) => room.playing \/ room.base # "start")
       \/ StartsHere(m) /\ SetTo(r, TRUE, "start", s)

\* MediaUpdated
LEMMA MediaUpdatedFacts ==
  ASSUME Inv, NEW m \in Media, MediaUpdated(m)
  PROVE  \E r, s, save : /\ Took(m, r, s) /\ Become(s, save) /\ deleted' = deleted
                         /\ Sound(s) /\ WaitsFor(s) = WaitsFor(room) /\ Steady(s, save)
<1> DEFINE r == TakenOver(m)
           start == /\ HasMedia(r) /\ Link[r.cur] = m
                    /\ r.media[m] = "ready" /\ room.media[m] # "ready"
                    /\ ~r.playing /\ r.base = "start"
           p == SetPlayback(r, TRUE, "start")
           s == IF start THEN p ELSE r
<1>1. db.media[m] \notin {room.media[m], "gone"} /\ Become(s, start) /\ deleted' = deleted
  BY DEF MediaUpdated, TakenOver
<1>2. /\ Quiet(room, r) /\ r.queue = room.queue /\ r.played = room.played /\ r.unsaved = room.unsaved
      /\ r.media = [room.media EXCEPT ![m] = db.media[m]]
  BY <1>1, TakenFacts
<1> HIDE DEF r
<1>3. Sound(r) /\ WaitsFor(r) = WaitsFor(room) BY <1>2, QuietSound DEF Inv
<1>4. HasMedia(r) = HasMedia(room) /\ r.cur = room.cur /\ r.playing = room.playing /\ r.base = room.base
  BY <1>2 DEF HasMedia, Quiet
<1>5. r.media[m] = db.media[m]
  <2>1. room.media \in [Media -> MediaStatus] BY DEF Inv, Sound, Formed, RoomType
  <2> QED BY <1>2, <2>1
<1>6. CASE start
  <2>1. SetTo(r, TRUE, "start", p) /\ Sound(p) /\ WaitsFor(p) = WaitsFor(r)
    <3>1. "start" \in Position BY DEF Position
    <3> QED BY <1>3, <3>1, PlaybackFacts DEF Sound
  <2>2. s = p BY <1>6
  <2>3. StartsHere(m) BY <1>4, <1>5, <1>6 DEF StartsHere
  <2>4. start = TRUE BY <1>6
  <2> HIDE DEF s, p, start
  <2>5. Took(m, r, s) BY <1>1, <1>2, <2>1, <2>2, <2>3 DEF Took
  <2>6. Steady(s, start) BY <1>2, <1>4, <2>1, <2>2, <2>3, <2>4 DEF SetTo, StartsHere, HasMedia, Steady
  <2> QED BY <1>1, <1>3, <2>1, <2>2, <2>5, <2>6
<1>7. CASE ~start
  <2>1. s = r BY <1>7
  <2>2. StartsHere(m) => room.playing \/ room.base # "start" BY <1>4, <1>5, <1>7 DEF StartsHere
  <2> HIDE DEF s, start
  <2>3. Took(m, r, s) BY <1>1, <1>2, <2>1, <2>2 DEF Took
  <2>4. Steady(s, start) BY <1>2, <1>4, <2>1 DEF Steady
  <2> QED BY <1>1, <1>3, <2>1, <2>3, <2>4
<1> QED BY <1>6, <1>7

\* MediaUpdated leaves a good room behind.
LEMMA MediaUpdatedGood == ASSUME Inv, NEW m \in Media, MediaUpdated(m) PROVE Preserved
<1>1. PICK s, save : Become(s, save) /\ deleted' = deleted /\ Sound(s)
                      /\ WaitsFor(s) = WaitsFor(room) /\ Steady(s, save)
  BY MediaUpdatedFacts
<1> QED BY <1>1, BecomeGood

\* DeleteMedia
LEMMA DeleteMediaFacts ==
  ASSUME Inv, NEW m \in Media, DeleteMedia(m)
  PROVE  /\ room' = room /\ deleted' \in BOOLEAN /\ SoundDb(db')
         /\ db'.media = [db.media EXCEPT ![m] = "gone"]
         /\ Rows(db') = Rows(db) \ {i \in Items : Link[i] = m}
         /\ db'.playing = db.playing /\ db'.cur \in {db.cur, None}
<1> DEFINE gone == {i \in Items : Link[i] = m}
           d == Deleted(db, gone)
           n == [d.media EXCEPT ![m] = "gone"]
<1>0. SoundDb(db) BY DEF Inv
<1>1. /\ SoundDb(d) /\ d.media = db.media /\ Rows(d) = Rows(db) \ gone /\ d.playing = db.playing
      /\ d.cur \in {db.cur, None}
  <2> HIDE DEF gone
  <2> QED BY <1>0, DeletedRows
<1>2. db' = [d EXCEPT !.media[m] = "gone"] /\ room' = room /\ deleted' \in BOOLEAN BY DEF DeleteMedia
<1> HIDE DEF d, gone
<1>3. n \in [Media -> MediaStatus \cup {"gone"}] BY <1>1 DEF SoundDb, DbType, MediaStatus
<1>4. db' = [d EXCEPT !.media = n] BY <1>1, <1>2 DEF SoundDb, DbType
<1> HIDE DEF n
<1>5. /\ SoundDb(db') /\ db'.media = n /\ Rows(db') = Rows(d) /\ db'.cur = d.cur /\ db'.playing = d.playing
  BY <1>1, <1>3, <1>4, MediaRow
<1> QED BY <1>1, <1>2, <1>5 DEF n, gone

\* DeleteMedia leaves good rows behind.
LEMMA DeleteMediaGood == ASSUME Inv, NEW m \in Media, DeleteMedia(m) PROVE Preserved
<1>1. Keeps BY DEF DeleteMedia, Keeps
<1> QED BY <1>1, DeleteMediaFacts DEF Preserved, Inv

\* ReloadQueue: the room as it was, with the rows read again, or with
\* another item because the current one is gone.
LEMMA ReloadFacts ==
  ASSUME Inv, ReloadQueue
  PROVE  /\ deleted' = FALSE /\ Wrote(db)
         /\ \/ "store" \in Faults /\ room' = room
            \/ /\ Quiet(room, room') /\ room'.queue = db.queue /\ room'.media = MediaBatch(db)
               /\ room.cur # None => room.cur \in ToSet(db.queue)
            \/ /\ room.cur # None /\ room.cur \notin ToSet(db.queue)
               /\ MovedOn(room)
<1> DEFINE r == Reloaded(room, db)
           head == IF r.queue = <<>> THEN None ELSE Head(r.queue)
           s == SetCurrent(r, head)
<1>0. SoundDb(db) /\ Formed(room) /\ Sound(room) BY DEF Inv, Sound
<1>1. /\ deleted' = FALSE
      /\ \/ Abort(room, db)
         \/ r.cur # None /\ ~HasMedia(r) /\ Save(s, db)
         \/ ~(r.cur # None /\ ~HasMedia(r)) /\ Become(r, FALSE)
  BY DEF ReloadQueue
<1>2. Quiet(room, r) /\ r.queue = db.queue /\ r.media = MediaBatch(db) BY <1>0, ReloadedFacts
<1> HIDE DEF r
<1>3. Sound(r) /\ Formed(r) /\ r.cur = room.cur /\ r.queue \in Seq(Items)
  BY <1>0, <1>2, QuietSound DEF Sound, Quiet, Apart
<1>4. HasMedia(r) = (room.cur # None /\ room.cur \in ToSet(db.queue))
  BY <1>2, <1>3, ContainsSet DEF HasMedia
<1>5. CASE Abort(room, db) BY <1>0, <1>1, <1>5 DEF Abort, MayFail, Outcomes, Wrote
<1>6. CASE r.cur # None /\ ~HasMedia(r) /\ Save(s, db)
  <2>1. head \in Items \cup {None} /\ (head # None => head \in Items /\ head \in ToSet(r.queue))
    BY <1>3, HeadIn
  <2> HIDE DEF head
  <2>2. Chosen(r, head, s) BY <1>3, <2>1, SetCurrentFacts
  <2> HIDE DEF s
  <2>3. Chosen(r, head, room') /\ Wrote(db) BY <1>0, <1>6, <2>2, SaveChosen
  <2>4. MovedOn(room) BY <1>2, <2>1, <2>3 DEF MovedOn
  <2> QED BY <1>1, <1>3, <1>4, <1>6, <2>3, <2>4
<1>7. CASE ~(r.cur # None /\ ~HasMedia(r)) /\ Become(r, FALSE)
  <2>1. room' = r /\ db' = db BY <1>7 DEF Become
  <2>2. Wrote(db) BY <1>0, <2>1 DEF Wrote
  <2> QED BY <1>1, <1>2, <1>3, <1>4, <1>7, <2>1, <2>2
<1> QED BY <1>1, <1>5, <1>6, <1>7

\* ReloadQueue leaves a good room behind.
LEMMA ReloadGood == ASSUME Inv, ReloadQueue PROVE Preserved
<1>0. Keeps BY DEF ReloadQueue, Keeps, Sync
<1>1. SoundDb(db') /\ deleted' \in BOOLEAN /\ Keeps BY <1>0, ReloadFacts DEF Wrote
<1>2. CASE room' = room BY <1>1, <1>2 DEF Preserved, Inv
<1>3. CASE Quiet(room, room') BY <1>1, <1>3, QuietSound DEF Preserved, Inv
<1>4. CASE MovedOn(room)
  <2>1. PICK r, item : Chosen(r, item, room') BY <1>4 DEF MovedOn
  <2> QED BY <1>1, <2>1 DEF Preserved, Chosen, WaitsFor
<1> QED BY <1>2, <1>3, <1>4, ReloadFacts

\* PurgePlayed
LEMMA PurgeFacts ==
  ASSUME Inv, PurgePlayed
  PROVE  /\ room' = room /\ deleted' = deleted /\ SoundDb(db') /\ db'.media = db.media
         /\ Rows(db') \subseteq Rows(db) /\ db'.playing = db.playing /\ db'.cur \in {db.cur, None}
         /\ Keeps
<1>1. PICK n \in 0..Len(db.played) - 1 :
         db' = Deleted(db, ToSet(SubSeq(db.played, n + 1, Len(db.played))))
  BY DEF PurgePlayed
<1> DEFINE gone == ToSet(SubSeq(db.played, n + 1, Len(db.played)))
<1>2. db' = Deleted(db, gone) BY <1>1
<1>a. db.queue \in Seq(Items) /\ gone \subseteq Items /\ ToSet(db.queue) \cap gone = {}
  <2>1. db.played \in Seq(Items) /\ Apart(db.queue, db.played) BY DEF Inv, SoundDb, Apart
  <2>2. Len(db.played) \in Nat /\ n + 1 \in Nat /\ n + 1 >= 1 BY <2>1
  <2>3. gone \subseteq ToSet(db.played) BY <2>1, <2>2, SubSeqSet
  <2>4. ToSet(db.played) \subseteq Items BY <2>1 DEF ToSet
  <2> QED BY <2>1, <2>3, <2>4 DEF Apart
<1> HIDE DEF gone
<1>3. /\ SoundDb(db') /\ db'.media = db.media /\ Rows(db') = Rows(db) \ gone /\ db'.playing = db.playing
      /\ db'.cur \in {db.cur, None} /\ db'.base = db.base /\ db'.queue = Without(db.queue, gone)
      /\ db.cur \notin gone => db'.cur = db.cur
  BY <1>2, DeletedRows DEF Inv
<1>4. db'.queue = db.queue BY <1>3, <1>a, WithoutCases
<1>5. Keeps
  <2> SUFFICES ASSUME Sync PROVE Sync' BY DEF Keeps
  <2>1. db.cur = None \/ db.cur \in ToSet(db.queue) BY DEF Sync, Agree, Anchored
  <2>2. db.cur \notin gone BY <1>a, <2>1, RoomAssumption
  <2> QED BY <1>3, <1>4, <2>2 DEF PurgePlayed, Sync, Agree
<1> QED BY <1>3, <1>5 DEF PurgePlayed

\* PurgePlayed leaves good rows behind.
LEMMA PurgeGood == ASSUME Inv, PurgePlayed PROVE Preserved
BY PurgeFacts DEF Preserved, Inv

\* A room that was loaded is a good one.
LEMMA FetchedGood ==
  ASSUME SoundDb(db'), room' \in Loaded(db'), deleted' \in BOOLEAN,
         Faults = {} /\ Sync => Anchored(db') /\ ~deleted'
  PROVE  Preserved
<1>1. Fetched(db', room') BY LoadedFacts
<1>2. Keeps
  <2> SUFFICES ASSUME Faults = {}, Sync PROVE Anchored(room') /\ Agree(room', db') /\ ~deleted'
    BY DEF Keeps, Sync
  <2>1. Anchored(db') /\ ~deleted' OBVIOUS
  <2>2. ~(db'.cur # None /\ db'.cur \notin ToSet(db'.queue)) BY <2>1 DEF Anchored
  <2>3. Agree(room', db') BY <1>1, <2>2 DEF Fetched, Agree, SoundDb, DbType
  <2> QED BY <2>1, <2>3 DEF Anchored, Agree
<1> QED BY <1>1, <1>2 DEF Fetched, Preserved, WaitsFor

\* The rows a saved clock leaves.
LEMMA SavedRows ==
  ASSUME Sound(room), SoundDb(db)
  PROVE  /\ SoundDb(Saved(room, db)) /\ Saved(room, db).media = db.media
         /\ Rows(Saved(room, db)) = Rows(db)
         /\ Saved(room, db).cur = room.cur /\ Saved(room, db).playing = room.playing
         /\ Saved(room, db).queue = db.queue
<1>0. db \in DbType /\ Apart(db.queue, db.played) /\ room \in RoomType BY DEF Sound, Formed, SoundDb
<1>1. Saved(room, db) \in DbType BY <1>0 DEF Saved, DbType, RoomType
<1>2. /\ Saved(room, db).queue = db.queue /\ Saved(room, db).played = db.played /\ Saved(room, db).media = db.media
      /\ Saved(room, db).cur = room.cur /\ Saved(room, db).playing = room.playing
  BY <1>0 DEF Saved, DbType
<1> QED BY <1>0, <1>1, <1>2 DEF SoundDb, Rows

\* Unload: the clock is saved, or not, and the room loaded by whoever asks next.
LEMMA UnloadFacts ==
  ASSUME Inv, Unload
  PROVE  /\ room' \in Loaded(db') /\ deleted' = deleted /\ SoundDb(db') /\ ~room.playing
         /\ db' = db \/ db' = Saved(room, db)
<1>1. PICK ok \in SaveOutcomes(room, db) : db' = IF ok THEN Saved(room, db) ELSE db BY DEF Unload
<1>2. SoundDb(db') BY <1>1, SavedRows DEF Inv
<1> QED BY <1>1, <1>2 DEF Unload, Idle

\* Unload leaves a good room behind.
LEMMA UnloadGood == ASSUME Inv, Unload PROVE Preserved
<1>1. ASSUME Sync PROVE Anchored(db')
  <2>1. Anchored(db) /\ Saved(room, db).cur = db.cur /\ Saved(room, db).playing = db.playing
    BY <1>1, SavedRows DEF Inv, Sync, Agree, Anchored
  <2> QED BY <2>1, UnloadFacts, SavedRows DEF Inv, Anchored
<1> QED BY <1>1, UnloadFacts, FetchedGood DEF Inv, Sync

\* Restart: the room is loaded from the rows as they are.
LEMMA RestartGood == ASSUME Inv, Restart PROVE Preserved
<1>1. Sync => Anchored(db') BY DEF Restart, Sync, Agree, Anchored
<1> QED BY <1>1, FetchedGood DEF Inv, Restart

\* RestartMidway: some items marked played, or the history requeued.
LEMMA MidwayFacts ==
  ASSUME Inv, RestartMidway
  PROVE  /\ room' \in Loaded(db') /\ deleted' = FALSE /\ SoundDb(db') /\ db'.media = db.media
         /\ Rows(db') = Rows(db) /\ db'.cur = db.cur /\ db'.playing = db.playing
<1> DEFINE going == Leaving(room)
<1>0. /\ SoundDb(db) /\ Once(room.queue) /\ room.cur \in Items
  BY CurItem DEF Inv, Sound, Formed, Apart, Once, RestartMidway
<1>1. Once(going)
  <2>1. PICK n : Goes(room, n) BY <1>0, LeavingPart DEF Once
  <2> QED BY <2>1 DEF Goes, Once
<1>2. /\ room' \in Loaded(db') /\ deleted' = FALSE
      /\ \/ \E n \in 1..Len(going) : db' = Marked(db, SubSeq(going, 1, n))
         \/ db' = Requeued(Marked(db, going))
  BY DEF RestartMidway
<1> HIDE DEF going
<1>3. CASE \E n \in 1..Len(going) : db' = Marked(db, SubSeq(going, 1, n))
  <2>1. PICK n \in 1..Len(going) : db' = Marked(db, SubSeq(going, 1, n)) BY <1>3
  <2> DEFINE part == SubSeq(going, 1, n)
  <2>2. Once(part)
    <3>1. going \in Seq(Items) /\ IsInjective(going) /\ n \in Nat /\ 1 \in Nat /\ 1 >= 1 /\ n <= Len(going)
      <4>1. Len(going) \in Nat BY <1>1 DEF Once
      <4> QED BY <1>1, <4>1 DEF Once
    <3> QED BY <3>1, SubSeqSet DEF Once
  <2>3. db' = Marked(db, part) BY <2>1
  <2> HIDE DEF part
  <2> QED BY <1>0, <1>2, <2>2, <2>3, MarkedRows
<1>4. CASE db' = Requeued(Marked(db, going))
  <2> DEFINE d == Marked(db, going)
             q == d.queue \o Reverse(d.played)
  <2>1. /\ SoundDb(d) /\ d.media = db.media /\ d.cur = db.cur /\ d.playing = db.playing /\ Rows(d) = Rows(db)
    BY <1>0, <1>1, MarkedRows
  <2> HIDE DEF d
  <2>2. Apart(q, <<>>) /\ ToSet(q) = ToSet(d.queue) \cup ToSet(d.played) BY <2>1, RequeuedApart DEF SoundDb
  <2>3. db' = PutRows(d, q, <<>>) BY <1>4, <2>1 DEF d, Requeued, PutRows, SoundDb, DbType
  <2> HIDE DEF q
  <2>4. /\ SoundDb(db') /\ db'.queue = q /\ db'.played = <<>> /\ db'.media = d.media /\ db'.cur = d.cur
        /\ db'.playing = d.playing
    BY <2>1, <2>2, <2>3, Rewritten
  <2>5. Rows(db') = Rows(db)
    <3>1. ToSet(<<>>) = {} BY EmptySet
    <3> QED BY <2>1, <2>2, <2>4, <3>1 DEF Rows
  <2> QED BY <1>2, <2>1, <2>4, <2>5
<1> QED BY <1>2, <1>3, <1>4

\* RestartMidway leaves a good room behind.
LEMMA MidwayGood == ASSUME Inv, RestartMidway PROVE Preserved
<1>1. Faults # {} BY DEF RestartMidway
<1> QED BY <1>1, MidwayFacts, FetchedGood

\* Tick saves a clock again that is marked unsaved.
LEMMA TickGood == ASSUME Inv, Tick PROVE Preserved
<1>1. Sound(room') /\ SoundDb(db') /\ (WaitsFor(room) => WaitsFor(room')) BY SaveFacts DEF Inv, Tick
<1>2. Keeps
  <2> SUFFICES ASSUME Faults = {}, Sync PROVE Anchored(room') /\ Agree(room', db') BY DEF Keeps, Sync, Tick
  <2> QED BY SaveSync DEF Inv, Tick, Sync, Agree
<1> QED BY <1>1, <1>2 DEF Preserved, Inv, Tick

-----------------------------------------------------------------------------
(***************************************************************************)
(* The theorems                                                            *)
(***************************************************************************)

\* A room that was never used is a good one.
LEMMA InitInv == ASSUME Init PROVE Inv
<1>1. db \in [queue: {<<>>}, played: {<<>>}, media: [Media -> {"wait", "ready"}], cur: {None},
              playing: {FALSE}, base: {"start"}, settings: Settings]
  BY DEF Init
<1>2. /\ db.queue = <<>> /\ db.played = <<>> /\ db.media \in [Media -> {"wait", "ready"}] /\ db.cur = None
      /\ db.playing = FALSE /\ db.base = "start" /\ db.settings \in Settings
      /\ db = [queue |-> db.queue, played |-> db.played, media |-> db.media, cur |-> db.cur,
               playing |-> db.playing, base |-> db.base, settings |-> db.settings]
  BY <1>1
<1>3. <<>> \in Seq(Items) /\ db.media \in [Media -> MediaStatus \cup {"gone"}] BY <1>2 DEF MediaStatus
<1>4. db \in DbType BY <1>2, <1>3 DEF DbType, Position
<1>5. Apart(<<>>, <<>>) BY <1>3, EmptySet DEF Apart, IsInjective
<1>6. SoundDb(db) BY <1>2, <1>4, <1>5 DEF SoundDb
<1>7. Fetched(db, room) BY <1>6, LoadedFacts DEF Init
<1> QED BY <1>6, <1>7 DEF Inv, Fetched, Init

\* The timers and their callbacks.
LEMMA TimerGood == ASSUME Inv, Timer PROVE Preserved
BY ElapseGood, FireAdvanceGood, OnEndedGood, FireGood, OnEndedLateGood, PauseIfEmptyGood, StartWaitingGood,
   StopWaitingGood, EndCountdownGood
   DEF Timer

\* The playback commands.
LEMMA PlaybackGood == ASSUME Inv, PlaybackCommand PROVE Preserved
BY PlayGood, SeekGood, PauseGood, SetRateGood, NextItemGood, SkipVoteGood, JumpGood DEF PlaybackCommand

\* The queue commands.
LEMMA QueueCommandGood == ASSUME Inv, QueueCommand PROVE Preserved
<1>1. CASE \E i \in Items : QueueAdd(i) \/ QueueRemove(i) \/ QueueRetry(i) \/ QueueVote(i)
  BY <1>1, QueueAddGood, QueueRemoveGood, QueueRetryGood, QueueVoteFacts, TidiedGood
<1>2. CASE \E i \in Items, after \in Items \cup {None} : QueueMove(i, after)
  BY <1>2, QueueMoveFacts, TidiedGood
<1>3. CASE \E i, j \in Items : QueueAddMany(<<i>>) \/ QueueAddMany(<<i, j>>) \/ QueueReplay(i, j)
  <2>1. PICK i \in Items, j \in Items : QueueAddMany(<<i>>) \/ QueueAddMany(<<i, j>>) \/ QueueReplay(i, j) BY <1>3
  <2>2. <<i>> \in Seq(Items) /\ <<i>> # <<>> /\ <<i, j>> \in Seq(Items) /\ <<i, j>> # <<>> OBVIOUS
  <2> QED BY <2>1, <2>2, QueueAddManyGood, QueueReplayGood
<1>4. CASE QueueShuffle \/ QueueClear \/ QueueClearPlayed \/ EndSession
  BY <1>4, QueueShuffleFacts, ClearFacts, ClearPlayedFacts, TidiedGood, EndSessionGood
<1> QED BY <1>1, <1>2, <1>3, <1>4 DEF QueueCommand

\* What happens outside the room, and to the server.
LEMMA OutsideGood == ASSUME Inv, Outside \/ Server PROVE Preserved
BY IngestGood, MediaUpdatedGood, DeleteMediaGood, ReloadGood, PurgeGood, TickGood, UnloadGood, RestartGood, MidwayGood
   DEF Outside, Server

\* Only being kicked is not among what is Preserved.
LEMMA StepGood == ASSUME Inv, [Next]_vars PROVE Preserved \/ \E v \in Viewers : Kick(v)
<1>1. CASE UNCHANGED vars
  <2>1. Keeps BY <1>1, StillSync DEF vars, Steady
  <2> QED BY <1>1, <2>1 DEF vars, Preserved, Inv
<1>2. CASE Presence BY <1>2, JoinGood, LeaveGood, ReportGood DEF Presence
<1>3. CASE \E s \in Settings : SettingsSet(s) BY <1>3, SettingsGood
<1> QED BY <1>1, <1>2, <1>3, TimerGood, PlaybackGood, QueueCommandGood, OutsideGood DEF Next

\* Every step keeps the invariant.
LEMMA StepInv == ASSUME Inv, [Next]_vars PROVE Inv'
<1>1. CASE Preserved BY <1>1 DEF Preserved, Inv
<1>2. CASE \E v \in Viewers : Kick(v)
  BY <1>2, KickFacts DEF Inv
<1> QED BY <1>1, <1>2, StepGood

\* The rooms, the rows and the timers are well formed at all times: the
\* invariant of every critical section of internal/room.
THEOREM RoomInvariant == Spec => []Inv
<1>1. Init => Inv BY InitInv
<1>2. Inv /\ [Next]_vars => Inv' BY StepInv
<1> QED BY <1>1, <1>2, PTL DEF Spec

\* TypeOK holds: no command, callback or failure leaves the room or its rows
\* with a value outside their types.
THEOREM RoomTypes == Spec => []TypeOK
<1>1. Inv => TypeOK BY DEF Inv, Sound, Formed, SoundDb, TypeOK
<1> QED BY <1>1, RoomInvariant, PTL

\* An item is in the queue or in the history, once, in memory and in the
\* tables, whatever failed or was interrupted (queue.go, order.go).
THEOREM ItemsInOnePlace == Spec => []ItemOnce
<1>1. Inv => ItemOnce BY ApartOnce DEF Inv, Sound, Formed, SoundDb, ItemOnce
<1> QED BY <1>1, RoomInvariant, PTL

\* A room that plays for nobody has the pause armed, if it can have viewers
\* at all (armEmptyPauseLocked and its callers).
THEOREM EmptyRoomsPause == ASSUME Viewers # {} PROVE Spec => []EmptyPauseArmed
<1>1. Inv => EmptyPauseArmed BY DEF Inv, Sound, EmptyArmed, EmptyPauseArmed
<1> QED BY <1>1, RoomInvariant, PTL

\* An item is left by itself only at its end (onEndedLocked).
THEOREM AdvancesAtEnd == Spec => AdvanceAtEnd
<1> DEFINE Step == room'.cur # room.cur /\ room.here # "end" =>
                     ~OnEnded /\ \A e \in room.ended : ~OnEndedLate(e)
<1>1. Inv /\ [Next]_vars => [Step]_vars
  <2> SUFFICES ASSUME Inv, room'.cur # room.cur, room.here # "end"
               PROVE  ~OnEnded /\ \A e \in room.ended : ~OnEndedLate(e)
    OBVIOUS
  <2>0. room \in RoomType /\ AtEnd(room) BY DEF Inv, Sound, Formed
  <2>1. ASSUME OnEnded PROVE FALSE
    <3>1. ~StillCurrent(room.adv) BY <2>0, <2>1 DEF OnEnded, StillCurrent, AtEnd
    <3>2. Become([room EXCEPT !.adv = NoAdvance], FALSE) BY <2>1, <3>1 DEF OnEnded
    <3> QED BY <2>0, <3>2 DEF Become, RoomType
  <2>2. ASSUME NEW e \in room.ended, OnEndedLate(e) PROVE FALSE
    <3>1. ~StillCurrent(e) BY <2>0, <2>2 DEF OnEndedLate, StillCurrent, AtEnd
    <3>2. Become([room EXCEPT !.ended = @ \ {e}], FALSE) BY <2>2, <3>1 DEF OnEndedLate
    <3> QED BY <2>0, <3>2 DEF Become, RoomType
  <2> QED BY <2>1, <2>2
<1> QED BY <1>1, RoomInvariant, PTL DEF Spec, AdvanceAtEnd

\* A room goes on waiting only while somebody is stuck, unless the one it
\* waits for is kicked (checkBufferingLocked and its callers).
THEOREM WaitHasReason == Spec => WaitsForSomeone
<1> DEFINE Step == WaitsFor(room) => WaitsFor(room') \/ \E v \in Viewers : Kick(v)
<1>1. Inv /\ [Next]_vars => [Step]_vars BY StepGood DEF Preserved
<1> QED BY <1>1, RoomInvariant, PTL DEF Spec, WaitsForSomeone

-----------------------------------------------------------------------------
(***************************************************************************)
(* The room and its rows                                                   *)
(***************************************************************************)

\* A room that was never used has nothing current, in memory as in its row.
LEMMA InitSync == ASSUME Init PROVE Sync
<1>1. db.queue = <<>> /\ db.cur = None /\ db.playing = FALSE /\ db.base = "start" BY DEF Init
<1>2. SoundDb(db) BY InitInv DEF Inv
<1>3. Fetched(db, room) BY <1>2, LoadedFacts DEF Init
<1>4. Agree(room, db) BY <1>1, <1>3 DEF Fetched, Agree
<1> QED BY <1>1, <1>4 DEF Init, Sync, Agree, Anchored

\* Every step keeps what is Sync, where nothing fails.
LEMMA StepSync == ASSUME Faults = {}, Inv, Sync, [Next]_vars PROVE Sync'
<1>1. CASE Preserved BY <1>1 DEF Preserved, Keeps
<1>2. CASE \E v \in Viewers : Kick(v) BY <1>2, KickFacts DEF Keeps
<1> QED BY <1>1, <1>2, StepGood

\* As long as no statement fails, the process does not die halfway through a
\* command and no media are deleted, the current item is queued, a room that
\* plays has one, and a room with something queued has one (QueueAdd,
\* QueueRemove, QueueClear, nextLocked).
THEOREM CurrentStaysQueued == ASSUME Faults = {} PROVE Spec => []CurrentQueued
<1>1. Init => Sync BY InitSync
<1>2. Inv /\ Sync /\ [Next]_vars => Sync' BY StepSync
<1>3. Inv /\ Sync => CurrentQueued
  <2> SUFFICES ASSUME Inv, Sync PROVE CurrentQueued OBVIOUS
  <2>1. room.queue \in Seq(Items) BY DEF Inv, Sound, Formed, Apart
  <2>2. Contains(room.queue, room.cur) <=> room.cur \in ToSet(room.queue) BY <2>1, ContainsSet
  <2> QED BY <2>2 DEF Sync, Anchored, CurrentQueued
<1> QED BY <1>1, <1>2, <1>3, RoomInvariant, PTL DEF Spec

\* Under the same conditions a restart, or an unload and a load, between any
\* two commands brings back the queue and the clock the room has
\* (savePlaybackLocked in every command that moves the clock; load()).
THEOREM RestartsRecover == ASSUME Faults = {} PROVE Spec => []Recoverable
<1>1. Init => Sync BY InitSync
<1>2. Inv /\ Sync /\ [Next]_vars => Sync' BY StepSync
<1>3. Inv /\ Sync => Recoverable
  <2> SUFFICES ASSUME Inv, Sync, NEW r \in Loaded(db)
               PROVE  /\ r.queue = room.queue /\ r.cur = room.cur
                      /\ r.playing = room.playing /\ r.base = room.base
    BY DEF Recoverable
  <2>1. Fetched(db, r) BY LoadedFacts DEF Inv
  <2>2. ~(db.cur # None /\ db.cur \notin ToSet(db.queue)) BY DEF Sync, Agree, Anchored
  <2>3. db.playing \in BOOLEAN BY DEF Inv, SoundDb, DbType
  <2>4. r.queue = db.queue /\ r.cur = db.cur /\ r.playing = db.playing /\ r.base = db.base
    BY <2>1, <2>2, <2>3 DEF Fetched
  <2> QED BY <2>4 DEF Sync, Agree
<1> QED BY <1>1, <1>2, <1>3, RoomInvariant, PTL DEF Spec

\* Under the same conditions the loop goes on from the oldest of what was
\* played: a skip comes back to the item it left only if that is the oldest
\* (nextLocked and the restart of the loop in playback.go).
THEOREM LoopsFromTop == ASSUME Faults = {} PROVE Spec => LoopFromTop
<1> DEFINE Step == /\ room.settings.loop /\ ~room.settings.votes
                   /\ room'.cur = room.cur /\ room'.here = "start" /\ NextItem
                   => room.cur = Last(Marked(db, Leaving(room)).played)
<1>1. Init => Sync BY InitSync
<1>2. Inv /\ Sync /\ [Next]_vars => Sync' BY StepSync
<1>3. Inv /\ Sync /\ [Next]_vars => [Step]_vars
  <2> SUFFICES ASSUME Inv, Sync, ~room.settings.votes, room'.cur = room.cur, NextItem
               PROVE  room.cur = Last(Marked(db, Leaving(room)).played)
    OBVIOUS
  <2>1. room.cur \in Items /\ NextLocked(room) /\ Sound(room) BY CurItem DEF NextItem, Inv
  <2>2. Continued(room) BY <2>1, NextFacts
  <2> QED BY <2>2 DEF Continued, Sync, Agree
<1> QED BY <1>1, <1>2, <1>3, RoomInvariant, PTL DEF Spec, LoopFromTop

-----------------------------------------------------------------------------
(***************************************************************************)
(* A room that plays                                                       *)
(***************************************************************************)

\* The item a room plays can be played, and the timer of its end is armed.
Plays(r) ==
    /\ r.playing /\ r.cur # None => Playable(r)
    /\ r.playing /\ Playable(r) => r.adv.state # "nil" /\ r.adv.item = r.cur /\ r.adv.fresh

\* A room waits for somebody, counts down or neither, and the item it will
\* then play can be played.
Stops(r) ==
    /\ r.countdown => r.waiting = {}
    /\ (r.countdown \/ r.waiting # {}) /\ r.cur # None => Playable(r)

\* With viewers: a room that waits or counts down does not play.
Fit(r) == Plays(r) /\ (Viewers # {} => Stops(r) /\ (r.playing => r.waiting = {} /\ ~r.countdown))

\* What a room believes of a media that is done is so, or the media is gone.
Kin(r, d) == \A m \in Media : r.media[m] \in {"ready", "failed"} => d.media[m] \in {r.media[m], "gone"}

\* The rows of items have rows of media, ready for what is saved as playing.
Rooted(d) ==
    /\ \A i \in Rows(d) : d.media[Link[i]] # "gone"
    /\ d.playing /\ d.cur \in Rows(d) => d.media[Link[d.cur]] = "ready"

Fits == Fit(room) /\ Kin(room, db) /\ Rooted(db)

\* Playable in terms of sets.
LEMMA PlayableIs ==
  ASSUME NEW r, r \in RoomType
  PROVE  Playable(r) <=> r.cur # None /\ r.cur \in ToSet(r.queue) /\ r.media[Link[r.cur]] = "ready"
<1>1. r.queue \in Seq(Items) BY DEF RoomType
<1>2. Contains(r.queue, r.cur) <=> r.cur \in ToSet(r.queue) BY <1>1, ContainsSet
<1> QED BY <1>2 DEF Playable, HasMedia

\* A room with the same clock whose item did not become unplayable.
LEMMA SameFit ==
  ASSUME NEW r, NEW s, Fit(r), s.cur = r.cur, s.playing = r.playing, s.waiting = r.waiting,
         s.countdown = r.countdown, s.adv = r.adv, Playable(r) => Playable(s)
  PROVE  Fit(s)
<1>1. Playable(s) => s.cur # None BY DEF Playable, HasMedia
<1>2. Plays(s) BY <1>1 DEF Fit, Plays
<1> QED BY <1>2 DEF Fit, Stops

\* A clock that was set anew.
LEMMA SetFit ==
  ASSUME NEW r, NEW playing, NEW pos, NEW s, SetTo(r, playing, pos, s), playing /\ r.cur # None => Playable(r),
         Viewers # {} => Stops(r) /\ (playing => r.waiting = {} /\ ~r.countdown)
  PROVE  Fit(s)
<1>1. Playable(s) <=> Playable(r) BY DEF SetTo, Playable, HasMedia
<1>2. /\ s.cur = r.cur /\ s.playing = playing /\ s.waiting = r.waiting /\ s.countdown = r.countdown
      /\ s.adv = AdvanceOf(r, playing)
  BY DEF SetTo
<1>3. Plays(s) BY <1>1, <1>2 DEF Plays, AdvanceOf
<1> QED BY <1>1, <1>2, <1>3 DEF Fit, Stops

\* An item that became current, or none.
LEMMA ChosenFit ==
  ASSUME NEW r, NEW item, NEW s, Chosen(r, item, s), item # None => item \in ToSet(r.queue),
         Viewers # {} => (r.countdown => r.waiting = {})
  PROVE  Fit(s)
<1>0. s \in RoomType BY DEF Chosen, Sound, Formed
<1>1. CASE item = None
  <2>1. s.cur = None /\ ~s.playing /\ s.waiting = r.waiting /\ s.countdown = r.countdown BY <1>1 DEF Chosen
  <2> QED BY <2>1 DEF Fit, Plays, Stops
<1>2. CASE item # None
  <2>1. /\ s.cur = item /\ item \in ToSet(s.queue) /\ s.playing = (s.media[Link[item]] = "ready")
        /\ s.waiting = {} /\ ~s.countdown /\ s.adv = AdvanceOf(s, s.playing)
    BY <1>2 DEF Chosen
  <2>2. Playable(s) <=> s.playing BY <1>0, <1>2, <2>1, PlayableIs
  <2> QED BY <2>1, <2>2 DEF Fit, Plays, Stops, AdvanceOf
<1> QED BY <1>1, <1>2

\* What a wait that ends starts can be played.
LEMMA ResumedFit ==
  ASSUME NEW r \in RoomType, Fit(r), NEW s, Resumed(r, s)
  PROVE  Fit(s)
<1>1. Playable(s) <=> Playable(r) BY DEF Resumed, Playable, HasMedia
<1>2. CASE s.playing = r.playing /\ s.adv = r.adv
  BY <1>1, <1>2 DEF Fit, Plays, Stops, Resumed
<1>3. CASE s.playing /\ ~r.playing /\ s.adv = AdvanceOf(r, TRUE) /\ r.waiting # {}
  <2>1. Viewers # {} BY <1>3 DEF RoomType
  <2>2. Plays(s) BY <1>1, <1>3, <2>1 DEF Fit, Plays, Stops, Resumed, AdvanceOf
  <2>3. ~s.countdown /\ s.waiting = {} BY <1>3, <2>1 DEF Resumed, Fit, Stops
  <2> QED BY <2>2, <2>3 DEF Fit, Stops
<1> QED BY <1>2, <1>3 DEF Resumed

\* So can what is started when nobody is stuck any more.
LEMMA LookedFit ==
  ASSUME NEW r \in RoomType, Fit(r), NEW s, Looked(r, s)
  PROVE  Fit(s)
<1>1. Playable(s) <=> Playable(r) BY DEF Looked, Playable, HasMedia
<1>2. CASE s.playing = r.playing /\ s.adv = r.adv
  BY <1>1, <1>2 DEF Fit, Plays, Stops, Looked
<1>3. CASE s.playing /\ ~r.playing /\ s.adv = AdvanceOf(r, TRUE) /\ r.waiting # {}
  <2>1. Viewers # {} BY <1>3 DEF RoomType
  <2>2. Plays(s) BY <1>1, <1>3, <2>1 DEF Fit, Plays, Stops, Looked, AdvanceOf
  <2>3. ~s.countdown BY <1>3, <2>1 DEF Looked, Fit, Stops
  <2> QED BY <1>1, <1>3, <2>1, <2>2, <2>3 DEF Fit, Stops, Looked
<1> QED BY <1>2, <1>3 DEF Looked

\* What a step does to the rows that is none of its own.
Settled ==
    /\ SoundDb(db') /\ db'.media = db.media /\ Rows(db') \subseteq Rows(db)
    /\ \/ db'.playing = db.playing /\ db'.cur \in {db.cur, None}
       \/ db'.playing = room'.playing /\ db'.cur = room'.cur

\* What a room reads of the media is so.
LEMMA BatchKin ==
  ASSUME NEW r, NEW d, SoundDb(d), r.media = MediaBatch(d)
  PROVE  Kin(r, d)
BY DEF Kin, MediaBatch, SoundDb, DbType

\* Rows name items.
LEMMA RowItems == ASSUME NEW d, SoundDb(d) PROVE Rows(d) \subseteq Items /\ None \notin Rows(d)
<1>1. ToSet(d.queue) \subseteq Items /\ ToSet(d.played) \subseteq Items BY DEF SoundDb, DbType, ToSet
<1> QED BY <1>1, RoomAssumption DEF Rows

\* A clock that was saved from a fit room says of an item with a row that it
\* plays only when its media is ready.
LEMMA SavedRooted ==
  ASSUME SoundDb(db'), Fit(room'), Kin(room', db'), \A i \in Rows(db') : db'.media[Link[i]] # "gone",
         db'.playing = room'.playing, db'.cur = room'.cur
  PROVE  Rooted(db')
<1>1. ASSUME db'.playing, db'.cur \in Rows(db') PROVE db'.media[Link[db'.cur]] = "ready"
  <2>1. db'.cur \in Items /\ db'.cur # None BY <1>1, RowItems
  <2>2. Playable(room') BY <1>1, <2>1 DEF Fit, Plays
  <2>3. room'.media[Link[room'.cur]] = "ready" BY <2>2 DEF Playable
  <2>4. Link[db'.cur] \in Media BY <2>1, RoomAssumption
  <2> QED BY <1>1, <2>3, <2>4 DEF Kin
<1> QED BY <1>1 DEF Rooted

\* Such a step keeps room and rows together.
LEMMA KinUpheld ==
  ASSUME Inv, Fits, Sound(room'), Fit(room'), Kin(room', db), Settled
  PROVE  Fits'
<1>1. Kin(room', db') BY DEF Kin, Settled
<1>2. \A i \in Rows(db') : db'.media[Link[i]] # "gone" BY DEF Settled, Fits, Rooted
<1>3. CASE db'.playing = db.playing /\ db'.cur \in {db.cur, None}
  <2>1. None \notin Rows(db') BY RowItems DEF Settled
  <2>2. Rooted(db') BY <1>2, <1>3, <2>1 DEF Settled, Fits, Rooted
  <2> QED BY <1>1, <2>2 DEF Fits
<1>4. CASE db'.playing = room'.playing /\ db'.cur = room'.cur
  <2>1. Rooted(db') BY <1>1, <1>2, <1>4, SavedRooted DEF Settled
  <2> QED BY <1>1, <2>1 DEF Fits
<1> QED BY <1>3, <1>4 DEF Settled

\* So does one that reads all media or none.
LEMMA Upheld ==
  ASSUME Inv, Fits, Sound(room'), Fit(room'), room'.media \in {room.media, MediaBatch(db)}, Settled
  PROVE  Fits'
<1>1. Kin(room', db) BY BatchKin DEF Fits, Kin, Inv
<1> QED BY <1>1, KinUpheld

\* What was saved or not is still fit.
LEMMA BecomeKin ==
  ASSUME Inv, Fits, NEW r, Sound(r), Fit(r), Kin(r, db), NEW save, Become(r, save)
  PROVE  Fits'
<1>0. SoundDb(db) BY DEF Inv
<1>1. CASE save
  <2>1. Save(r, db) BY <1>1 DEF Become
  <2>2. /\ Sound(room') /\ SoundDb(db') /\ Stays(r, room') /\ (db' = Saved(r, db) \/ db' = db)
    BY <1>0, <2>1, SaveFacts
  <2>3. Playable(room') <=> Playable(r) BY <2>2 DEF Stays, Quiet, Playable, HasMedia
  <2>4. Fit(room') /\ room'.media = r.media BY <2>2, <2>3, SameFit DEF Stays, Quiet
  <2>5. Settled
    <3>1. CASE db' = db BY <1>0, <3>1 DEF Settled
    <3>2. CASE db' = Saved(r, db)
      <4>1. /\ db'.queue = db.queue /\ db'.played = db.played /\ db'.media = db.media
            /\ db'.cur = r.cur /\ db'.playing = r.playing
        BY <1>0, <3>2 DEF Saved, SoundDb, DbType
      <4> QED BY <2>2, <4>1 DEF Settled, Rows, Stays, Quiet
    <3> QED BY <2>2, <3>1, <3>2
  <2>6. Kin(room', db) BY <2>4 DEF Kin
  <2> QED BY <2>2, <2>4, <2>5, <2>6, KinUpheld
<1>2. CASE ~save
  <2>1. room' = r /\ db' = db BY <1>2 DEF Become
  <2>2. Settled BY <1>0, <2>1 DEF Settled
  <2> QED BY <2>1, <2>2, KinUpheld
<1> QED BY <1>1, <1>2

\* In particular with the media as they were.
LEMMA BecomeFits ==
  ASSUME Inv, Fits, NEW r, Sound(r), Fit(r), r.media = room.media, NEW save, Become(r, save)
  PROVE  Fits'
<1>1. Kin(r, db) BY DEF Fits, Kin
<1> QED BY <1>1, BecomeKin

\* Nothing changed but timers of the slots, the wait and the countdown.
LEMMA CalmFit ==
  ASSUME NEW r, NEW s, Fit(r), Calm(r, s), s.waiting \in {r.waiting, {}}, s.countdown => r.countdown
  PROVE  Fit(s)
<1>1. Playable(s) <=> Playable(r) BY CalmSound
<1>2. Plays(s) BY <1>1 DEF Calm, Fit, Plays
<1> QED BY <1>1, <1>2 DEF Calm, Fit, Stops

\* Nothing changed but one timer.
LEMMA SlottedFit ==
  ASSUME NEW r, NEW k, NEW s, Fit(r), Slotted(r, k, s)
  PROVE  Fit(s)
<1>1. Playable(s) <=> Playable(r) BY SameViews DEF Slotted
<1> QED BY <1>1, SameFit DEF Slotted, Same

\* Nothing changed but who is here.
LEMMA BesideFit ==
  ASSUME NEW r, NEW s, Fit(r), Beside(r, s)
  PROVE  Fit(s)
<1>1. Playable(s) = Playable(r) BY BesideFormed
<1> QED BY <1>1, SameFit DEF Beside

\* Play
LEMMA PlayFits == ASSUME Inv, Fits, NEW counted \in BOOLEAN, Play(counted) PROVE Fits'
<1> DEFINE r == EndWait(room)
           a == Arm(r, "countdown")
           b == [a EXCEPT !.countdown = TRUE]
           c == CancelCountdown(r)
           s == SetPlayback(c, TRUE, StartFrom(r.base))
<1>0. room \in RoomType /\ Sound(room) BY DEF Inv, Sound, Formed
<1>1. Calm(room, r) /\ r.waiting = {} /\ r.countdown = room.countdown BY <1>0, EndWaitFacts
<1>2. /\ Sound(r) /\ r \in RoomType /\ Playable(r) = Playable(room) /\ r.media = room.media /\ r.cur = room.cur
      /\ r.playing = room.playing /\ r.base \in Position
  BY <1>0, <1>1, CalmSound DEF Calm, RoomType
<1>3. Fit(r) BY <1>1, CalmFit DEF Fits
<1>4. Playable(room) /\ (Become(r, FALSE) \/ (~r.playing /\ Become(b, FALSE)) \/ Become(s, TRUE)) BY DEF Play
<1> HIDE DEF r
<1>6. CASE Become(r, FALSE) BY <1>2, <1>3, <1>6, BecomeFits
<1>7. CASE ~r.playing /\ Become(b, FALSE)
  <2>0. "countdown" \in Kinds /\ "countdown" # "empty" BY DEF Kinds
  <2>1. Slotted(r, "countdown", a) BY <1>2, <2>0, ArmFacts
  <2>2. Sound(a) /\ a \in RoomType BY <1>2, <2>0, <2>1, SlottedSound DEF Slotted
  <2>3. Playable(a) /\ ~a.playing /\ a.waiting = {} /\ a.media = room.media
    BY <1>1, <1>2, <1>4, <1>7, <2>1, SameViews DEF Slotted, Same
  <2> HIDE DEF a
  <2>4. Calm(a, b) /\ b.waiting = a.waiting BY <2>2, CountFacts
  <2> HIDE DEF b
  <2>5. Sound(b) /\ Playable(b) /\ ~b.playing /\ b.waiting = {} /\ b.media = room.media
    BY <2>2, <2>3, <2>4, CalmSound DEF Calm
  <2>6. Fit(b) BY <2>5 DEF Fit, Plays, Stops
  <2> QED BY <1>7, <2>5, <2>6, BecomeFits
<1>8. CASE Become(s, TRUE)
  <2>1. Calm(r, c) /\ c.waiting = r.waiting /\ ~c.countdown BY <1>2, CancelFacts
  <2>2. Formed(c) /\ Playable(c) /\ c.media = room.media BY <1>2, <1>4, <2>1, CalmSound DEF Sound, Calm
  <2>3. StartFrom(r.base) \in Position BY <1>2, StartType
  <2> HIDE DEF c
  <2>4. SetTo(c, TRUE, StartFrom(r.base), s) /\ Sound(s) BY <2>2, <2>3, PlaybackFacts
  <2> HIDE DEF s
  <2>5. Stops(c) /\ c.waiting = {} BY <1>1, <2>1 DEF Stops
  <2>6. Fit(s) BY <2>1, <2>2, <2>4, <2>5, SetFit
  <2>7. s.media = room.media BY <2>2, <2>4 DEF SetTo
  <2> QED BY <1>8, <2>4, <2>6, <2>7, BecomeFits
<1> QED BY <1>4, <1>6, <1>7, <1>8

\* Pause
LEMMA PauseFits == ASSUME Inv, Fits, Pause PROVE Fits'
<1> DEFINE u == EndWait(room)
           r == CancelCountdown(u)
           s == SetPlayback(r, FALSE, r.here)
<1>0. room \in RoomType /\ Sound(room) BY DEF Inv, Sound, Formed
<1>1. Calm(room, u) /\ u.waiting = {} /\ u.countdown = room.countdown BY <1>0, EndWaitFacts
<1>2. Become(IF r.playing THEN s ELSE r, r.playing) BY DEF Pause
<1> HIDE DEF u
<1>3. Calm(u, r) /\ r.waiting = u.waiting /\ ~r.countdown
  <2>1. u \in RoomType BY <1>1 DEF Calm
  <2> QED BY <2>1, CancelFacts
<1> HIDE DEF r
<1>4. Sound(r) /\ Fit(r) /\ r.media = room.media
  <2>1. Sound(u) /\ Fit(u) BY <1>0, <1>1, CalmSound, CalmFit DEF Fits
  <2> QED BY <1>1, <1>3, <2>1, CalmSound, CalmFit DEF Calm
<1>5. SetTo(r, FALSE, r.here, s) /\ Sound(s)
  <2>1. Formed(r) /\ r.here \in Position BY <1>4 DEF Sound, Formed, RoomType
  <2> QED BY <2>1, PlaybackFacts
<1> HIDE DEF s
<1>6. Fit(s) /\ s.media = room.media
  <2>1. Stops(r) BY <1>1, <1>3 DEF Stops
  <2> QED BY <1>4, <1>5, <2>1, SetFit DEF SetTo
<1>7. r.playing \in BOOLEAN BY <1>4 DEF Sound, Formed, RoomType
<1> QED BY <1>2, <1>4, <1>5, <1>6, <1>7, BecomeFits

\* Seek
LEMMA SeekFits == ASSUME Inv, Fits, NEW pos \in Position, Seek(pos) PROVE Fits'
<1> DEFINE p == room.playing /\ Playable(room)
           s == SetPlayback(room, p, pos)
<1>0. Formed(room) /\ p \in BOOLEAN BY DEF Inv, Sound, Formed
<1>1. Become(s, TRUE) BY DEF Seek
<1>2. p => room.playing /\ Playable(room) OBVIOUS
<1> HIDE DEF p
<1>3. SetTo(room, p, pos, s) /\ Sound(s) BY <1>0, PlaybackFacts
<1> HIDE DEF s
<1>4. Fit(s) /\ s.media = room.media BY <1>2, <1>3, SetFit DEF Fits, Fit, SetTo
<1> QED BY <1>1, <1>3, <1>4, BecomeFits

\* SetRate
LEMMA SetRateFits == ASSUME Inv, Fits, SetRate PROVE Fits'
<1> DEFINE s == SetPlayback(room, room.playing, room.here)
<1>0. Formed(room) /\ room.playing \in BOOLEAN /\ room.here \in Position BY DEF Inv, Sound, Formed, RoomType
<1>1. Become(s, TRUE) BY DEF SetRate
<1>2. SetTo(room, room.playing, room.here, s) /\ Sound(s) BY <1>0, PlaybackFacts
<1> HIDE DEF s
<1>3. Fit(s) /\ s.media = room.media BY <1>2, SetFit DEF Fits, Fit, Plays, SetTo
<1> QED BY <1>1, <1>2, <1>3, BecomeFits

\* The commands that go on to the next item come from somebody who is here,
\* where there are viewers at all: not from one who was kicked meanwhile.
Attends == NextItem \/ SkipVote \/ (\E i \in Items : QueueRemove(i)) => Viewers = {} \/ Here(room) # {}

\* nextLocked
LEMMA NextFits ==
  ASSUME Inv, Fits, "store" \notin Faults, NEW r0, Sound(r0), r0.cur \in Items, r0.media = room.media,
         NextLocked(r0), Viewers # {} => (r0.countdown => r0.waiting = {}),
         Viewers # {} /\ Here(r0) = {} => r0.waiting = {} /\ ~r0.countdown
  PROVE  Fits'
<1>1. Wrote(db) /\ (MovedOn(r0) \/ Topped(r0)) BY NextFacts DEF Failed
<1>2. Settled BY <1>1 DEF Wrote, Settled
<1>3. CASE MovedOn(r0)
  <2>1. PICK r, item : /\ Quiet(r0, r) /\ r.media \in {r0.media, MediaBatch(db)}
                       /\ item # None => item \in Items /\ item \in ToSet(r.queue)
                       /\ Chosen(r, item, room')
    BY <1>3 DEF MovedOn
  <2>2. Fit(room') BY <2>1, ChosenFit DEF Quiet
  <2>3. Sound(room') /\ room'.media \in {room.media, MediaBatch(db)} BY <2>1 DEF Chosen
  <2> QED BY <1>2, <2>2, <2>3, Upheld
<1>4. CASE Topped(r0)
  <2>1. Fit(room') BY <1>4 DEF Topped, Fit, Plays, Stops
  <2>2. Sound(room') /\ room'.media = MediaBatch(db) BY <1>4 DEF Topped
  <2> QED BY <1>2, <2>1, <2>2, Upheld
<1> QED BY <1>1, <1>3, <1>4

\* NextItem, SkipVote and the removal of the current item.
LEMMA NextItemFits ==
  ASSUME Inv, Fits, "store" \notin Faults, room.cur # None, NextLocked(room),
         Viewers = {} \/ Here(room) # {}
  PROVE  Fits'
<1>1. room.cur \in Items /\ Sound(room) BY CurItem DEF Inv
<1>2. Viewers # {} => (room.countdown => room.waiting = {}) BY DEF Fits, Fit, Stops
<1> QED BY <1>1, <1>2, NextFits

\* Jump
LEMMA JumpFits == ASSUME Inv, Fits, "store" \notin Faults, NEW item \in Items, Jump(item) PROVE Fits'
<1> DEFINE going == IF room.cur \in {None, item} THEN <<>> ELSE <<room.cur>>
           r == MarkPlayed(room, going)
           d == Marked(db, going)
           s == SetCurrent(r, item)
<1>0. SoundDb(db) /\ Formed(room) /\ room.queue \in Seq(Items) BY DEF Inv, Sound, Formed, RoomType
<1>1. Save(s, d) BY DEF Jump, Abort, MayFail, Outcomes
<1>2. item \in ToSet(room.queue) BY <1>0, ContainsSet DEF Jump
<1>3. Once(going) /\ item \notin ToSet(going)
  <2>1. room.cur # None => room.cur \in Items BY CurItem
  <2> QED BY <2>1, SingleSet, EmptySet DEF Once
<1> HIDE DEF going
<1>4. Quiet(room, r) /\ r.queue = Without(room.queue, ToSet(going)) /\ r.media = room.media
  BY <1>0, <1>3, MarkPlayedFacts
<1>5. Formed(r) BY <1>0, <1>4, QuietSound
<1>6. SoundDb(d) /\ d.media = db.media /\ d.cur = db.cur /\ d.playing = db.playing /\ Rows(d) = Rows(db)
  BY <1>0, <1>3, MarkedRows
<1> HIDE DEF r, d
<1>7. item \in ToSet(r.queue) BY <1>0, <1>2, <1>3, <1>4, WithoutSet
<1>8. Chosen(r, item, s) BY <1>5, SetCurrentFacts
<1> HIDE DEF s
<1>9. Chosen(r, item, room') /\ Wrote(d) BY <1>1, <1>6, <1>8, SaveChosen
<1>10. Settled BY <1>6, <1>9 DEF Wrote, Settled
<1>11. Fit(room') BY <1>4, <1>7, <1>9, ChosenFit DEF Fits, Fit, Stops, Quiet
<1> QED BY <1>4, <1>9, <1>10, <1>11, Upheld DEF Chosen

\* A command that tidies the queue or the history.
LEMMA TidiedFits == ASSUME Inv, Fits, Tidied PROVE Fits'
<1>0. room \in RoomType /\ room' \in RoomType /\ Sound(room') BY QuietSound DEF Inv, Sound, Formed, Tidied, Quiet
<1>1. Playable(room) => Playable(room') BY <1>0, PlayableIs DEF Tidied, Quiet
<1>2. Fit(room') BY <1>1, SameFit DEF Fits, Tidied, Quiet
<1>3. Settled BY DEF Tidied, Settled
<1> QED BY <1>0, <1>2, <1>3, Upheld DEF Tidied

\* What holds of the media of items that are queued.
Known(batch, media) ==
    /\ \A m \in Media : media[m] \in {"ready", "failed"} => Created(batch)[m] \in {media[m], "gone"}
    /\ room.cur \in Items /\ room.media[Link[room.cur]] = "ready" => media[Link[room.cur]] = "ready"

\* Their rows.
LEMMA CreatedMedia ==
  ASSUME Inv, Fits, NEW batch, Once(batch)
  PROVE  /\ \A i \in Rows(db) \cup ToSet(batch) : Created(batch)[Link[i]] # "gone"
         /\ \A m \in Media : db.media[m] = "ready" => Created(batch)[m] = "ready"
<1>1. Rows(db) \subseteq Items /\ ToSet(batch) \subseteq Items BY RowItems DEF Inv, Once, ToSet
<1>2. \A i \in ToSet(batch) : Link[i] \in Linked(batch) /\ Link[i] \in Media BY <1>1, RoomAssumption DEF Linked
<1>3. \A i \in Rows(db) : Link[i] \in Media /\ db.media[Link[i]] # "gone" BY <1>1, RoomAssumption DEF Fits, Rooted
<1>4. \A m \in Media : Created(batch)[m] = IF m \in Linked(batch) THEN MediaBatch(db)[m] ELSE db.media[m]
  BY DEF Created
<1>5. \A m \in Media : MediaBatch(db)[m] # "gone" /\ (db.media[m] # "gone" => MediaBatch(db)[m] = db.media[m])
  BY DEF MediaBatch
<1> QED BY <1>2, <1>3, <1>4, <1>5

\* Items that are queued keep room and rows together.
LEMMA QueuedFits ==
  ASSUME Inv, Fits, NEW batch, NewItems(batch), NEW media, Queued(batch, media), Known(batch, media)
  PROVE  Fits'
<1>0. Once(batch) /\ room \in RoomType BY DEF NewItems, Inv, Sound, Formed
<1>1. SoundDb(db') /\ db'.media = Created(batch) /\ Rows(db') = Rows(db) \cup ToSet(batch) BY DEF Queued
<1>2. Fit(room') /\ room'.media = media
  <2>1. CASE Quiet(room, room') /\ room'.media = media /\ ToSet(room'.queue) = ToSet(room.queue) \cup ToSet(batch)
    <3>1. room' \in RoomType /\ room'.cur = room.cur BY <2>1 DEF Quiet
    <3>2. Playable(room) => Playable(room')
      <4>1. room.cur # None => room.cur \in Items BY CurItem
      <4> QED BY <1>0, <2>1, <3>1, <4>1, PlayableIs DEF Known
    <3> QED BY <2>1, <3>2, SameFit DEF Fits, Quiet
  <2>2. CASE \E r : /\ Quiet(room, r) /\ r.media = media /\ batch[1] \in ToSet(r.queue) /\ batch[1] \in Items
                    /\ Chosen(r, batch[1], room')
    <3>1. PICK r : /\ Quiet(room, r) /\ r.media = media /\ batch[1] \in ToSet(r.queue)
                   /\ Chosen(r, batch[1], room')
      BY <2>2
    <3>2. room'.media = media BY <3>1 DEF Chosen
    <3> QED BY <3>1, <3>2, ChosenFit DEF Fits, Fit, Stops, Quiet
  <2> QED BY <2>1, <2>2 DEF Queued
<1>3. Kin(room', db') BY <1>1, <1>2 DEF Kin, Known
<1>4. \A i \in Rows(db') : db'.media[Link[i]] # "gone" BY <1>0, <1>1, CreatedMedia
<1>5. CASE db'.cur = db.cur /\ db'.playing = db.playing
  <2>1. ASSUME db'.playing, db'.cur \in Rows(db') PROVE db'.media[Link[db'.cur]] = "ready"
    <3>1. db.cur \in Rows(db) BY <1>1, <1>5, <2>1 DEF NewItems
    <3>2. db.media[Link[db.cur]] = "ready" BY <1>5, <2>1, <3>1 DEF Fits, Rooted
    <3>3. Link[db.cur] \in Media BY <3>1, RowItems, RoomAssumption DEF Inv
    <3> QED BY <1>0, <1>1, <1>5, <3>2, <3>3, CreatedMedia
  <2> QED BY <1>2, <1>3, <1>4, <2>1 DEF Fits, Rooted
<1>6. CASE db'.cur = room'.cur /\ db'.playing = room'.playing
  BY <1>1, <1>2, <1>3, <1>4, <1>6, SavedRooted DEF Fits
<1> QED BY <1>5, <1>6 DEF Queued

\* The media a batch comes with, as the room reads them.
LEMMA FreshKnown ==
  ASSUME Inv, Fits, NEW batch, Once(batch), \A i \in ToSet(batch) : Fresh(i)
  PROVE  Known(batch, FreshMedia(batch))
<1>1. \A m \in Media : Created(batch)[m] = IF m \in Linked(batch) THEN MediaBatch(db)[m] ELSE db.media[m]
  BY DEF Created
<1>2. \A m \in Media : FreshMedia(batch)[m] = IF m \in Linked(batch) THEN MediaBatch(db)[m] ELSE room.media[m]
  BY DEF FreshMedia
<1>3. ASSUME room.cur \in Items, room.media[Link[room.cur]] = "ready"
      PROVE  FreshMedia(batch)[Link[room.cur]] = "ready"
  <2> DEFINE l == Link[room.cur]
  <2>1. l \in Media BY <1>3, RoomAssumption
  <2>2. db.media[l] \in {"ready", "gone"} BY <1>3, <2>1 DEF Fits, Kin
  <2>3. ASSUME l \in Linked(batch) PROVE db.media[l] # "gone"
    <3>1. PICK i \in ToSet(batch) : Link[i] = l BY <2>3 DEF Linked
    <3>2. room.cur \in Mentioned BY DEF Mentioned
    <3> QED BY <1>3, <3>1, <3>2 DEF Fresh
  <2> QED BY <1>2, <1>3, <2>1, <2>2, <2>3 DEF MediaBatch
<1>4. \A m \in Media : FreshMedia(batch)[m] \in {"ready", "failed"} => Created(batch)[m] \in {FreshMedia(batch)[m], "gone"}
  BY <1>1, <1>2 DEF Fits, Kin
<1> QED BY <1>3, <1>4 DEF Known

\* QueueAdd
LEMMA QueueAddFits == ASSUME Inv, Fits, NEW item \in Items, QueueAdd(item) PROVE Fits'
<1>1. Fresh(item) BY DEF QueueAdd
<1>2. NewItems(<<item>>) /\ Once(<<item>>) BY <1>1, FreshOne DEF NewItems
<1>3. \A i \in ToSet(<<item>>) : Fresh(i) BY <1>1, SingleSet
<1> QED BY <1>2, <1>3, QueueAddFacts, FreshKnown, QueuedFits

\* QueueAddMany
LEMMA QueueAddManyFits ==
  ASSUME Inv, Fits, "store" \notin Faults, NEW batch \in Seq(Items), batch # <<>>, QueueAddMany(batch)
  PROVE  Fits'
<1>1. Once(batch) /\ \A i \in ToSet(batch) : Fresh(i) BY DEF QueueAddMany, Once
<1>2. NewItems(batch) BY <1>1, FreshNew
<1> QED BY <1>1, <1>2, QueueAddManyFacts, FreshKnown, QueuedFits

\* QueueReplay
LEMMA QueueReplayFits ==
  ASSUME Inv, Fits, NEW old \in Items, NEW item \in Items, QueueReplay(old, item)
  PROVE  Fits'
<1>1. Fresh(item) /\ Link[old] = Link[item] /\ db.media[Link[old]] # "gone" BY DEF QueueReplay
<1>2. NewItems(<<item>>) BY <1>1, FreshOne
<1>3. Linked(<<item>>) = {Link[item]} BY SingleSet DEF Linked
<1>4. \A m \in Media : Created(<<item>>)[m] = db.media[m] BY <1>1, <1>3 DEF Created, MediaBatch
<1>5. Known(<<item>>, room.media) BY <1>4 DEF Known, Fits, Kin
<1> QED BY <1>2, <1>5, QueueReplayFacts, QueuedFits

\* QueueRetry: a media that failed is nobody's to play.
LEMMA QueueRetryFits == ASSUME Inv, Fits, NEW item \in Items, QueueRetry(item) PROVE Fits'
<1> DEFINE l == Link[item]
           m == [room.media EXCEPT ![l] = "wait"]
           n == [db.media EXCEPT ![l] = "wait"]
<1>0. room \in RoomType /\ Apart(room.queue, room.played) /\ db \in DbType /\ l \in Media
  BY RoomAssumption DEF Inv, Sound, Formed, SoundDb
<1>1. room' = [room EXCEPT !.media = m] /\ db' = [db EXCEPT !.media = n] /\ room.media[l] = "failed"
  BY <1>0 DEF QueueRetry, RoomType, DbType
<1>2. m \in [Media -> MediaStatus] /\ n \in [Media -> MediaStatus \cup {"gone"}]
  BY <1>0 DEF RoomType, DbType, MediaStatus
<1>3. /\ \A x \in Media \ {l} : m[x] = room.media[x] /\ n[x] = db.media[x]
      /\ m[l] = "wait" /\ n[l] = "wait"
  BY <1>0 DEF RoomType, DbType
<1>4. db.media[l] # "ready" BY <1>0, <1>1 DEF Fits, Kin
<1> HIDE DEF m, n, l
<1>5. room' = Put(room, room.queue, room.played, m) BY <1>0, <1>1 DEF Put, RoomType
<1>6. Quiet(room, room') /\ room'.queue = room.queue /\ room'.media = m BY <1>0, <1>2, <1>5, Requeue
<1>7. /\ db'.media = n /\ Rows(db') = Rows(db) /\ db'.cur = db.cur /\ db'.playing = db.playing
  BY <1>1, <1>2, MediaRow DEF Inv
<1>8. Playable(room) => Playable(room')
  <2>1. room.cur # None => room.cur \in Items /\ Link[room.cur] \in Media BY CurItem, RoomAssumption
  <2>2. room' \in RoomType /\ room'.cur = room.cur BY <1>6 DEF Quiet
  <2> QED BY <1>0, <1>1, <1>3, <1>6, <2>1, <2>2, PlayableIs
<1>9. Fit(room') BY <1>6, <1>8, SameFit DEF Fits, Quiet
<1>10. Kin(room', db') BY <1>3, <1>6, <1>7 DEF Kin, Fits
<1>11. Rooted(db')
  <2>1. \A i \in Rows(db) : Link[i] \in Media BY RowItems, RoomAssumption DEF Inv
  <2> QED BY <1>3, <1>4, <1>7, <2>1 DEF Fits, Rooted
<1> QED BY <1>9, <1>10, <1>11 DEF Fits

\* EndSession
LEMMA EndSessionFits == ASSUME Inv, Fits, "store" \notin Faults, EndSession PROVE Fits'
<1>1. /\ Wrote(db) /\ Sound(room') /\ room'.cur = None /\ ~room'.playing /\ room'.media = room.media
      /\ room'.waiting = room.waiting /\ room'.countdown = room.countdown
  BY EndSessionFacts DEF Failed
<1>2. Settled BY <1>1 DEF Wrote, Settled
<1>3. Fit(room') BY <1>1 DEF Fits, Fit, Plays, Stops
<1> QED BY <1>1, <1>2, <1>3, Upheld

\* SettingsSet
LEMMA SettingsFits == ASSUME Inv, Fits, NEW s \in Settings, SettingsSet(s) PROVE Fits'
<1>1. Set(s) BY SettingsFacts
<1>2. room \in RoomType /\ room' \in RoomType BY <1>1 DEF Inv, Sound, Formed, Set
<1>3. Playable(room) => Playable(room') BY <1>1, <1>2, PlayableIs DEF Set
<1>4. Fit(room') BY <1>1, <1>3, SameFit DEF Fits, Set
<1>5. Settled BY <1>1 DEF Set, Settled
<1> QED BY <1>1, <1>4, <1>5, Upheld DEF Set

\* QueueRemove
LEMMA QueueRemoveFits ==
  ASSUME Inv, Fits, "store" \notin Faults, NEW item \in Items, QueueRemove(item), Viewers = {} \/ Here(room) # {}
  PROVE  Fits'
<1>1. CASE item = room.cur /\ NextLocked(room)
  BY <1>1, NextItemFits, RoomAssumption
<1>2. CASE ~(item = room.cur /\ NextLocked(room)) BY <1>2, RemoveFacts, TidiedFits
<1> QED BY <1>1, <1>2

\* Join
LEMMA JoinFits == ASSUME Inv, Fits, NEW v \in Viewers, Join(v) PROVE Fits'
<1>1. /\ db' = db /\ Sound(room') /\ \E r : Slotted(room, "empty", r) /\ Beside(r, room') BY JoinFacts
<1>2. PICK r : Slotted(room, "empty", r) /\ Beside(r, room') BY <1>1
<1>3. Fit(room') BY <1>2, SlottedFit, BesideFit DEF Fits
<1>4. room'.media = room.media BY <1>2 DEF Slotted, Same, Beside
<1>5. Settled BY <1>1 DEF Settled, Inv
<1> QED BY <1>1, <1>3, <1>4, <1>5, Upheld

\* Leave
LEMMA LeaveFits == ASSUME Inv, Fits, NEW v \in Viewers, Leave(v) PROVE Fits'
<1>1. PICK u, a, s, save : Beside(room, u) /\ Slotted(u, "empty", a) /\ Looked(a, s) /\ Become(s, save)
  BY LeaveFacts
<1>2. Fit(a) /\ a \in RoomType /\ a.media = room.media
  BY <1>1, BesideFit, SlottedFit DEF Fits, Slotted, Same, Beside
<1>3. Fit(s) BY <1>1, <1>2, LookedFit
<1> QED BY <1>1, <1>2, <1>3, BecomeFits DEF Looked

\* Kick
LEMMA KickFits == ASSUME Inv, Fits, NEW v \in Viewers, Kick(v) PROVE Fits'
<1>1. /\ db' = db /\ Sound(room') /\ \E u : Beside(room, u) /\ Slotted(u, "empty", room') BY KickFacts
<1>2. PICK u : Beside(room, u) /\ Slotted(u, "empty", room') BY <1>1
<1>3. Fit(room') BY <1>2, SlottedFit, BesideFit DEF Fits
<1>4. room'.media = room.media BY <1>2 DEF Slotted, Same, Beside
<1>5. Settled BY <1>1 DEF Settled, Inv
<1> QED BY <1>1, <1>3, <1>4, <1>5, Upheld

\* Report
LEMMA ReportFits == ASSUME Inv, Fits, NEW v \in Viewers, Report(v) PROVE Fits'
<1>1. PICK u, s, save : Beside(room, u) /\ Looked(u, s) /\ Become(s, save) BY ReportFacts
<1>2. Fit(u) /\ u \in RoomType /\ u.media = room.media BY <1>1, BesideFit DEF Fits, Beside
<1>3. Fit(s) BY <1>1, <1>2, LookedFit
<1> QED BY <1>1, <1>2, <1>3, BecomeFits DEF Looked

\* Elapse
LEMMA ElapseFits == ASSUME Inv, Fits, Elapse PROVE Fits'
<1>1. /\ db' = db /\ Sound(room') /\ room'.queue = room.queue /\ room'.media = room.media
      /\ room'.cur = room.cur /\ room'.playing = room.playing /\ room'.waiting = room.waiting
      /\ room'.countdown = room.countdown /\ room'.adv = room.adv
  BY ElapseFacts
<1>2. Playable(room') <=> Playable(room) BY <1>1 DEF Playable, HasMedia
<1>3. Fit(room') BY <1>1, <1>2, SameFit DEF Fits
<1>4. Settled BY <1>1 DEF Settled, Inv
<1> QED BY <1>1, <1>3, <1>4, Upheld

\* A timer fires.
LEMMA FireFits == ASSUME Inv, Fits, NEW k \in Kinds, Fire(k) PROVE Fits'
<1>1. db' = db /\ Slotted(room, k, room') /\ Sound(room') BY FireFacts
<1>2. Fit(room') /\ room'.media = room.media BY <1>1, SlottedFit DEF Fits, Slotted, Same
<1>3. Settled BY <1>1 DEF Settled, Inv
<1> QED BY <1>1, <1>2, <1>3, Upheld

\* The advance timer fires.
LEMMA FireAdvanceFits == ASSUME Inv, Fits, FireAdvance PROVE Fits'
<1>1. /\ db' = db /\ Ticking(room, room') /\ Sound(room')
      /\ room'.adv.state # "nil" /\ room'.adv.item = room.adv.item /\ room'.adv.fresh = room.adv.fresh
  BY FireAdvanceFacts
<1>2. Playable(room') <=> Playable(room) BY <1>1 DEF Playable, HasMedia, Ticking
<1>3. Fit(room') BY <1>1, <1>2 DEF Fits, Fit, Plays, Stops, Ticking
<1>4. Settled BY <1>1 DEF Settled, Inv
<1> QED BY <1>1, <1>3, <1>4, Upheld DEF Ticking

\* The callback of the advance timer, on time or late: r is the room without it.
LEMMA EndedFits ==
  ASSUME Inv, Fits, "store" \notin Faults, NEW t, t.item # None, NEW r, Ticking(room, r), Sound(r),
         r.adv = room.adv \/ (t = room.adv /\ r.adv = NoAdvance),
         IF StillCurrent(t) THEN NextLocked(r) ELSE Become(r, FALSE)
  PROVE  Fits'
<1>1. CASE StillCurrent(t)
  <2>1. NextLocked(r) BY <1>1
  <2>2. room.playing /\ room.cur # None BY <1>1 DEF StillCurrent
  <2>3. r.cur \in Items /\ r.media = room.media BY <2>2, CurItem DEF Ticking
  <2>4. Viewers # {} => r.waiting = {} /\ ~r.countdown BY <2>2 DEF Fits, Fit, Ticking
  <2> QED BY <2>1, <2>3, <2>4, NextFits
<1>2. CASE ~StillCurrent(t)
  <2>1. Become(r, FALSE) BY <1>2
  <2>2. Playable(r) <=> Playable(room) BY DEF Playable, HasMedia, Ticking
  <2>3. CASE r.adv = room.adv
    <3>1. Fit(r) BY <2>2, <2>3, SameFit DEF Fits, Ticking
    <3> QED BY <2>1, <3>1, BecomeFits DEF Ticking
  <2>4. CASE t = room.adv
    <3>1. ~(r.playing /\ Playable(r)) BY <1>2, <2>2, <2>4 DEF StillCurrent, Fits, Fit, Plays, Ticking
    <3>2. Fit(r) BY <2>2, <3>1 DEF Fits, Fit, Plays, Stops, Ticking
    <3> QED BY <2>1, <3>2, BecomeFits DEF Ticking
  <2> QED BY <2>3, <2>4
<1> QED BY <1>1, <1>2

\* OnEnded
LEMMA OnEndedFits == ASSUME Inv, Fits, "store" \notin Faults, OnEnded PROVE Fits'
<1> DEFINE r == [room EXCEPT !.adv = NoAdvance]
<1>1. Ticking(room, r) /\ Sound(r) /\ r.adv = NoAdvance BY AdvanceGone
<1>2. IF StillCurrent(room.adv) THEN NextLocked(r) ELSE Become(r, FALSE) BY DEF OnEnded
<1>3. room.adv.item # None BY DEF OnEnded, Inv, Sound, Formed, Held
<1> HIDE DEF r
<1> QED BY <1>1, <1>2, <1>3, EndedFits

\* OnEndedLate
LEMMA OnEndedLateFits ==
  ASSUME Inv, Fits, "store" \notin Faults, NEW e \in room.ended, OnEndedLate(e)
  PROVE  Fits'
<1> DEFINE r == [room EXCEPT !.ended = @ \ {e}]
<1>1. Ticking(room, r) /\ Sound(r) /\ r.adv = room.adv BY LateGone
<1>2. IF StillCurrent(e) THEN NextLocked(r) ELSE Become(r, FALSE) BY DEF OnEndedLate
<1>3. e.item # None BY DEF Inv, Sound, Formed, Held
<1> HIDE DEF r
<1> QED BY <1>1, <1>2, <1>3, EndedFits

\* PauseIfEmpty
LEMMA PauseIfEmptyFits == ASSUME Inv, Fits, PauseIfEmpty PROVE Fits'
<1>1. PICK r, s, save : /\ Slotted(room, "empty", r) /\ Become(s, save) /\ Sound(s)
                        /\ s = r \/ \E pos : SetTo(r, FALSE, pos, s)
  BY PauseIfEmptyFacts
<1>2. Fit(r) /\ r.media = room.media BY <1>1, SlottedFit DEF Fits, Slotted, Same
<1>3. CASE s = r BY <1>1, <1>2, <1>3, BecomeFits
<1>4. CASE \E pos : SetTo(r, FALSE, pos, s)
  <2>1. PICK pos : SetTo(r, FALSE, pos, s) BY <1>4
  <2>2. s.media = room.media BY <1>2, <2>1 DEF SetTo
  <2>3. Viewers # {} => Stops(r) BY <1>2 DEF Fit
  <2>4. Fit(s) BY <2>1, <2>3, SetFit
  <2> QED BY <1>1, <2>2, <2>4, BecomeFits
<1> QED BY <1>1, <1>3, <1>4

\* StartWaiting
LEMMA StartWaitingFits == ASSUME Inv, Fits, StartWaiting PROVE Fits'
<1>1. PICK r, s, save :
         /\ Slotted(room, "buffer", r) /\ Become(s, save) /\ Sound(s)
         /\ \/ s = r
            \/ /\ room.playing /\ ~s.playing /\ s.cur = room.cur /\ s.queue = room.queue
               /\ s.media = room.media /\ s.countdown = room.countdown
  BY StartWaitingFacts
<1>2. CASE s = r
  <2>1. Fit(r) /\ r.media = room.media BY <1>1, SlottedFit DEF Fits, Slotted, Same
  <2> QED BY <1>1, <1>2, <2>1, BecomeFits
<1>3. CASE /\ room.playing /\ ~s.playing /\ s.cur = room.cur /\ s.queue = room.queue
           /\ s.media = room.media /\ s.countdown = room.countdown
  <2>1. Playable(s) <=> Playable(room) BY <1>3 DEF Playable, HasMedia
  <2>2. Fit(s) BY <1>3, <2>1 DEF Fits, Fit, Plays, Stops
  <2> QED BY <1>1, <1>3, <2>2, BecomeFits
<1> QED BY <1>1, <1>2, <1>3

\* StopWaiting
LEMMA StopWaitingFits == ASSUME Inv, Fits, StopWaiting PROVE Fits'
<1>1. PICK r, g, s, save : /\ Slotted(room, "wait", r) /\ Become(s, save) /\ Sound(s)
                           /\ s = r \/ (Beside(r, g) /\ Resumed(g, s))
  BY StopWaitingFacts
<1>2. Fit(r) /\ r.media = room.media BY <1>1, SlottedFit DEF Fits, Slotted, Same
<1>3. CASE s = r BY <1>1, <1>2, <1>3, BecomeFits
<1>4. CASE Beside(r, g) /\ Resumed(g, s)
  <2>1. Fit(g) /\ g \in RoomType BY <1>2, <1>4, BesideFit DEF Beside
  <2>2. Fit(s) /\ s.media = room.media BY <1>2, <1>4, <2>1, ResumedFit DEF Beside, Resumed
  <2> QED BY <1>1, <2>2, BecomeFits
<1> QED BY <1>1, <1>3, <1>4

\* EndCountdown
LEMMA EndCountdownFits == ASSUME Inv, Fits, EndCountdown PROVE Fits'
<1>1. PICK r, s, save :
         /\ Calm(room, r) /\ r.waiting = room.waiting /\ (r.countdown => room.countdown)
         /\ Become(s, save) /\ Sound(s)
         /\ \/ s = r
            \/ /\ room.countdown /\ ~r.countdown /\ Playable(room) /\ ~room.playing
               /\ \E pos : SetTo(r, TRUE, pos, s)
  BY EndCountdownFacts
<1>2. Fit(r) /\ r.media = room.media /\ (Playable(r) <=> Playable(room))
  BY <1>1, CalmFit, CalmSound DEF Fits, Calm
<1>3. CASE s = r BY <1>1, <1>2, <1>3, BecomeFits
<1>4. CASE /\ room.countdown /\ ~r.countdown /\ Playable(room) /\ \E pos : SetTo(r, TRUE, pos, s)
  <2>1. PICK pos : SetTo(r, TRUE, pos, s) BY <1>4
  <2>2. Viewers # {} => r.waiting = {} BY <1>1, <1>4 DEF Fits, Fit, Stops
  <2>3. s.media = room.media BY <1>2, <2>1 DEF SetTo
  <2>4. Playable(r) /\ ~r.countdown /\ (Viewers # {} => Stops(r)) BY <1>2, <1>4 DEF Fit
  <2>5. Fit(s) BY <2>1, <2>2, <2>4, SetFit
  <2> QED BY <1>1, <2>3, <2>5, BecomeFits
<1> QED BY <1>1, <1>3, <1>4

\* Ingest
LEMMA IngestFits == ASSUME Inv, Fits, NEW m \in Media, Ingest(m) PROVE Fits'
<1>1. PICK x \in {"ready", "failed"} : db' = [db EXCEPT !.media[m] = x] BY DEF Ingest
<1> DEFINE n == [db.media EXCEPT ![m] = x]
<1>2. db.media[m] = "wait" /\ room' = room BY DEF Ingest
<1>3. /\ n \in [Media -> MediaStatus \cup {"gone"}] /\ db' = [db EXCEPT !.media = n]
      /\ \A y \in Media : n[y] = (IF y = m THEN x ELSE db.media[y])
  BY <1>1 DEF Inv, SoundDb, DbType, MediaStatus
<1> HIDE DEF n
<1>4. /\ SoundDb(db') /\ db'.media = n /\ Rows(db') = Rows(db) /\ db'.cur = db.cur /\ db'.playing = db.playing
  BY <1>3, MediaRow DEF Inv
<1>5. Kin(room', db') BY <1>2, <1>3, <1>4 DEF Kin, Fits
<1>6. Rooted(db')
  <2>1. \A i \in Rows(db) : Link[i] \in Media BY RowItems, RoomAssumption DEF Inv
  <2> QED BY <1>2, <1>3, <1>4, <2>1 DEF Fits, Rooted
<1> QED BY <1>2, <1>5, <1>6 DEF Fits

\* MediaUpdated: what the room takes over is newer than what it knew.
LEMMA MediaUpdatedFits == ASSUME Inv, Fits, NEW m \in Media, MediaUpdated(m) PROVE Fits'
<1>1. PICK r, s, save : Took(m, r, s) /\ Become(s, save) /\ Sound(s) BY MediaUpdatedFacts
<1>2. /\ Quiet(room, r) /\ r.queue = room.queue /\ r \in RoomType /\ room \in RoomType
      /\ r.media = [room.media EXCEPT ![m] = db.media[m]] /\ db.media[m] \notin {room.media[m], "gone"}
  BY <1>1 DEF Took, Quiet, Inv, Sound, Formed
<1>3. \A y \in Media : r.media[y] = (IF y = m THEN db.media[m] ELSE room.media[y]) BY <1>2 DEF RoomType
<1>4. room.media[m] \notin {"ready", "failed"} BY <1>2 DEF Fits, Kin
<1>5. Playable(room) => Playable(r)
  <2>1. room.cur # None => room.cur \in Items /\ Link[room.cur] \in Media BY CurItem, RoomAssumption
  <2>2. r.cur = room.cur BY <1>2 DEF Quiet
  <2> QED BY <1>2, <1>3, <1>4, <2>1, <2>2, PlayableIs
<1>6. Fit(r) BY <1>2, <1>5, SameFit DEF Fits, Quiet
<1>7. Kin(r, db) BY <1>3 DEF Fits, Kin
<1>8. CASE s = r BY <1>1, <1>6, <1>7, <1>8, BecomeKin
<1>9. CASE StartsHere(m) /\ SetTo(r, TRUE, "start", s)
  <2>1. HasMedia(room) /\ Link[room.cur] = m /\ db.media[m] = "ready" /\ ~Playable(room) /\ room.cur # None
    BY <1>9 DEF StartsHere, Playable, HasMedia
  <2>2. Playable(r) BY <1>2, <1>3, <2>1 DEF Playable, HasMedia, Quiet
  <2>3. Viewers # {} => r.waiting = {} /\ ~r.countdown BY <1>2, <2>1 DEF Fits, Fit, Stops, Quiet
  <2>4. Viewers # {} => Stops(r) BY <1>6 DEF Fit
  <2>5. Fit(s) BY <1>9, <2>2, <2>3, <2>4, SetFit
  <2>6. Kin(s, db) BY <1>7, <1>9 DEF Kin, SetTo
  <2> QED BY <1>1, <2>5, <2>6, BecomeKin
<1> QED BY <1>1, <1>8, <1>9 DEF Took

\* DeleteMedia
LEMMA DeleteMediaFits == ASSUME Inv, Fits, NEW m \in Media, DeleteMedia(m) PROVE Fits'
<1>1. /\ room' = room /\ SoundDb(db') /\ db'.media = [db.media EXCEPT ![m] = "gone"]
      /\ Rows(db') = Rows(db) \ {i \in Items : Link[i] = m}
      /\ db'.playing = db.playing /\ db'.cur \in {db.cur, None}
  BY DeleteMediaFacts
<1>2. \A y \in Media : db'.media[y] = (IF y = m THEN "gone" ELSE db.media[y])
  BY <1>1 DEF Inv, SoundDb, DbType
<1>3. \A i \in Rows(db') : i \in Items /\ i \in Rows(db) /\ Link[i] \in Media /\ Link[i] # m
  BY <1>1, RowItems, RoomAssumption DEF Inv
<1>4. None \notin Rows(db') BY <1>1, RowItems
<1>5. Kin(room', db') BY <1>1, <1>2 DEF Kin, Fits
<1>6. Rooted(db') BY <1>1, <1>2, <1>3, <1>4 DEF Fits, Rooted
<1> QED BY <1>1, <1>5, <1>6 DEF Fits

\* ReloadQueue
LEMMA ReloadFits == ASSUME Inv, Fits, "store" \notin Faults, ReloadQueue PROVE Fits'
<1>1. Wrote(db) BY ReloadFacts
<1>2. Settled BY <1>1 DEF Wrote, Settled
<1>3. CASE /\ Quiet(room, room') /\ room'.queue = db.queue /\ room'.media = MediaBatch(db)
           /\ room.cur # None => room.cur \in ToSet(db.queue)
  <2>0. room \in RoomType /\ room' \in RoomType /\ Sound(room') /\ room'.cur = room.cur
    BY <1>3, QuietSound DEF Inv, Sound, Formed, Quiet
  <2>1. ASSUME Playable(room) PROVE Playable(room')
    <3>1. room.cur # None /\ room.cur \in Items /\ room.media[Link[room.cur]] = "ready" /\ Link[room.cur] \in Media
      BY <2>0, <2>1, PlayableIs, CurItem, RoomAssumption
    <3>2. db.media[Link[room.cur]] \in {"ready", "gone"} BY <3>1 DEF Fits, Kin
    <3>3. db.media[Link[room.cur]] # "gone" BY <1>3, <3>1 DEF Fits, Rooted, Rows
    <3>4. room'.media[Link[room.cur]] = "ready" BY <1>3, <3>1, <3>2, <3>3 DEF MediaBatch
    <3> QED BY <1>3, <2>0, <3>1, <3>4, PlayableIs
  <2>2. Fit(room') BY <1>3, <2>1, SameFit DEF Fits, Quiet
  <2> QED BY <1>2, <1>3, <2>0, <2>2, Upheld
<1>4. CASE MovedOn(room)
  <2>1. PICK r, item : /\ Quiet(room, r) /\ r.media \in {room.media, MediaBatch(db)}
                       /\ item # None => item \in Items /\ item \in ToSet(r.queue)
                       /\ Chosen(r, item, room')
    BY <1>4 DEF MovedOn
  <2>2. Fit(room') BY <2>1, ChosenFit DEF Quiet, Fits, Fit, Stops
  <2>3. Sound(room') /\ room'.media \in {room.media, MediaBatch(db)} BY <2>1 DEF Chosen
  <2> QED BY <1>2, <2>2, <2>3, Upheld
<1> QED BY <1>3, <1>4, ReloadFacts

\* PurgePlayed
LEMMA PurgeFits == ASSUME Inv, Fits, PurgePlayed PROVE Fits'
<1>1. /\ room' = room /\ SoundDb(db') /\ db'.media = db.media
      /\ Rows(db') \subseteq Rows(db) /\ db'.playing = db.playing /\ db'.cur \in {db.cur, None}
  BY PurgeFacts
<1>2. Settled BY <1>1 DEF Settled
<1>3. Sound(room') /\ Fit(room') BY <1>1 DEF Inv, Fits
<1> QED BY <1>1, <1>2, <1>3, Upheld

\* Tick
LEMMA TickFits == ASSUME Inv, Fits, Tick PROVE Fits'
<1>1. Become(room, TRUE) BY DEF Tick, Become
<1>2. Sound(room) /\ Fit(room) BY DEF Inv, Fits
<1> QED BY <1>1, <1>2, BecomeFits

\* A room that is loaded from rooted rows.
LEMMA FetchedFits == ASSUME SoundDb(db'), Rooted(db'), room' \in Loaded(db') PROVE Fits'
<1> DEFINE d == db'
           r == room'
<1>1. Fetched(d, r) BY LoadedFacts
<1>2. Kin(r, d) BY <1>1, BatchKin DEF Fetched
<1>3. r \in RoomType /\ r.waiting = {} /\ ~r.countdown /\ r.adv = AdvanceOf(r, r.playing)
  BY <1>1 DEF Fetched, Sound, Formed
<1>4. ASSUME r.playing, r.cur # None PROVE Playable(r)
  <2>1. d.playing /\ r.cur = d.cur /\ d.cur \in ToSet(d.queue) /\ r.queue = d.queue /\ r.media = MediaBatch(d)
    BY <1>1, <1>4 DEF Fetched
  <2>2. d.cur \in Rows(d) /\ Link[d.cur] \in Media BY <2>1, RowItems, RoomAssumption DEF Rows
  <2>3. d.media[Link[d.cur]] = "ready" BY <2>1, <2>2 DEF Rooted
  <2>4. r.media[Link[r.cur]] = "ready" BY <2>1, <2>2, <2>3 DEF MediaBatch
  <2> QED BY <1>3, <1>4, <2>1, <2>4, PlayableIs
<1>5. Fit(r) BY <1>3, <1>4 DEF Fit, Plays, Stops, AdvanceOf
<1> QED BY <1>2, <1>5 DEF Fits

\* Unload
LEMMA UnloadFits == ASSUME Inv, Fits, Unload PROVE Fits'
<1>1. /\ room' \in Loaded(db') /\ SoundDb(db') /\ ~room.playing /\ (db' = db \/ db' = Saved(room, db))
  BY UnloadFacts
<1>2. CASE db' = db
  <2>1. Rooted(db') BY <1>2 DEF Fits
  <2> QED BY <1>1, <2>1, FetchedFits
<1>3. CASE db' = Saved(room, db)
  <2>1. db'.media = db.media /\ Rows(db') = Rows(db) /\ ~db'.playing BY <1>1, <1>3, SavedRows DEF Inv
  <2>2. Rooted(db') BY <2>1 DEF Fits, Rooted
  <2> QED BY <1>1, <2>2, FetchedFits
<1> QED BY <1>1, <1>2, <1>3

\* Restart
LEMMA RestartFits == ASSUME Inv, Fits, Restart PROVE Fits'
<1>1. room' \in Loaded(db') /\ db' = db BY DEF Restart
<1>2. SoundDb(db') /\ Rooted(db') BY <1>1 DEF Inv, Fits
<1> QED BY <1>1, <1>2, FetchedFits

\* RestartMidway
LEMMA MidwayFits == ASSUME Inv, Fits, RestartMidway PROVE Fits'
<1>1. /\ room' \in Loaded(db') /\ SoundDb(db') /\ db'.media = db.media
      /\ Rows(db') = Rows(db) /\ db'.cur = db.cur /\ db'.playing = db.playing
  BY MidwayFacts
<1>2. Rooted(db') BY <1>1 DEF Fits, Rooted
<1> QED BY <1>1, <1>2, FetchedFits

\* The initial states.
LEMMA InitFits == ASSUME Init PROVE Fits
<1>1. SoundDb(db) /\ Sound(room) BY InitInv DEF Inv
<1>2. db.queue = <<>> /\ db.played = <<>> /\ room \in Loaded(db) BY DEF Init
<1>3. Rows(db) = {} BY <1>2, EmptySet DEF Rows
<1>4. Fetched(db, room) BY <1>1, <1>2, LoadedFacts
<1>5. Kin(room, db) BY <1>1, <1>4, BatchKin DEF Fetched
<1>6. room.cur = None /\ room.waiting = {} /\ ~room.countdown BY <1>2, <1>4, EmptySet DEF Fetched
<1>7. Fit(room) BY <1>6 DEF Fit, Plays, Stops, Playable, HasMedia
<1> QED BY <1>3, <1>5, <1>7 DEF Fits, Rooted

\* Every step keeps room and rows together, where statements do not fail and
\* commands come from people who are here.
LEMMA StepFits ==
  ASSUME Inv, Fits, "store" \notin Faults, [Next]_vars, [Attends]_vars
  PROVE  Fits'
<1>1. CASE UNCHANGED vars BY <1>1 DEF vars, Fits
<1>2. CASE Next /\ Attends
  <2>1. CASE Timer
    BY <2>1, ElapseFits, FireAdvanceFits, OnEndedFits, FireFits, OnEndedLateFits, PauseIfEmptyFits,
       StartWaitingFits, StopWaitingFits, EndCountdownFits DEF Timer
  <2>2. CASE PlaybackCommand
    <3>1. ASSUME NextItem \/ SkipVote PROVE Fits'
      <4>1. room.cur # None /\ NextLocked(room) BY <3>1 DEF NextItem, SkipVote
      <4>2. Viewers = {} \/ Here(room) # {} BY <1>2, <3>1 DEF Attends
      <4> QED BY <4>1, <4>2, NextItemFits
    <3> QED BY <2>2, <3>1, PlayFits, SeekFits, PauseFits, SetRateFits, JumpFits DEF PlaybackCommand
  <2>3. CASE QueueCommand
    <3>1. ASSUME NEW i \in Items, QueueRemove(i) PROVE Fits'
      <4>1. Viewers = {} \/ Here(room) # {} BY <1>2, <3>1 DEF Attends
      <4> QED BY <3>1, <4>1, QueueRemoveFits
    <3>2. ASSUME NEW i \in Items, NEW j \in Items, QueueAddMany(<<i>>) \/ QueueAddMany(<<i, j>>) PROVE Fits'
      <4>1. <<i>> \in Seq(Items) /\ <<i>> # <<>> /\ <<i, j>> \in Seq(Items) /\ <<i, j>> # <<>> OBVIOUS
      <4> QED BY <3>2, <4>1, QueueAddManyFits
    <3>3. ASSUME NEW i \in Items, QueueVote(i) PROVE Fits' BY <3>3, QueueVoteFacts, TidiedFits
    <3>4. ASSUME NEW i, NEW after, QueueMove(i, after) PROVE Fits' BY <3>4, QueueMoveFacts, TidiedFits
    <3>5. ASSUME QueueShuffle \/ QueueClear \/ QueueClearPlayed PROVE Fits'
      BY <3>5, QueueShuffleFacts, ClearFacts, ClearPlayedFacts, TidiedFits
    <3> QED BY <2>3, <3>1, <3>2, <3>3, <3>4, <3>5, QueueAddFits, QueueRetryFits, QueueReplayFits,
               EndSessionFits DEF QueueCommand
  <2>4. CASE Presence BY <2>4, JoinFits, LeaveFits, KickFits, ReportFits DEF Presence
  <2>5. CASE Outside BY <2>5, IngestFits, MediaUpdatedFits, DeleteMediaFits, ReloadFits, PurgeFits DEF Outside
  <2>6. CASE Server BY <2>6, TickFits, UnloadFits, RestartFits, MidwayFits DEF Server
  <2>7. CASE \E s \in Settings : SettingsSet(s) BY <2>7, SettingsFits
  <2> QED BY <1>2, <2>1, <2>2, <2>3, <2>4, <2>5, <2>6, <2>7 DEF Next
<1> QED BY <1>1, <1>2

\* While no statement fails and the commands come from people who are here,
\* what a room plays can be played and the timer of its end is armed, for
\* this item and this clock (scheduleAdvanceLocked and its callers), across
\* waits, deleted media and restarts.
THEOREM AdvanceStaysArmed ==
  ASSUME "store" \notin Faults
  PROVE  Spec /\ [][Attends]_vars => []AdvanceArmed
<1>1. Init => Fits BY InitFits
<1>2. Inv /\ Fits /\ [Next]_vars /\ [Attends]_vars => Fits' BY StepFits
<1>3. Fits => AdvanceArmed BY DEF Fits, Fit, Plays, AdvanceArmed
<1> QED BY <1>1, <1>2, <1>3, RoomInvariant, PTL DEF Spec

\* Nobody got stuck, and the timer that looks after the stuck ones is kept.
Watch(r, s) == Stuck(s) \subseteq Stuck(r) /\ (r.slot["buffer"] # "nil" => s.slot["buffer"] # "nil")

\* A step leaves a room that plays as it was, or with the stuck ones noticed.
Watches == Watch(room, room') \/ ~room.playing \/ room.waiting # {} \/ ~room'.playing \/ Noticed(room')

\* A step starts the current item if that became playable while people look.
Starts ==
    /\ HasMedia(room) /\ ~Playable(room) /\ ~room.playing /\ room.base = "start"
    /\ room'.cur = room.cur /\ Playable(room') /\ Here(room') # {}
    => room'.playing

\* Only the slot named differs.
LEMMA SlottedWatch ==
  ASSUME NEW r, NEW k, k # "buffer", NEW s, Slotted(r, k, s)
  PROVE  Watch(r, s) /\ s.media = r.media
BY DEF Slotted, Same, Watch, Stuck, Kinds

\* A new clock.
LEMMA SetToWatch ==
  ASSUME NEW r, NEW playing, NEW pos, NEW s, SetTo(r, playing, pos, s)
  PROVE  Watch(r, s) /\ s.media = r.media /\ s.playing = playing
BY DEF SetTo, Watch, Stuck, Kinds

\* A handler's result, saved or not.
LEMMA BecomeIs ==
  ASSUME Inv, NEW r, Sound(r), NEW save, Become(r, save)
  PROVE  /\ room'.media = r.media /\ room'.playing = r.playing /\ room'.viewers = r.viewers
         /\ room'.slot = r.slot /\ room'.settings = r.settings /\ room'.cur = r.cur /\ room'.base = r.base
<1>1. CASE save
  <2>1. Save(r, db) /\ SoundDb(db) BY <1>1 DEF Become, Inv
  <2>2. Stays(r, room') BY <2>1, SaveFacts
  <2> QED BY <2>2 DEF Stays, Quiet
<1>2. CASE ~save BY <1>2 DEF Become
<1> QED BY <1>1, <1>2

\* Its media are the room's, and it plays no more, or nobody was touched.
LEMMA BecomeOrderly ==
  ASSUME Inv, NEW r, Sound(r), NEW save, Become(r, save), r.media = room.media,
         Watch(room, r) \/ ~room.playing \/ room.waiting # {} \/ ~r.playing \/ Noticed(r)
  PROVE  Watches /\ Starts
<1>1. /\ room'.media = room.media /\ room'.playing = r.playing /\ room'.viewers = r.viewers
      /\ room'.slot = r.slot /\ room'.settings = r.settings
  BY BecomeIs
<1>2. Watch(room, r) => Watch(room, room') BY <1>1 DEF Watch, Stuck
<1>3. Noticed(r) => Noticed(room') BY <1>1 DEF Noticed, Stuck
<1> QED BY <1>1, <1>2, <1>3 DEF Watches, Starts, Playable, HasMedia

\* Items moved.
LEMMA QuietOrderly == ASSUME Quiet(room, room') PROVE Watches
BY DEF Quiet, Watches, Watch, Stuck

\* An item was chosen.
LEMMA ChosenOrderly ==
  ASSUME NEW r, Quiet(room, r), NEW item, Chosen(r, item, room')
  PROVE  Watches /\ Starts
BY DEF Quiet, Chosen, Watches, Watch, Stuck, Starts, Playable, HasMedia

\* nextLocked, from a room r0 that differs in the advance timers alone.
LEMMA NextOrderly ==
  ASSUME Inv, NEW r0, Sound(r0), r0.cur \in Items, NextLocked(r0), r0.viewers = room.viewers,
         r0.slot = room.slot
  PROVE  Watches /\ ("store" \notin Faults => Starts)
<1>1. Failed(r0) \/ MovedOn(r0) \/ Topped(r0) BY NextFacts
<1>2. CASE Failed(r0) BY <1>2 DEF Failed, Quiet, Watches, Watch, Stuck
<1>3. CASE MovedOn(r0)
  <2>1. PICK r, item : Quiet(r0, r) /\ Chosen(r, item, room') BY <1>3 DEF MovedOn
  <2> QED BY <2>1 DEF Quiet, Chosen, Watches, Watch, Stuck, Starts, Playable, HasMedia
<1>4. CASE Topped(r0)
  <2>1. ~room'.playing /\ Here(room') = {} BY <1>4 DEF Topped, Here
  <2> QED BY <2>1 DEF Watches, Starts, Playable, HasMedia
<1> QED BY <1>1, <1>2, <1>3, <1>4

\* Play
LEMMA PlayOrderly == ASSUME Inv, NEW counted \in BOOLEAN, Play(counted) PROVE Watches /\ Starts
<1> DEFINE r == EndWait(room)
           a == Arm(r, "countdown")
           b == [a EXCEPT !.countdown = TRUE]
           c == CancelCountdown(r)
           s == SetPlayback(c, TRUE, StartFrom(r.base))
<1>0. room \in RoomType /\ Sound(room) BY DEF Inv, Sound, Formed
<1>1. Calm(room, r) BY <1>0, EndWaitFacts
<1>2. /\ Sound(r) /\ r \in RoomType /\ r.media = room.media /\ r.playing = room.playing /\ r.base \in Position
      /\ Watch(room, r)
  BY <1>0, <1>1, CalmSound DEF Calm, RoomType, Watch, Stuck
<1>3. Become(r, FALSE) \/ (~r.playing /\ Become(b, FALSE)) \/ (~r.playing /\ Become(s, TRUE))
  BY DEF Play
<1> HIDE DEF r
<1>4. CASE Become(r, FALSE) BY <1>2, <1>4, BecomeOrderly
<1>5. CASE ~r.playing /\ Become(b, FALSE)
  <2>0. "countdown" \in Kinds /\ "countdown" # "empty" /\ "countdown" # "buffer" BY DEF Kinds
  <2>1. Slotted(r, "countdown", a) BY <1>2, <2>0, ArmFacts
  <2>2. Sound(a) /\ a \in RoomType /\ a.media = room.media
    BY <1>2, <2>0, <2>1, SlottedSound DEF Slotted, Same
  <2> HIDE DEF a
  <2>3. Calm(a, b) BY <2>2, CountFacts
  <2> HIDE DEF b
  <2>4. Sound(b) /\ b.media = room.media BY <2>2, <2>3, CalmSound DEF Calm
  <2> QED BY <1>2, <1>5, <2>4, BecomeOrderly
<1>6. CASE ~r.playing /\ Become(s, TRUE)
  <2>1. Calm(r, c) BY <1>2, CancelFacts
  <2>2. Formed(c) /\ c.media = room.media BY <1>2, <2>1, CalmSound DEF Sound, Calm
  <2>3. StartFrom(r.base) \in Position BY <1>2, StartType
  <2> HIDE DEF c
  <2>4. SetTo(c, TRUE, StartFrom(r.base), s) /\ Sound(s) BY <2>2, <2>3, PlaybackFacts
  <2> HIDE DEF s
  <2>5. s.media = room.media BY <2>2, <2>4 DEF SetTo
  <2> QED BY <1>2, <1>6, <2>4, <2>5, BecomeOrderly
<1> QED BY <1>3, <1>4, <1>5, <1>6

\* Pause
LEMMA PauseOrderly == ASSUME Inv, Pause PROVE Watches /\ Starts
<1> DEFINE u == EndWait(room)
           r == CancelCountdown(u)
           s == SetPlayback(r, FALSE, r.here)
<1>0. room \in RoomType /\ Sound(room) BY DEF Inv, Sound, Formed
<1>1. Calm(room, u) BY <1>0, EndWaitFacts
<1>2. Become(IF r.playing THEN s ELSE r, r.playing) BY DEF Pause
<1> HIDE DEF u
<1>3. Calm(u, r)
  <2>1. u \in RoomType BY <1>1 DEF Calm
  <2> QED BY <2>1, CancelFacts
<1> HIDE DEF r
<1>4. Sound(r) /\ r.media = room.media BY <1>0, <1>1, <1>3, CalmSound DEF Calm
<1>5. SetTo(r, FALSE, r.here, s) /\ Sound(s)
  <2>1. Formed(r) /\ r.here \in Position BY <1>4 DEF Sound, Formed, RoomType
  <2> QED BY <2>1, PlaybackFacts
<1> HIDE DEF s
<1>6. s.media = room.media /\ ~s.playing BY <1>4, <1>5 DEF SetTo
<1>7. CASE r.playing BY <1>2, <1>5, <1>6, <1>7, BecomeOrderly
<1>8. CASE ~r.playing BY <1>2, <1>4, <1>8, BecomeOrderly
<1> QED BY <1>7, <1>8

\* Seek and SetRate
LEMMA ClockOrderly ==
  ASSUME Inv, (\E pos \in Position : Seek(pos)) \/ SetRate
  PROVE  Watches /\ Starts
<1>1. \E p \in BOOLEAN, pos \in Position : Become(SetPlayback(room, p, pos), TRUE)
  <2>1. room.playing \in BOOLEAN /\ room.here \in Position /\ (room.playing /\ Playable(room)) \in BOOLEAN
    BY DEF Inv, Sound, Formed, RoomType
  <2> QED BY <2>1 DEF Seek, SetRate
<1>2. PICK p \in BOOLEAN, pos \in Position : Become(SetPlayback(room, p, pos), TRUE) BY <1>1
<1> DEFINE s == SetPlayback(room, p, pos)
<1>3. SetTo(room, p, pos, s) /\ Sound(s) BY PlaybackFacts DEF Inv, Sound
<1>4. Become(s, TRUE) BY <1>2
<1> HIDE DEF s
<1>5. Watch(room, s) /\ s.media = room.media BY <1>3, SetToWatch
<1> QED BY <1>3, <1>4, <1>5, BecomeOrderly

\* Jump
LEMMA JumpOrderly == ASSUME Inv, NEW item \in Items, Jump(item) PROVE Watches /\ Starts
<1> DEFINE going == IF room.cur \in {None, item} THEN <<>> ELSE <<room.cur>>
           r == MarkPlayed(room, going)
           d == Marked(db, going)
           s == SetCurrent(r, item)
<1>0. SoundDb(db) /\ Formed(room) BY DEF Inv, Sound
<1>1. Save(s, d) \/ (room' = room) BY DEF Jump, Abort
<1>2. Once(going)
  <2>1. room.cur # None => room.cur \in Items BY CurItem
  <2> QED BY <2>1, SingleSet, EmptySet DEF Once
<1> HIDE DEF going
<1>3. Quiet(room, r) BY <1>0, <1>2, MarkPlayedFacts
<1>4. Formed(r) BY <1>0, <1>3, QuietSound
<1>5. SoundDb(d) BY <1>0, <1>2, MarkedRows
<1> HIDE DEF r, d
<1>6. Chosen(r, item, s) BY <1>4, SetCurrentFacts
<1> HIDE DEF s
<1>7. CASE Save(s, d)
  <2>1. Chosen(r, item, room') BY <1>5, <1>6, <1>7, SaveChosen
  <2> QED BY <1>3, <2>1, ChosenOrderly
<1>8. CASE room' = room BY <1>8 DEF Watches, Watch, Stuck, Starts, Playable, HasMedia
<1> QED BY <1>1, <1>7, <1>8

\* Items were queued.
LEMMA QueuedOrderly ==
  ASSUME Inv, NEW batch, NEW media, Queued(batch, media)
  PROVE  /\ Watches
         /\ Starts \/ (Quiet(room, room') /\ room'.media = media)
<1>1. CASE Quiet(room, room') /\ room'.media = media BY <1>1, QuietOrderly
<1>2. CASE \E r : /\ Quiet(room, r) /\ r.media = media /\ batch[1] \in ToSet(r.queue) /\ batch[1] \in Items
                  /\ Chosen(r, batch[1], room')
  BY <1>2, ChosenOrderly
<1> QED BY <1>1, <1>2 DEF Queued

\* QueueAddMany: no item of the room has a link of the batch.
LEMMA QueueAddManyOrderly ==
  ASSUME Inv, "store" \notin Faults, NEW batch \in Seq(Items), batch # <<>>, QueueAddMany(batch)
  PROVE  Watches /\ Starts
<1>1. Queued(batch, FreshMedia(batch)) BY QueueAddManyFacts
<1>2. room.queue \in Seq(Items) /\ room.played \in Seq(Items) BY DEF Inv, Sound, Formed, RoomType
<1>3. ASSUME Quiet(room, room'), room'.media = FreshMedia(batch), HasMedia(room)
      PROVE  room'.media[Link[room.cur]] = room.media[Link[room.cur]]
  <2>1. room.cur \in ToSet(room.queue) BY <1>2, <1>3, ContainsSet DEF HasMedia
  <2>2. room.cur \in Items /\ Link[room.cur] \in Media BY <1>3, CurItem, RoomAssumption DEF HasMedia
  <2>3. room.cur \in ToSet(room.queue \o room.played) BY <1>2, <2>1, ConcatSet
  <2>4. Link[room.cur] \notin Linked(batch) BY <2>3 DEF QueueAddMany
  <2> QED BY <1>3, <2>2, <2>4 DEF FreshMedia
<1> QED BY <1>1, <1>3, QueuedOrderly DEF Starts, Playable, HasMedia

\* QueueReplay
LEMMA QueueReplayOrderly ==
  ASSUME Inv, NEW old \in Items, NEW item \in Items, QueueReplay(old, item)
  PROVE  Watches /\ Starts
<1>1. Queued(<<item>>, room.media) BY QueueReplayFacts
<1>2. Watches /\ (Starts \/ room'.media = room.media) BY <1>1, QueuedOrderly
<1> QED BY <1>2 DEF Starts, Playable, HasMedia

\* Queue and history are tidied.
LEMMA TidiedOrderly == ASSUME Tidied PROVE Watches /\ Starts
BY QuietOrderly DEF Tidied, Starts, Playable, HasMedia

\* QueueRetry
LEMMA QueueRetryOrderly == ASSUME Inv, NEW item \in Items, QueueRetry(item) PROVE Watches /\ Starts
<1> DEFINE l == Link[item]
<1>0. room \in RoomType /\ l \in Media BY RoomAssumption DEF Inv, Sound, Formed
<1>1. room' = [room EXCEPT !.media[l] = "wait"] BY DEF QueueRetry
<1>2. /\ room'.cur = room.cur /\ room'.viewers = room.viewers /\ room'.slot = room.slot
      /\ room'.media = [room.media EXCEPT ![l] = "wait"]
  BY <1>0, <1>1 DEF RoomType
<1>3. \A x \in Media : room'.media[x] = "ready" => room.media[x] = "ready" BY <1>0, <1>2 DEF RoomType
<1>4. Starts
  <2>1. room.cur # None => Link[room.cur] \in Media BY CurItem, RoomAssumption
  <2> QED BY <1>2, <1>3, <2>1 DEF Starts, Playable, HasMedia
<1> QED BY <1>2, <1>4 DEF Watches, Watch, Stuck

\* EndSession
LEMMA EndSessionOrderly == ASSUME Inv, "store" \notin Faults, EndSession PROVE Watches /\ Starts
<1>1. room'.cur = None /\ ~room'.playing BY EndSessionFacts DEF Failed
<1> QED BY <1>1 DEF Watches, Starts, HasMedia

\* SettingsSet
LEMMA SettingsOrderly == ASSUME Inv, NEW s \in Settings, SettingsSet(s) PROVE Watches /\ Starts
<1>1. Set(s) BY SettingsFacts
<1> QED BY <1>1 DEF Set, Watches, Watch, Stuck, Starts, Playable, HasMedia

\* Presence
LEMMA PresenceOrderly == ASSUME Inv, Presence PROVE Watches /\ Starts
<1>1. ASSUME NEW v \in Viewers, Join(v) PROVE Watches /\ Starts
  <2>1. Stuck(room') = Stuck(room) /\ \E r : Slotted(room, "empty", r) /\ Beside(r, room') BY <1>1, JoinFacts
  <2>2. PICK r : Slotted(room, "empty", r) /\ Beside(r, room') BY <2>1
  <2>3. room'.slot["buffer"] = room.slot["buffer"] /\ room'.media = room.media
    BY <2>2 DEF Slotted, Same, Beside, Kinds
  <2> QED BY <2>1, <2>3 DEF Watches, Watch, Starts, Playable, HasMedia
<1>2. ASSUME NEW v \in Viewers, Kick(v) PROVE Watches /\ Starts
  <2>1. Stuck(room') \subseteq Stuck(room) /\ \E u : Beside(room, u) /\ Slotted(u, "empty", room')
    BY <1>2, KickFacts
  <2>2. PICK u : Beside(room, u) /\ Slotted(u, "empty", room') BY <2>1
  <2>3. room'.slot["buffer"] = room.slot["buffer"] /\ room'.media = room.media
    BY <2>2 DEF Slotted, Same, Beside, Kinds
  <2> QED BY <2>1, <2>3 DEF Watches, Watch, Starts, Playable, HasMedia
<1>3. ASSUME NEW a, NEW s, NEW save, Looked(a, s), Become(s, save), a.waiting = room.waiting,
             a.media = room.media
      PROVE  Watches /\ Starts
  <2>1. Sound(s) /\ s.media = room.media BY <1>3 DEF Looked
  <2>2. room.waiting # {} \/ ~s.playing \/ Noticed(s) BY <1>3 DEF Looked, Noticed
  <2> QED BY <1>3, <2>1, <2>2, BecomeOrderly
<1>4. ASSUME NEW v \in Viewers, Leave(v) PROVE Watches /\ Starts
  <2>1. PICK u, a, s, save : Beside(room, u) /\ Slotted(u, "empty", a) /\ Looked(a, s) /\ Become(s, save)
    BY <1>4, LeaveFacts
  <2>2. a.waiting = room.waiting /\ a.media = room.media BY <2>1 DEF Beside, Slotted, Same
  <2> QED BY <1>3, <2>1, <2>2
<1>5. ASSUME NEW v \in Viewers, Report(v) PROVE Watches /\ Starts
  <2>1. PICK u, s, save : Beside(room, u) /\ Looked(u, s) /\ Become(s, save) BY <1>5, ReportFacts
  <2>2. u.waiting = room.waiting /\ u.media = room.media BY <2>1 DEF Beside
  <2> QED BY <1>3, <2>1, <2>2
<1> QED BY <1>1, <1>2, <1>4, <1>5 DEF Presence

\* The callback of the advance timer.
LEMMA EndedOrderly ==
  ASSUME Inv, NEW t, t.item # None, NEW r, Ticking(room, r), Sound(r),
         IF StillCurrent(t) THEN NextLocked(r) ELSE Become(r, FALSE)
  PROVE  Watches /\ ("store" \notin Faults => Starts)
<1>1. CASE StillCurrent(t)
  <2>1. NextLocked(r) /\ room.cur # None BY <1>1 DEF StillCurrent
  <2>2. r.cur \in Items /\ r.viewers = room.viewers /\ r.slot = room.slot BY <2>1, CurItem DEF Ticking
  <2> QED BY <2>1, <2>2, NextOrderly
<1>2. CASE ~StillCurrent(t)
  <2>1. Watch(room, r) /\ r.media = room.media BY DEF Ticking, Watch, Stuck
  <2> QED BY <1>2, <2>1, BecomeOrderly
<1> QED BY <1>1, <1>2

\* Time and timers
LEMMA TimerOrderly == ASSUME Inv, "store" \notin Faults, Timer PROVE Watches /\ Starts
<1>1. ASSUME Elapse PROVE Watches /\ Starts
  <2>1. room'.media = room.media /\ room'.viewers = room.viewers /\ room'.slot = room.slot BY <1>1, ElapseFacts
  <2> QED BY <2>1 DEF Watches, Watch, Stuck, Starts, Playable, HasMedia
<1>2. ASSUME FireAdvance PROVE Watches /\ Starts
  <2>1. Ticking(room, room') BY <1>2, FireAdvanceFacts
  <2> QED BY <2>1 DEF Ticking, Watches, Watch, Stuck, Starts, Playable, HasMedia
<1>3. ASSUME OnEnded PROVE Watches /\ Starts
  <2> DEFINE r == [room EXCEPT !.adv = NoAdvance]
  <2>1. Ticking(room, r) /\ Sound(r) BY AdvanceGone
  <2>2. IF StillCurrent(room.adv) THEN NextLocked(r) ELSE Become(r, FALSE) BY <1>3 DEF OnEnded
  <2>3. room.adv.item # None BY <1>3 DEF OnEnded, Inv, Sound, Formed, Held
  <2> HIDE DEF r
  <2> QED BY <2>1, <2>2, <2>3, EndedOrderly
<1>4. ASSUME NEW e \in room.ended, OnEndedLate(e) PROVE Watches /\ Starts
  <2> DEFINE r == [room EXCEPT !.ended = @ \ {e}]
  <2>1. Ticking(room, r) /\ Sound(r) BY LateGone
  <2>2. IF StillCurrent(e) THEN NextLocked(r) ELSE Become(r, FALSE) BY <1>4 DEF OnEndedLate
  <2>3. e.item # None BY DEF Inv, Sound, Formed, Held
  <2> HIDE DEF r
  <2> QED BY <2>1, <2>2, <2>3, EndedOrderly
<1>5. ASSUME NEW k \in Kinds, Fire(k) PROVE Watches /\ Starts
  <2>1. Slotted(room, k, room') /\ room'.slot[k] # "nil" BY <1>5, FireFacts
  <2>2. room.slot["buffer"] # "nil" => room'.slot["buffer"] # "nil" BY <2>1 DEF Slotted, Kinds
  <2> QED BY <2>1, <2>2 DEF Slotted, Same, Watches, Watch, Stuck, Starts, Playable, HasMedia
<1>6. ASSUME PauseIfEmpty PROVE Watches /\ Starts
  <2>1. PICK r, s, save : /\ Slotted(room, "empty", r) /\ Become(s, save) /\ Sound(s)
                          /\ s = r \/ \E pos : SetTo(r, FALSE, pos, s)
    BY <1>6, PauseIfEmptyFacts
  <2>2. Watch(room, r) /\ r.media = room.media BY <2>1, SlottedWatch
  <2>3. s.media = room.media /\ (s = r \/ ~s.playing) BY <2>1, <2>2 DEF SetTo
  <2> QED BY <2>1, <2>2, <2>3, BecomeOrderly
<1>7. ASSUME StartWaiting PROVE Watches /\ Starts
  <2>1. PICK r, s, save :
            /\ Slotted(room, "buffer", r) /\ Become(s, save) /\ Sound(s)
            /\ \/ s = r /\ (room.settings.wait /\ room.playing => Stuck(room) = {} \/ room.waiting # {})
               \/ ~s.playing /\ s.media = room.media
    BY <1>7, StartWaitingFacts
  <2>2. r.media = room.media /\ r.settings = room.settings /\ Stuck(r) = Stuck(room)
    BY <2>1 DEF Slotted, Same, Stuck
  <2>3. s.media = room.media /\ (~room.playing \/ room.waiting # {} \/ ~s.playing \/ Noticed(s))
    BY <2>1, <2>2 DEF Noticed
  <2> QED BY <2>1, <2>3, BecomeOrderly
<1>8. ASSUME StopWaiting PROVE Watches /\ Starts
  <2>1. PICK r, g, s, save :
            /\ Slotted(room, "wait", r) /\ Become(s, save) /\ Sound(s)
            /\ \/ s = r
               \/ Beside(r, g) /\ Stuck(g) \subseteq Stuck(room) /\ Resumed(g, s)
    BY <1>8, StopWaitingFacts
  <2>2. Watch(room, r) /\ r.media = room.media BY <2>1, SlottedWatch
  <2>3. CASE s = r BY <2>1, <2>2, <2>3, BecomeOrderly
  <2>4. CASE Beside(r, g) /\ Stuck(g) \subseteq Stuck(room) /\ Resumed(g, s)
    <3>1. Stuck(s) \subseteq Stuck(room) BY <2>4 DEF Resumed, Stuck
    <3>2. s.slot["buffer"] = r.slot["buffer"] /\ s.media = room.media BY <2>2, <2>4 DEF Resumed, Beside
    <3>3. Watch(room, s) BY <2>2, <3>1, <3>2 DEF Watch
    <3> QED BY <2>1, <3>2, <3>3, BecomeOrderly
  <2> QED BY <2>1, <2>3, <2>4
<1>9. ASSUME EndCountdown PROVE Watches /\ Starts
  <2>1. PICK r, s, save : /\ Calm(room, r) /\ Become(s, save) /\ Sound(s)
                          /\ s = r \/ \E pos : SetTo(r, TRUE, pos, s)
    BY <1>9, EndCountdownFacts
  <2>2. r.media = room.media /\ r.viewers = room.viewers /\ r.slot["buffer"] = room.slot["buffer"]
    BY <2>1 DEF Calm
  <2>3. s.media = room.media /\ s.viewers = room.viewers /\ s.slot["buffer"] = room.slot["buffer"]
    BY <2>1, <2>2 DEF SetTo, Kinds
  <2>4. Watch(room, s) BY <2>3 DEF Watch, Stuck
  <2> QED BY <2>1, <2>3, <2>4, BecomeOrderly
<1> QED BY <1>1, <1>2, <1>3, <1>4, <1>5, <1>6, <1>7, <1>8, <1>9 DEF Timer

\* MediaUpdated starts the current item that became ready, from its start.
LEMMA MediaUpdatedOrderly == ASSUME Inv, NEW m \in Media, MediaUpdated(m) PROVE Watches /\ Starts
<1>1. PICK r, s, save : Took(m, r, s) /\ Become(s, save) /\ Sound(s) BY MediaUpdatedFacts
<1>2. /\ Quiet(room, r) /\ r.queue = room.queue /\ room \in RoomType
      /\ r.media = [room.media EXCEPT ![m] = db.media[m]]
  BY <1>1 DEF Took, Inv, Sound, Formed
<1>3. \A y \in Media : r.media[y] = (IF y = m THEN db.media[m] ELSE room.media[y]) BY <1>2 DEF RoomType
<1>4. /\ room'.media = s.media /\ room'.playing = s.playing /\ room'.viewers = s.viewers
      /\ room'.slot = s.slot
  BY <1>1, BecomeIs
<1>5. s.media = r.media /\ s.viewers = r.viewers /\ s.slot["buffer"] = r.slot["buffer"]
  BY <1>1 DEF Took, SetTo, Kinds
<1>6. Watches BY <1>2, <1>4, <1>5 DEF Quiet, Watches, Watch, Stuck
<1>7. Starts
  <2> SUFFICES ASSUME HasMedia(room), ~Playable(room), ~room.playing, room.base = "start",
                      room'.cur = room.cur, Playable(room')
               PROVE  room'.playing
    BY DEF Starts
  <2>1. Link[room.cur] \in Media BY CurItem, RoomAssumption DEF HasMedia
  <2>2. r.media[Link[room.cur]] = "ready" /\ room.media[Link[room.cur]] # "ready"
    BY <1>4, <1>5 DEF Playable
  <2>3. Link[room.cur] = m /\ db.media[m] = "ready" BY <1>3, <2>1, <2>2
  <2>4. StartsHere(m) BY <2>2, <2>3 DEF StartsHere
  <2>5. SetTo(r, TRUE, "start", s) BY <1>1, <2>4 DEF Took
  <2> QED BY <1>4, <2>5 DEF SetTo
<1> QED BY <1>6, <1>7

\* The room is what it was.
LEMMA StillOrderly == ASSUME room' = room PROVE Watches /\ Starts
BY DEF Watches, Watch, Stuck, Starts, Playable, HasMedia

\* Nobody is here after a load.
LEMMA FetchedOrderly == ASSUME SoundDb(db'), room' \in Loaded(db') PROVE Watches /\ Starts
<1>1. Here(room') = {} BY LoadedFacts DEF Fetched
<1>2. Stuck(room') = {} BY <1>1 DEF Here, Stuck
<1> QED BY <1>1, <1>2 DEF Watches, Noticed, Starts

\* The news and the server.
LEMMA OutsideOrderly ==
  ASSUME Inv, "store" \notin Faults, Outside \/ Server
  PROVE  Watches /\ (Starts \/ ReloadQueue)
<1>1. ASSUME NEW m \in Media, Ingest(m) \/ DeleteMedia(m) PROVE Watches /\ Starts
  BY <1>1, StillOrderly DEF Ingest, DeleteMedia
<1>2. ASSUME PurgePlayed PROVE Watches /\ Starts BY <1>2, StillOrderly DEF PurgePlayed
<1>3. ASSUME ReloadQueue PROVE Watches
  <2>1. Quiet(room, room') \/ MovedOn(room) BY <1>3, ReloadFacts
  <2>2. ASSUME MovedOn(room) PROVE Watches
    <3>1. PICK r, item : Quiet(room, r) /\ Chosen(r, item, room') BY <2>2 DEF MovedOn
    <3> QED BY <3>1, ChosenOrderly
  <2> QED BY <2>1, <2>2, QuietOrderly
<1>4. ASSUME Tick PROVE Watches /\ Starts
  <2>1. Become(room, TRUE) /\ Sound(room) BY <1>4 DEF Tick, Become, Inv
  <2>2. Watch(room, room) BY DEF Watch
  <2> QED BY <2>1, <2>2, BecomeOrderly
<1>5. ASSUME Unload PROVE Watches /\ Starts BY <1>5, UnloadFacts, FetchedOrderly
<1>6. ASSUME Restart PROVE Watches /\ Starts BY <1>6, FetchedOrderly DEF Restart, Inv
<1>7. ASSUME RestartMidway PROVE Watches /\ Starts BY <1>7, MidwayFacts, FetchedOrderly
<1> QED BY <1>1, <1>2, <1>3, <1>4, <1>5, <1>6, <1>7, MediaUpdatedOrderly DEF Outside, Server

\* A playback command.
LEMMA PlaybackOrderly == ASSUME Inv, "store" \notin Faults, PlaybackCommand PROVE Watches /\ Starts
<1>1. ASSUME NextItem \/ SkipVote PROVE Watches /\ Starts
  <2>1. room.cur \in Items /\ NextLocked(room) /\ Sound(room) BY <1>1, CurItem DEF NextItem, SkipVote, Inv
  <2> QED BY <2>1, NextOrderly
<1> QED BY <1>1, PlayOrderly, PauseOrderly, ClockOrderly, JumpOrderly DEF PlaybackCommand

\* A queue command.
LEMMA QueueOrderly ==
  ASSUME Inv, "store" \notin Faults, QueueCommand
  PROVE  Watches /\ (Starts \/ \E i \in Items : QueueAdd(i))
<1>1. ASSUME NEW i \in Items, QueueAdd(i) PROVE Watches BY <1>1, QueueAddFacts, QueuedOrderly
<1>2. ASSUME NEW i \in Items, QueueRemove(i) PROVE Watches /\ Starts
  <2>1. CASE i = room.cur /\ NextLocked(room)
    <3>1. room.cur \in Items /\ Sound(room) BY <2>1 DEF Inv
    <3> QED BY <2>1, <3>1, NextOrderly
  <2>2. CASE ~(i = room.cur /\ NextLocked(room)) BY <1>2, <2>2, RemoveFacts, TidiedOrderly
  <2> QED BY <2>1, <2>2
<1>3. ASSUME NEW i \in Items, NEW j \in Items, QueueAddMany(<<i>>) \/ QueueAddMany(<<i, j>>)
      PROVE  Watches /\ Starts
  <2>1. <<i>> \in Seq(Items) /\ <<i>> # <<>> /\ <<i, j>> \in Seq(Items) /\ <<i, j>> # <<>> OBVIOUS
  <2> QED BY <1>3, <2>1, QueueAddManyOrderly
<1>4. ASSUME NEW i \in Items, QueueVote(i) PROVE Watches /\ Starts BY <1>4, QueueVoteFacts, TidiedOrderly
<1>5. ASSUME NEW i, NEW after, QueueMove(i, after) PROVE Watches /\ Starts
  BY <1>5, QueueMoveFacts, TidiedOrderly
<1>6. ASSUME QueueShuffle \/ QueueClear \/ QueueClearPlayed PROVE Watches /\ Starts
  BY <1>6, QueueShuffleFacts, ClearFacts, ClearPlayedFacts, TidiedOrderly
<1> QED BY <1>1, <1>2, <1>3, <1>4, <1>5, <1>6, QueueRetryOrderly, QueueReplayOrderly, EndSessionOrderly
        DEF QueueCommand

\* Every step.
LEMMA StepOrderly ==
  ASSUME Inv, "store" \notin Faults, Next
  PROVE  Watches /\ (Starts \/ ReloadQueue \/ \E i \in Items : QueueAdd(i))
<1>1. CASE \E s \in Settings : SettingsSet(s) BY <1>1, SettingsOrderly
<1> QED BY <1>1, TimerOrderly, PlaybackOrderly, QueueOrderly, PresenceOrderly, OutsideOrderly DEF Next

\* While no statement fails, the current item of a room that people look at
\* starts when it becomes playable (MediaUpdated, ReconcileMedia and
\* setCurrentLocked), whichever of the room's steps tells it so, but for the
\* two that StartsWhenReady names.
THEOREM ReadyStarts == ASSUME "store" \notin Faults PROVE Spec => StartsWhenReady
<1> DEFINE Step ==
      /\ HasMedia(room) /\ ~Playable(room) /\ ~room.playing /\ room.base = "start"
      /\ room'.cur = room.cur /\ Playable(room') /\ Here(room') # {}
      => room'.playing \/ ReloadQueue \/ \E i \in Items : QueueAdd(i)
<1>1. Inv /\ [Next]_vars => [Step]_vars BY StepOrderly DEF Starts
<1> QED BY <1>1, RoomInvariant, PTL DEF Spec, StartsWhenReady

\* While no statement fails and the commands come from people who are here, a
\* viewer who gets stuck in a room that plays and waits for buffering is
\* noticed, and stays noticed until the room pauses for them
\* (checkBufferingLocked, startWaitingLocked and every other use of the timer).
THEOREM StuckAreNoticed ==
  ASSUME "store" \notin Faults
  PROVE  Spec /\ [][Attends]_vars => StuckNoticed
<1> DEFINE Step == room.playing /\ room.settings.wait /\ Noticed(room) /\ room'.playing => Noticed(room')
<1>1. Init => Fits BY InitFits
<1>2. Inv /\ Fits /\ [Next]_vars /\ [Attends]_vars => Fits' BY StepFits
<1>3. Inv /\ Fits /\ [Next]_vars => [Step]_vars
  <2> SUFFICES ASSUME Inv, Fits, Next, room.playing, room.settings.wait, Noticed(room), room'.playing
               PROVE  Noticed(room')
    OBVIOUS
  <2>1. Watches BY StepOrderly
  <2>2. room.waiting = {} BY DEF Fits, Fit, Inv, Sound, Formed, RoomType
  <2>3. CASE Watch(room, room') BY <2>3 DEF Watch, Noticed
  <2> QED BY <2>1, <2>2, <2>3 DEF Watches
<1> QED BY <1>1, <1>2, <1>3, RoomInvariant, PTL DEF Spec, StuckNoticed
=============================================================================
