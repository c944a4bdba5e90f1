------------------------------ MODULE RoomCore ------------------------------
(***************************************************************************)
(* A room in memory and the locked helpers its commands are built from:    *)
(* the clock (clock.go), the timers and their callbacks (timers.go), the   *)
(* transitions of playback (playback.go), waiting for buffering viewers    *)
(* (presence.go) and the queue with its history (queue.go, order.go).      *)
(*                                                                         *)
(* Every command and callback of a room runs under the room's mutex, so    *)
(* the helpers are functions from a room to a room, and an action of       *)
(* module Room applies them in the order the code calls them.              *)
(*                                                                         *)
(* A position is one of "start", "mid" and "end" of the media; a ready     *)
(* media has a known duration.  The clock's seq is compared for equality   *)
(* only, so a timer remembers whether it carries the current one (fresh).  *)
(***************************************************************************)
EXTENDS Naturals, Sequences, SequencesExt, Slices

CONSTANTS
    Items,       \* queue items; an id is reused only when nothing refers to it
    Media,       \* media rows
    Link,        \* the media of each item
    Viewers,     \* connections
    Guests,      \* connections without a signed-in user
    Settings,    \* settings a moderator may choose
    PlayedKept,  \* playedKept, the history held in memory
    QueueLimit,  \* the most items a queue takes
    None

ASSUME RoomAssumption ==
    /\ Link \in [Items -> Media]
    /\ Guests \subseteq Viewers
    /\ Settings \subseteq [loop: BOOLEAN, pauseWhenEmpty: BOOLEAN, wait: BOOLEAN, votes: BOOLEAN]
    /\ PlayedKept \in Nat \ {0} /\ QueueLimit \in Nat
    /\ None \notin Items

-----------------------------------------------------------------------------
(***************************************************************************)
(* Types                                                                   *)
(***************************************************************************)

Position == {"start", "mid", "end"}
MediaStatus == {"wait", "ready", "failed"}
\* A slot of the timers struct: nil, running, or fired with its callback
\* waiting for the mutex.
SlotState == {"nil", "run", "fired"}
\* The timers other than the advance timer that change the room.
Kinds == {"empty", "buffer", "wait", "countdown"}
\* A connection: not here, playing along, buffering, buffering and given up on.
ViewerState == {"out", "ok", "stuck", "ignored"}

Advance == [state: SlotState, item: Items \cup {None}, fresh: BOOLEAN]
NoAdvance == [state |-> "nil", item |-> None, fresh |-> FALSE]

RoomType ==
    [queue: Seq(Items), played: Seq(Items), media: [Media -> MediaStatus],
     cur: Items \cup {None}, playing: BOOLEAN, base: Position, here: Position,
     viewers: [Viewers -> ViewerState], waiting: SUBSET Viewers, countdown: BOOLEAN,
     slot: [Kinds -> SlotState],   \* the timers struct
     stray: SUBSET Kinds,          \* callbacks of timers no slot holds any more
     adv: Advance,                 \* the advance timer and what it captured
     ended: SUBSET [item: Items \cup {None}, fresh: BOOLEAN],  \* its stray callbacks
     settings: Settings, unsaved: BOOLEAN]

-----------------------------------------------------------------------------
(***************************************************************************)
(* The queue and the history                                               *)
(***************************************************************************)

\* The newest PlayedKept items of a history.
Kept(history) == IF Len(history) > PlayedKept THEN SubSeq(history, 1, PlayedKept) ELSE history

\* Mutated: an item enters the history whether it was queued or not.
Marked_Unchecked(x, seq) ==
    [x EXCEPT !.queue = Without(@, ToSet(seq)), !.played = Reverse(seq) \o @]

\* The items of seq move from the queue to the history, one after the other.
Marked(x, seq) ==
    [x EXCEPT !.queue = Without(@, ToSet(seq)),
              !.played = Reverse(Only(seq, ToSet(x.queue))) \o @]

MarkPlayed(r, seq) == LET m == Marked(r, seq) IN [m EXCEPT !.played = Kept(@)]

IndexOf(q, item) == SelectInSeq(q, LAMBDA i : i = item)

\* Mutated: the end of the queue does not wrap to its head.
Following_Tail(r) ==
    LET idx == IndexOf(r.queue, r.cur)
    IN SubSeq(r.queue, idx + 1, Len(r.queue))

\* What following() yields, item after item, once the current one left the
\* queue: the items behind it, then the head.
Following(r) ==
    LET idx == IndexOf(r.queue, r.cur)
    IN IF idx = 0 THEN r.queue
       ELSE SubSeq(r.queue, idx + 1, Len(r.queue)) \o SubSeq(r.queue, 1, idx - 1)

\* The leading items that can never play.
Unplayable(r, seq) ==
    LET first == SelectInSeq(seq, LAMBDA i : r.media[Link[i]] # "failed")
    IN IF first = 0 THEN seq ELSE SubSeq(seq, 1, first - 1)

\* What a shuffle may make of the queue: a current item at the head stays
\* there.
Orders(r) ==
    {q \in SetToSeqs(ToSet(r.queue)) :
        r.queue # <<>> /\ Head(r.queue) = r.cur => Head(q) = r.cur}

\* splitCurrent and withCurrent: the waiting items, the current one in front.
Waiting(r) == Without(r.queue, {r.cur})
WithCurrent(r, waiting) == Only(r.queue, {r.cur}) \o waiting

\* What the votes may make of the queue ...
RuleOrders(r) == {WithCurrent(r, w) : w \in SetToSeqs(ToSet(Waiting(r)))}

\* ... and what taking turns may, or leave as it is where it is off.
FairOrders(r) == {r.queue} \cup IF Len(Waiting(r)) < 2 THEN {} ELSE RuleOrders(r)

\* The item right behind another one (None: at the head), but never ahead of
\* a current item at the head.
PlaceAfter(r, item, after) ==
    LET rest == Without(r.queue, {item})
        anchor == IndexOf(rest, after)
        at == IF anchor = 0 /\ rest # <<>> /\ Head(rest) = r.cur THEN 1 ELSE anchor
    IN SubSeq(rest, 1, at) \o <<item>> \o SubSeq(rest, at + 1, Len(rest))

\* The current item, the batch, the rest.
BatchAfterCurrent(r, batch) == WithCurrent(r, batch \o Without(Waiting(r), ToSet(batch)))

-----------------------------------------------------------------------------
(***************************************************************************)
(* Timers                                                                  *)
(***************************************************************************)

\* stop(): a timer that fired already leaves its callback behind.
Stop(r, k) == [r EXCEPT !.slot[k] = "nil",
                        !.stray = IF r.slot[k] = "fired" THEN @ \cup {k} ELSE @]

\* A slot is overwritten: the timer it held goes on without one.
Arm(r, k) == [r EXCEPT !.slot[k] = "run",
                       !.stray = IF r.slot[k] = "nil" THEN @ ELSE @ \cup {k}]

\* A callback starts and clears its kind's slot, whose timer may be another
\* one: that one is stray then.
Enter(r, k) == [r EXCEPT !.slot[k] = "nil",
                         !.stray = IF r.slot[k] = "nil" THEN @ \ {k} ELSE @]

\* A callback of this kind holds or waits for the mutex.
Callback(r, k) == r.slot[k] = "fired" \/ k \in r.stray

-----------------------------------------------------------------------------
(***************************************************************************)
(* Playback                                                                *)
(***************************************************************************)

Here(r) == {v \in Viewers : r.viewers[v] # "out"}
Stuck(r) == {v \in Viewers \ Guests : r.viewers[v] = "stuck"}

\* currentMedia() # nil
HasMedia(r) == r.cur # None /\ Contains(r.queue, r.cur)
\* The current media is ready, and so has a duration.
Playable(r) == HasMedia(r) /\ r.media[Link[r.cur]] = "ready"

\* startFrom: from the top once the media has played to its end.
StartFrom(pos) == IF pos = "end" THEN "start" ELSE pos

\* clock.restart: bumps seq, so every timer armed before is stale.
Restarted(r, playing, pos) ==
    [r EXCEPT !.playing = playing, !.base = pos, !.here = pos, !.adv.fresh = FALSE,
              !.ended = {[e EXCEPT !.fresh = FALSE] : e \in @}]

ScheduleAdvance(r) ==
    LET late == IF r.adv.state = "fired"
                  THEN {[item |-> r.adv.item, fresh |-> r.adv.fresh]} ELSE {}
    IN [r EXCEPT !.ended = @ \cup late,
                 !.adv = IF r.playing /\ Playable(r)
                           THEN [state |-> "run", item |-> r.cur, fresh |-> TRUE]
                           ELSE NoAdvance]

ArmEmptyPause(r) ==
    IF /\ r.settings.pauseWhenEmpty /\ r.playing
       /\ Here(r) = {} /\ r.slot["empty"] = "nil"
      THEN Arm(r, "empty") ELSE r

\* Mutated: the timer is set before the clock restarts.
SetPlayback_Early(r, playing, pos) ==
    ArmEmptyPause(Restarted(ScheduleAdvance(r), playing, pos))

SetPlayback(r, playing, pos) == ArmEmptyPause(ScheduleAdvance(Restarted(r, playing, pos)))

\* endWaitLocked(false)
EndWait(r) == [Stop(r, "wait") EXCEPT !.waiting = {}]

\* endWaitLocked(true)
Resume(r) ==
    IF r.waiting # {} /\ ~r.playing /\ r.cur # None
      THEN SetPlayback(EndWait(r), TRUE, r.base)
      ELSE EndWait(r)

CancelCountdown(r) == [Stop(r, "countdown") EXCEPT !.countdown = FALSE]

\* setCurrentLocked(nil) leaves a wait and a countdown as they are.
SetCurrent(r, item) ==
    IF item = None
      THEN SetPlayback([r EXCEPT !.cur = None], FALSE, "start")
      ELSE SetPlayback([CancelCountdown(EndWait(r)) EXCEPT !.cur = item],
                       r.media[Link[item]] = "ready", "start")

\* Reacts to a change in who is buffering.
CheckBuffering(r) ==
    CASE r.waiting # {} /\ Stuck(r) = {} -> Resume(r)
      [] r.waiting # {} /\ Stuck(r) # {} -> [r EXCEPT !.waiting = Stuck(r)]
      [] r.waiting = {} /\ (~r.settings.wait \/ ~r.playing \/ Stuck(r) = {}) -> Stop(r, "buffer")
      [] OTHER -> IF r.slot["buffer"] = "nil" THEN Arm(r, "buffer") ELSE r
=============================================================================
