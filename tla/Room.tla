-------------------------------- MODULE Room --------------------------------
(***************************************************************************)
(* A room's behaviour: the commands of its moderators and viewers, the     *)
(* callbacks of its timers, the ingest's news, the manager's ticks, and    *)
(* what reaches the database.  Each action is one critical section of the  *)
(* room's mutex; the statements inside it may fail one by one (Faults      *)
(* holds "store"), the process may die between two of them ("crash"), and  *)
(* an administrator may delete media behind the room's back ("delete").    *)
(* A statement that reports an error has not taken effect.                 *)
(***************************************************************************)
EXTENDS RoomCore

CONSTANT Faults

ASSUME FaultsAssumption == Faults \subseteq {"store", "crash", "delete"}

VARIABLES
    room,    \* the Room in memory
    db,      \* its rows: the items, the media, the saved clock
    deleted  \* an administrator deleted media and has yet to tell the room

vars == <<room, db, deleted>>

DbType ==
    [queue: Seq(Items), played: Seq(Items), media: [Media -> MediaStatus \cup {"gone"}],
     cur: Items \cup {None}, playing: BOOLEAN, base: Position, settings: Settings]

TypeOK ==
    /\ room \in RoomType
    /\ db \in DbType
    /\ deleted \in BOOLEAN

-----------------------------------------------------------------------------
(***************************************************************************)
(* The database                                                            *)
(***************************************************************************)

\* A statement goes through, or fails when the database is unreachable.
Outcomes == IF "store" \in Faults THEN BOOLEAN ELSE {TRUE}
MayFail == FALSE \in Outcomes

Rows(d) == ToSet(d.queue) \cup ToSet(d.played)

\* UpdateRoomPlayback writes the clock; it is refused when it names an item
\* whose row is gone.
Saved(r, d) == [d EXCEPT !.cur = r.cur, !.playing = r.playing, !.base = r.base]
SaveOutcomes(r, d) == IF r.cur \in Rows(d) \cup {None} THEN Outcomes ELSE {FALSE}

\* savePlaybackLocked: a failure marks the room unsaved and fails nothing.
Save(next, d) ==
    \E r \in {next} : \E ok \in SaveOutcomes(r, d) :
        /\ room' = [r EXCEPT !.unsaved = ~ok]
        /\ db' = IF ok THEN Saved(r, d) ELSE d

\* A handler's result, saved when it moved the clock.
Become(r, save) == IF save THEN Save(r, db) ELSE room' = r /\ UNCHANGED db

\* The command returns an error, with what it did so far in place.
Abort(r, d) == MayFail /\ room' = r /\ db' = d

\* Items leave the tables; the clock's reference to one becomes null.
Deleted(d, gone) == [d EXCEPT !.queue = Without(@, gone), !.played = Without(@, gone),
                              !.cur = IF @ \in gone THEN None ELSE @]

\* SetQueueRanks: the given items in this order; what else the table holds
\* keeps its rank and falls in anywhere.
Ranked(d, ordered) ==
    {[d EXCEPT !.queue = q] : q \in
       {s \in SetToSeqs(ToSet(d.queue)) :
          /\ Only(s, ToSet(ordered)) = Only(ordered, ToSet(d.queue))
          /\ Without(s, ToSet(ordered)) = Without(d.queue, ToSet(ordered))}}

\* applyOrderLocked: the ranks are written when the order changed.
ApplyOrder(r, d, q) == IF q = r.queue THEN {d} ELSE Ranked(d, q)

\* The media rows as a room reads them; a row that is gone is created anew
\* when its link is queued again.
MediaBatch(d) == [m \in Media |-> IF d.media[m] = "gone" THEN "wait" ELSE d.media[m]]

\* reloadQueue
Reloaded(r, d) ==
    [r EXCEPT !.queue = d.queue, !.played = Kept(d.played), !.media = MediaBatch(d)]

\* load(): the clock as it was saved, nobody here, no timer but those load
\* arms; the position ran on while nobody held the room.
Loaded(d) ==
    LET gone == d.cur # None /\ ~Contains(d.queue, d.cur)
        playing == d.playing /\ ~gone
        base == IF gone THEN "start" ELSE d.base
        now == IF ~playing THEN {base}
               ELSE CASE base = "start" -> Position
                      [] base = "mid" -> {"mid", "end"}
                      [] base = "end" -> {"end"}
    IN {ArmEmptyPause(ScheduleAdvance(
         [queue |-> d.queue, played |-> Kept(d.played), media |-> MediaBatch(d),
          cur |-> IF gone THEN None ELSE d.cur, playing |-> playing, base |-> base, here |-> h,
          viewers |-> [v \in Viewers |-> "out"], waiting |-> {}, countdown |-> FALSE,
          slot |-> [k \in Kinds |-> "nil"], stray |-> {}, adv |-> NoAdvance, ended |-> {},
          settings |-> d.settings, unsaved |-> FALSE])) : h \in now}

Init ==
    /\ db \in [queue: {<<>>}, played: {<<>>}, media: [Media -> {"wait", "ready"}], cur: {None},
               playing: {FALSE}, base: {"start"}, settings: Settings]
    /\ room \in Loaded(db)
    /\ deleted = FALSE

-----------------------------------------------------------------------------
(***************************************************************************)
(* Playback commands                                                       *)
(***************************************************************************)

\* Play: a counted start (asked for, or of an announced session) arms the
\* countdown, a second play during it starts at once.
Play(counted) ==
    LET r == EndWait(room)
    IN /\ Playable(room)
       /\ CASE r.playing -> Become(r, FALSE)
            [] ~r.playing /\ counted /\ ~r.countdown ->
                 Become([Arm(r, "countdown") EXCEPT !.countdown = TRUE], FALSE)
            [] OTHER -> Become(SetPlayback(CancelCountdown(r), TRUE, StartFrom(r.base)), TRUE)
       /\ UNCHANGED deleted

\* Mutated: the pause is not saved.
Pause_Unsaved ==
    LET r == CancelCountdown(EndWait(room))
    IN /\ room.cur # None
       /\ Become(IF r.playing THEN SetPlayback(r, FALSE, r.here) ELSE r, FALSE)
       /\ UNCHANGED deleted

Pause ==
    LET r == CancelCountdown(EndWait(room))
    IN /\ room.cur # None
       /\ Become(IF r.playing THEN SetPlayback(r, FALSE, r.here) ELSE r, r.playing)
       /\ UNCHANGED deleted

Seek(pos) ==
    /\ HasMedia(room)
    /\ Become(SetPlayback(room, room.playing /\ Playable(room), pos), TRUE)
    /\ UNCHANGED deleted

\* SetRate to another speed folds in the time played so far.
SetRate ==
    /\ room.cur # None
    /\ Become(SetPlayback(room, room.playing, room.here), TRUE)
    /\ UNCHANGED deleted

\* Mutated: the history comes back newest first.
Requeued_Newest(d) == [d EXCEPT !.queue = @ \o d.played, !.played = <<>>]

\* The loop's restart: the history becomes the queue again.  In vote mode it
\* is sorted with the item that just ended as the current one.  With nobody
\* here the room stops at the top.
Requeued(d) == [d EXCEPT !.queue = @ \o Reverse(d.played), !.played = <<>>]

\* Mutated: the loop plays on with nobody here.
LoopRestart_PlaysOn(r, d) ==
    LET d1 == Requeued(d)
        r1 == Reloaded(r, d1)
    IN Save(SetCurrent(r1, IF d1.queue = <<>> THEN None ELSE Head(d1.queue)), d1)

LoopRestart(r, d) ==
    LET d1 == Requeued(d)
        r1 == Reloaded(r, d1)
        Top(q) == IF q = <<>> THEN None ELSE Head(q)
        Started(q) == LET r2 == [r1 EXCEPT !.queue = q]
                      IN IF Here(r) = {} /\ q # <<>>
                           THEN SetPlayback([r2 EXCEPT !.cur = Top(q)], FALSE, "start")
                           ELSE SetCurrent(r2, Top(q))
    IN \/ Abort(r, d) \/ Abort(r, d1)
       \/ ~r.settings.votes /\ Save(Started(d1.queue), d1)
       \/ r.settings.votes /\ Abort(r1, d1)
       \/ /\ r.settings.votes
          /\ \E q \in RuleOrders(r1) : Save(Started(q), [d1 EXCEPT !.queue = q])

\* nextLocked: the current item and the unplayable ones behind it go to the
\* history, one statement each; the next one, the loop, or nothing follows.
Leaving(r) == <<r.cur>> \o Unplayable(r, Following(r))

NextLocked(r0) ==
    \E going \in {Leaving(r0)} : \E r \in {MarkPlayed(r0, going)}, d \in {Marked(db, going)} :
        LET left == SubSeq(Following(r0), Len(going), Len(Following(r0)))
            loops == left = <<>> /\ r.settings.loop /\ r.played # <<>>
        IN \/ \E n \in 0..Len(going) - 1 :
                Abort(MarkPlayed(r0, SubSeq(going, 1, n)), Marked(db, SubSeq(going, 1, n)))
           \/ left # <<>> /\ Save(SetCurrent(r, Head(left)), d)
           \/ left = <<>> /\ ~loops /\ Save(SetCurrent(r, None), d)
           \/ loops /\ LoopRestart(r, d)

NextItem ==
    /\ room.cur # None
    /\ NextLocked(room)
    /\ UNCHANGED deleted

\* A vote to skip that reaches the threshold; one that does not changes no
\* state kept here.
SkipVote ==
    /\ room.settings.votes /\ room.cur # None
    /\ NextLocked(room)
    /\ UNCHANGED deleted

Jump(item) ==
    LET going == IF room.cur \in {None, item} THEN <<>> ELSE <<room.cur>>
    IN /\ Contains(room.queue, item)
       /\ \/ going # <<>> /\ Abort(room, db)
          \/ Save(SetCurrent(MarkPlayed(room, going), item), Marked(db, going))
       /\ UNCHANGED deleted

-----------------------------------------------------------------------------
(***************************************************************************)
(* Queue commands                                                          *)
(***************************************************************************)

\* A row id the database has not handed out, or nothing mentions any more.
Mentioned == Rows(db) \cup ToSet(room.queue) \cup ToSet(room.played)
               \cup {room.cur, db.cur, room.adv.item} \cup {e.item : e \in room.ended}

Fresh(i) == /\ i \notin Mentioned
            /\ db.media[Link[i]] = "gone" => \A j \in Mentioned \cap Items : Link[j] # Link[i]

\* Admit.Create: a link without a row gets one.
Linked(batch) == {Link[i] : i \in ToSet(batch)}
Created(batch) ==
    [m \in Media |-> IF m \in Linked(batch) THEN MediaBatch(db)[m] ELSE db.media[m]]

\* The room's copies of the media of a batch are replaced by their rows.
FreshMedia(batch) ==
    [m \in Media |-> IF m \in Linked(batch) THEN MediaBatch(db)[m] ELSE room.media[m]]

\* New items at the end of the queue, or, without votes, in the order asked
\* for (next: behind the current one) or by turns; an idle room starts the
\* first of them.  The media rows come with the items.
Enqueue(batch, media, next) ==
    LET r == [room EXCEPT !.queue = @ \o batch, !.media = media]
        d == [db EXCEPT !.queue = @ \o batch, !.media = Created(batch)]
        orders == FairOrders(r) \cup IF r.cur = None THEN {} ELSE {next}
        Done(r1, d1) == IF r1.cur = None THEN Save(SetCurrent(r1, batch[1]), d1)
                                         ELSE room' = r1 /\ db' = d1
    IN /\ Len(r.queue) <= QueueLimit
       /\ \E q \in IF r.settings.votes THEN {r.queue} ELSE orders :
             \/ q # r.queue /\ Abort(r, d)
             \/ \E d1 \in ApplyOrder(r, d, q) : Done([r EXCEPT !.queue = q], d1)
       /\ UNCHANGED deleted

QueueAdd(item) ==
    /\ Fresh(item)
    /\ Enqueue(<<item>>, FreshMedia(<<item>>),
               PlaceAfter([room EXCEPT !.queue = Append(@, item)], item, room.cur))

\* What is left of a batch without the videos that are queued or were
\* played; when its ranks cannot be written the rows are there and the room
\* does not know of them.
QueueAddMany(batch) ==
    /\ IsInjective(batch) /\ \A i \in ToSet(batch) : Fresh(i)
    /\ IsInjective([n \in DOMAIN batch |-> Link[batch[n]]])
    /\ \A i \in ToSet(room.queue \o room.played) : Link[i] \notin Linked(batch)
    /\ \/ Enqueue(batch, FreshMedia(batch), BatchAfterCurrent(room, batch))
       \/ /\ room.cur # None /\ ~room.settings.votes
          /\ Len(room.queue) + Len(batch) <= QueueLimit
          /\ Abort([room EXCEPT !.media = FreshMedia(batch)],
                   [db EXCEPT !.queue = @ \o batch, !.media = Created(batch)])
          /\ UNCHANGED deleted

\* A fresh entry for the media of a played item.
QueueReplay(old, item) ==
    /\ Contains(room.played, old) /\ Link[old] = Link[item]
    /\ db.media[Link[old]] # "gone"
    /\ Fresh(item)
    /\ Enqueue(<<item>>, room.media, Append(room.queue, item))

\* To remove the current item is to go on to the next.
QueueRemove(item) ==
    /\ Contains(room.queue, item)
    /\ \/ item = room.cur /\ NextLocked(room)
       \/ /\ item # room.cur /\ item \in Rows(db)
          /\ room' = [room EXCEPT !.queue = Without(@, {item})]
          /\ db' = Deleted(db, {item})
    /\ UNCHANGED deleted

QueueClear ==
    /\ room' = [room EXCEPT !.queue = Only(@, {room.cur})]
    /\ db' = Deleted(db, ToSet(db.queue) \ {room.cur})
    /\ UNCHANGED deleted

QueueClearPlayed ==
    /\ room' = [room EXCEPT !.played = <<>>]
    /\ db' = Deleted(db, ToSet(db.played))
    /\ UNCHANGED deleted

\* The queue in another order, in the database and in memory.
Reorder(q) ==
    /\ room' = [room EXCEPT !.queue = q]
    /\ db' \in ApplyOrder(room, db, q)
    /\ UNCHANGED deleted

QueueMove(item, after) ==
    /\ ~room.settings.votes
    /\ Contains(room.queue, item) /\ item # room.cur
    /\ after \in (ToSet(room.queue) \ {item}) \cup {None}
    /\ Reorder(PlaceAfter(room, item, after))

QueueShuffle ==
    /\ ~room.settings.votes
    /\ \E q \in Orders(room) : Reorder(q)

\* A vote for a waiting item, or taken back: whatever the count, the votes
\* order the queue.
QueueVote(item) ==
    /\ room.settings.votes
    /\ Contains(room.queue, item) /\ item # room.cur /\ item \in Rows(db)
    /\ \E q \in RuleOrders(room) : Reorder(q)

\* The whole queue goes to the history, item by item, and everyone leaves.
EndSession ==
    LET q == room.queue
        Out(r) == [r EXCEPT !.viewers = [v \in Viewers |-> "out"]]
    IN /\ \/ \E n \in 0..Len(q) - 1 :
               Abort(MarkPlayed(room, SubSeq(q, 1, n)), Marked(db, SubSeq(q, 1, n)))
          \/ Save(Out(SetCurrent(MarkPlayed(room, q), None)), Marked(db, q))
       /\ UNCHANGED deleted

\* SettingsSet: the empty-room pause is disarmed before the settings are
\* written; vote mode sorts the queue, and turns may.  Where viewers are
\* modelled it comes from one who is here (not from one kicked a moment ago).
SettingsSet(s) ==
    LET r == IF s.pauseWhenEmpty THEN room ELSE Stop(room, "empty")
        r1 == [r EXCEPT !.settings = s]
        d == [db EXCEPT !.settings = s]
    IN /\ Viewers = {} \/ Here(room) # {}
       /\ \/ Abort(r, db) \/ Abort(r1, d)
          \/ \E q \in IF s.votes THEN RuleOrders(r1) ELSE FairOrders(r1) :
               room' = [r1 EXCEPT !.queue = q] /\ db' \in ApplyOrder(r1, d, q)
       /\ UNCHANGED deleted

-----------------------------------------------------------------------------
(***************************************************************************)
(* Presence                                                                *)
(***************************************************************************)

Join(v) ==
    /\ room.viewers[v] = "out"
    /\ Become([Stop(room, "empty") EXCEPT !.viewers[v] = "ok"], FALSE)
    /\ UNCHANGED deleted

\* The room goes on, or stops waiting, without the connection.
Leave(v) ==
    LET r == CheckBuffering(ArmEmptyPause([room EXCEPT !.viewers[v] = "out"]))
    IN /\ room.viewers[v] # "out"
       /\ Become(r, r.playing # room.playing)
       /\ UNCHANGED deleted

\* Mutated: an empty room is not noticed.
Kick_Unarmed(v) ==
    /\ v \notin Guests /\ room.viewers[v] # "out"
    /\ Become([room EXCEPT !.viewers[v] = "out"], FALSE)
    /\ UNCHANGED deleted

\* Kick does not look at who the room is waiting for.
Kick(v) ==
    /\ v \notin Guests /\ room.viewers[v] # "out"
    /\ Become(ArmEmptyPause([room EXCEPT !.viewers[v] = "out"]), FALSE)
    /\ UNCHANGED deleted

\* Mutated: only the end of a wait is looked at.
Report_Late(v) ==
    LET r == [room EXCEPT !.viewers[v] = IF @ = "ok" THEN "stuck" ELSE "ok"]
        r1 == IF r.waiting # {} THEN CheckBuffering(r) ELSE r
    IN /\ room.viewers[v] # "out"
       /\ Become(r1, r1.playing # room.playing)
       /\ UNCHANGED deleted

\* Mutated: a viewer who recovers is not looked at.
Report_Stuck(v) ==
    LET r == [room EXCEPT !.viewers[v] = IF @ = "ok" THEN "stuck" ELSE "ok"]
        r1 == IF r.viewers[v] = "stuck" THEN CheckBuffering(r) ELSE r
    IN /\ room.viewers[v] # "out"
       /\ Become(r1, r1.playing # room.playing)
       /\ UNCHANGED deleted

Report(v) ==
    LET r == CheckBuffering([room EXCEPT !.viewers[v] = IF @ = "ok" THEN "stuck" ELSE "ok"])
    IN /\ room.viewers[v] # "out"
       /\ Become(r, r.playing # room.playing)
       /\ UNCHANGED deleted

-----------------------------------------------------------------------------
(***************************************************************************)
(* Time and the callbacks of timers                                        *)
(***************************************************************************)

Elapse ==
    /\ room.playing /\ room.here # "end"
    /\ room' = [room EXCEPT !.here = IF @ = "start" THEN "mid" ELSE "end"]
    /\ UNCHANGED <<db, deleted>>

\* A timer fires: its callback waits for the mutex.
Fire(k) ==
    /\ room.slot[k] = "run"
    /\ room' = [room EXCEPT !.slot[k] = "fired"]
    /\ UNCHANGED <<db, deleted>>

\* The advance timer fires half a second after the end.
FireAdvance ==
    /\ room.adv.state = "run" /\ room.here = "end"
    /\ room' = [room EXCEPT !.adv.state = "fired"]
    /\ UNCHANGED <<db, deleted>>

PauseIfEmpty ==
    LET r == Enter(room, "empty")
        pause == r.settings.pauseWhenEmpty /\ r.playing /\ Here(r) = {}
    IN /\ Callback(room, "empty")
       /\ Become(IF pause THEN SetPlayback(r, FALSE, r.here) ELSE r, pause)
       /\ UNCHANGED deleted

StartWaiting ==
    LET r == Enter(room, "buffer")
        wait == r.settings.wait /\ r.playing /\ Stuck(r) # {} /\ r.waiting = {}
    IN /\ Callback(room, "buffer")
       /\ Become(IF wait THEN Arm(SetPlayback([r EXCEPT !.waiting = Stuck(r)], FALSE, r.here), "wait")
                         ELSE r, wait)
       /\ UNCHANGED deleted

\* Mutated: as long as somebody is buffering, the wait starts anew.
StopWaiting_Again ==
    LET r == Enter(room, "wait")
        r1 == CASE r.waiting = {} -> r
                [] r.waiting # {} /\ Stuck(r) # {} -> Arm(r, "wait")
                [] OTHER -> Resume(r)
    IN /\ Callback(room, "wait")
       /\ Become(r1, r1.playing # room.playing)
       /\ UNCHANGED deleted

\* maxWait is over: go on without whoever is still buffering.
StopWaiting ==
    LET r == Enter(room, "wait")
        given == [r EXCEPT !.viewers = [v \in Viewers |-> IF @[v] = "stuck" THEN "ignored" ELSE @[v]]]
        r1 == IF r.waiting = {} THEN r ELSE Resume(given)
    IN /\ Callback(room, "wait")
       /\ Become(r1, r1.playing # room.playing)
       /\ UNCHANGED deleted

EndCountdown ==
    LET r == [Enter(room, "countdown") EXCEPT !.countdown = FALSE]
        start == room.countdown /\ Playable(room) /\ ~room.playing
    IN /\ Callback(room, "countdown")
       /\ IF ~room.countdown
            THEN Become([room EXCEPT !.stray = @ \ {"countdown"}], FALSE)
            ELSE Become(IF start THEN SetPlayback(r, TRUE, StartFrom(r.base)) ELSE r, start)
       /\ UNCHANGED deleted

\* Mutated: the clock's seq is not compared.
StillCurrent_AnySeq(t) == t.item = room.cur /\ room.playing

\* onEndedLocked: still the same item on the same clock, still playing.
StillCurrent(t) == t.item = room.cur /\ t.fresh /\ room.playing

OnEnded ==
    LET r == [room EXCEPT !.adv = NoAdvance]
    IN /\ room.adv.state = "fired"
       /\ IF StillCurrent(room.adv) THEN NextLocked(r) ELSE Become(r, FALSE)
       /\ UNCHANGED deleted

\* The callback of an advance timer that was stopped after it had fired.
OnEndedLate(e) ==
    LET r == [room EXCEPT !.ended = @ \ {e}]
    IN /\ e \in room.ended
       /\ IF StillCurrent(e) THEN NextLocked(r) ELSE Become(r, FALSE)
       /\ UNCHANGED deleted

-----------------------------------------------------------------------------
(***************************************************************************)
(* News from outside the room                                              *)
(***************************************************************************)

\* The ingest moves a row.
Ingest(m) ==
    /\ db.media[m] = "wait"
    /\ \E s \in {"ready", "failed"} : db' = [db EXCEPT !.media[m] = s]
    /\ UNCHANGED <<room, deleted>>

\* Mutated: the room takes over the row and does not start.
MediaUpdated_Idle(m) ==
    /\ db.media[m] \notin {room.media[m], "gone"}
    /\ \E i \in ToSet(room.queue) \cup ToSet(room.played) : Link[i] = m
    /\ Become([room EXCEPT !.media[m] = db.media[m]], FALSE)
    /\ UNCHANGED deleted

\* MediaUpdated and ReconcileMedia: the room takes over the row, and starts
\* the current item if it just became playable.
MediaUpdated(m) ==
    LET r == [room EXCEPT !.media[m] = db.media[m]]
        start == /\ HasMedia(r) /\ Link[r.cur] = m
                 /\ r.media[m] = "ready" /\ room.media[m] # "ready"
                 /\ ~r.playing /\ r.base = "start"
    IN /\ db.media[m] \notin {room.media[m], "gone"}
       /\ \E i \in ToSet(room.queue) \cup ToSet(room.played) : Link[i] = m
       /\ Become(IF start THEN SetPlayback(r, TRUE, "start") ELSE r, start)
       /\ UNCHANGED deleted

\* QueueRetry: the row and the room's copy go back to the start.
QueueRetry(item) ==
    /\ Contains(room.queue, item) /\ room.media[Link[item]] = "failed"
    /\ db.media[Link[item]] # "gone"
    /\ room' = [room EXCEPT !.media[Link[item]] = "wait"]
    /\ db' = [db EXCEPT !.media[Link[item]] = "wait"]
    /\ UNCHANGED deleted

\* An administrator deletes a media with its items (a link queued again
\* later gets a new row) ...
DeleteMedia(m) ==
    /\ "delete" \in Faults /\ ~deleted
    /\ \E i \in Rows(db) : Link[i] = m
    /\ db' = [Deleted(db, {i \in Items : Link[i] = m}) EXCEPT !.media[m] = "gone"]
    /\ deleted' = TRUE
    /\ UNCHANGED room

\* ... and then has the room read its queue again.
ReloadQueue ==
    LET r == Reloaded(room, db)
        head == IF r.queue = <<>> THEN None ELSE Head(r.queue)
    IN /\ deleted
       /\ \/ Abort(room, db)
          \/ IF r.cur # None /\ ~HasMedia(r) THEN Save(SetCurrent(r, head), db) ELSE Become(r, FALSE)
       /\ deleted' = FALSE

\* The janitor drops old history.
PurgePlayed ==
    /\ \E n \in 0..Len(db.played) - 1 :
         db' = Deleted(db, ToSet(SubSeq(db.played, n + 1, Len(db.played))))
    /\ UNCHANGED <<room, deleted>>

-----------------------------------------------------------------------------
(***************************************************************************)
(* The manager                                                             *)
(***************************************************************************)

\* Tick saves a clock that runs or could not be saved.
Tick ==
    /\ room.unsaved \/ room.playing
    /\ Save(room, db)
    /\ UNCHANGED deleted

\* An idle room is dropped, its timers and callbacks with it; whoever asks
\* for it next loads it.
Idle(r) == ~r.unsaved /\ ~r.playing /\ Here(r) = {}

Unload ==
    /\ Idle(room)
    /\ \E ok \in SaveOutcomes(room, db) : db' = IF ok THEN Saved(room, db) ELSE db
    /\ room' \in Loaded(db')
    /\ UNCHANGED deleted

\* The process dies and starts again.
Restart ==
    /\ room' \in Loaded(db)
    /\ deleted' = FALSE
    /\ UNCHANGED db

\* It dies inside nextLocked (or Jump), with some items marked played, or
\* the history requeued, and the clock not saved.
RestartMidway ==
    /\ "crash" \in Faults /\ room.cur # None
    /\ LET going == Leaving(room)
       IN \/ \E n \in 1..Len(going) : db' = Marked(db, SubSeq(going, 1, n))
          \/ /\ room.settings.loop /\ Len(going) > Len(Following(room))
             /\ db' = Requeued(Marked(db, going))
    /\ room' \in Loaded(db')
    /\ deleted' = FALSE

-----------------------------------------------------------------------------
PlaybackCommand ==
    \/ \E counted \in BOOLEAN : Play(counted)
    \/ \E pos \in Position : Seek(pos)
    \/ Pause \/ SetRate \/ NextItem \/ SkipVote
    \/ \E i \in Items : Jump(i)

QueueCommand ==
    \/ \E i \in Items : QueueAdd(i) \/ QueueRemove(i) \/ QueueRetry(i) \/ QueueVote(i)
    \/ \E i \in Items, after \in Items \cup {None} : QueueMove(i, after)
    \/ \E i, j \in Items : QueueAddMany(<<i>>) \/ QueueAddMany(<<i, j>>) \/ QueueReplay(i, j)
    \/ QueueShuffle \/ QueueClear \/ QueueClearPlayed \/ EndSession

Presence == \E v \in Viewers : Join(v) \/ Leave(v) \/ Kick(v) \/ Report(v)

Timer ==
    \/ Elapse \/ FireAdvance \/ OnEnded
    \/ \E k \in Kinds : Fire(k)
    \/ \E e \in room.ended : OnEndedLate(e)
    \/ PauseIfEmpty \/ StartWaiting \/ StopWaiting \/ EndCountdown

Outside ==
    \/ \E m \in Media : Ingest(m) \/ MediaUpdated(m) \/ DeleteMedia(m)
    \/ ReloadQueue \/ PurgePlayed

Server == Tick \/ Unload \/ Restart \/ RestartMidway

Next ==
    \/ Timer \/ PlaybackCommand \/ QueueCommand \/ Presence \/ Outside \/ Server
    \/ \E s \in Settings : SettingsSet(s)

Spec == Init /\ [][Next]_vars

\* The runtime fires the two timers that end a wait and a countdown, and the
\* mutex lets their callbacks in.
FairSpec ==
    /\ Spec
    /\ \A k \in {"wait", "countdown"} : WF_vars(Fire(k))
    /\ WF_vars(StopWaiting) /\ WF_vars(EndCountdown)

\* Nobody gives a command: time, the ingest and the janitor go on, in a room
\* that Warm found playing when the server started.
Unattended == Timer \/ Outside \/ Tick

WarmInit ==
    /\ db \in [queue: {q \in SeqOf(Items, QueueLimit) : IsInjective(q)}, played: {<<>>},
               media: [Media -> MediaStatus], cur: Items, playing: {TRUE}, base: Position,
               settings: Settings]
    /\ Contains(db.queue, db.cur) /\ db.media[Link[db.cur]] = "ready"
    /\ room \in Loaded(db)
    /\ deleted = FALSE

\* Time passes, every timer fires and its callback gets in.
WarmSpec ==
    /\ WarmInit /\ [][Unattended]_vars
    /\ WF_vars(Elapse) /\ WF_vars(FireAdvance) /\ WF_vars(OnEnded)
    /\ \A k \in Kinds : WF_vars(Fire(k))
    /\ WF_vars(PauseIfEmpty)

-----------------------------------------------------------------------------
(***************************************************************************)
(* Properties                                                              *)
(***************************************************************************)

\* A room that plays has the timer of its item's end armed, for this item
\* and this clock, so that it keeps advancing (README.md: "stays loaded,
\* keeps advancing through its queue"; scheduleAdvanceLocked).
AdvanceArmed ==
    room.playing /\ Playable(room) =>
        room.adv.state # "nil" /\ room.adv.item = room.cur /\ room.adv.fresh

\* What plays, or is shown as playing, is an item of the queue, and a room
\* with something queued is not idle: it has a current item (queue.go: an add
\* to an idle room starts it; playback.go: nextLocked picks what follows).
CurrentQueued ==
    /\ room.cur # None => Contains(room.queue, room.cur)
    /\ room.playing => room.cur # None
    /\ room.queue # <<>> => room.cur # None

\* A room that plays for nobody has the pause armed (README.md: "it pauses
\* two minutes after the last viewer leaves").
EmptyPauseArmed ==
    room.playing /\ room.settings.pauseWhenEmpty /\ Here(room) = {} =>
        room.slot["empty"] # "nil"

\* What a restart would load is what the room holds, unless the room knows
\* that a save is missing (playback.go: "the room is marked unsaved for
\* Tick to retry").
Recoverable ==
    ~room.unsaved /\ ~deleted =>
        \A r \in Loaded(db) : /\ r.queue = room.queue /\ r.cur = room.cur
                               /\ r.playing = room.playing /\ r.base = room.base

\* An item is left by itself only at its end (timers.go: a late callback
\* "re-checks the state it acts on: the item and seq for advance").
AdvanceAtEnd ==
    [][room'.cur # room.cur /\ room.here # "end" =>
         ~OnEnded /\ \A e \in room.ended : ~OnEndedLate(e)]_vars

\* An item is in one place, once: in the queue or in the history, of the
\* room and of the database, whatever failed between the two.
ItemOnce == IsInjective(room.queue \o room.played) /\ IsInjective(db.queue \o db.played)

\* The loop goes on from the top of what was played: the item that just
\* ended comes first only when it is the oldest (playback.go: "the history
\* becomes the queue again in the order it was played").  With the order of
\* votes this is not so: the item that ended is kept first.
LoopFromTop ==
    [][/\ room.settings.loop /\ ~room.settings.votes
       /\ room'.cur = room.cur /\ room'.here = "start" /\ NextItem
       => room.cur = Last(Marked(db, Leaving(room)).played)]_vars

\* A current item that becomes playable while people look at it starts
\* (queue.go: "starts the current item when it just became playable";
\* manager.go: "a room must not wait for good on a video that is ready").
\* Queuing the same link again, and the reading of the queue after a media
\* was deleted, take the row over without starting it.
StartsWhenReady ==
    [][/\ HasMedia(room) /\ ~Playable(room) /\ ~room.playing /\ room.base = "start"
       /\ room'.cur = room.cur /\ Playable(room') /\ Here(room') # {}
       => \/ room'.playing \/ ReloadQueue
          \/ \E i \in Items : QueueAdd(i)]_vars

\* A room goes on waiting only while somebody it would wait for is buffering
\* (checkBufferingLocked: "resume when the room waited and everyone is
\* ready"); but the viewer it waits for may be kicked.
WaitsFor(r) == r.waiting # {} /\ r.cur # None => Stuck(r) # {}
WaitsForSomeone ==
    [][WaitsFor(room) => WaitsFor(room') \/ \E v \in Viewers : Kick(v)]_vars

\* A viewer who gets stuck in a room that plays is noticed: the timer that
\* pauses for them runs (entity/room.go: "WaitForBuffering pauses the room
\* while a viewer is stuck buffering"); one who was stuck before it played,
\* or before the setting was turned on, is not.
Noticed(r) == r.settings.wait /\ Stuck(r) # {} => r.slot["buffer"] # "nil"
StuckNoticed ==
    [][room.playing /\ room.settings.wait /\ Noticed(room) /\ room'.playing => Noticed(room')]_vars

\* A wait for buffering viewers ends, whatever else happens, if only by
\* maxWait (presence.go, startWaitingLocked and stopWaitingLocked), and a
\* countdown starts playback or is cancelled; it never hangs (playback.go,
\* Countdown and endCountdownLocked).
WaitEnds ==
    /\ room.waiting # {} ~> room.waiting = {}
    /\ room.countdown ~> ~room.countdown

\* Left alone after a restart, a room plays on and rests only where nothing
\* can play, where the empty-room pause stopped it, or at the top of its
\* loop (manager.go: "unattended playback resumes and keeps advancing after
\* a restart"; playback.go: "stop at the top instead of cycling on").  Media
\* deleted meanwhile may also stop it, and it does not play them for ever.
ComesToRest ==
    <>[](/\ ~room.playing
         /\ Playable(room) =>
              \/ room.settings.pauseWhenEmpty
              \/ room.settings.loop /\ room.here = "start" /\ room.cur = Head(room.queue) /\ room.played = <<>>
              \/ \E m \in Media : db.media[m] = "gone")
=============================================================================
