-------------------------------- MODULE Chat --------------------------------
(***************************************************************************)
(* The chat of one room and its delivery to the viewers' browsers:         *)
(* room/chat.go and repository/messages.go (the log and the pin), the      *)
(* connection half of hub/hub.go (a bounded queue between the room and the *)
(* writer of a WebSocket), the chat half of room/presence.go and           *)
(* apihttp/mutes.go, and the reducer of web/src/store/room.ts that turns   *)
(* the events of a connection into what its viewer sees.                   *)
(*                                                                         *)
(* Everything a room does is done under its mutex, so a command is one     *)
(* step.  What is not: the actor of a command is read before the mutex     *)
(* (hub freshActor), the backlog of a newcomer too (Join), a purge of old  *)
(* messages does not know the room at all, and the writer of a connection  *)
(* runs beside everything.  A message is its number; its text is how often *)
(* it was edited.  Quotes, mentions and the rate limits are left out; a    *)
(* typing hint and a reaction are a notice that takes a place in a queue.  *)
(***************************************************************************)
EXTENDS Naturals, Sequences, SequencesExt, FiniteSets, Slices

CONSTANTS
    Users,          \* the members, who write and may be muted
    Tabs,           \* the connections a member may write through
    Conns,          \* those whose delivery is followed as well
    UserOf,         \* whose they are
    None,
    Cap,            \* sendBuffer: what a connection queues
    Recent,         \* recentMessages: how long the backlog is
    MaxMsgs,        \* bound on the messages written
    MaxEdits        \* bound: the messages that are edited are the first ones

\* Why a connection is closed, as closeStatus tells it apart: a kick ends the
\* session of the browser; too slow, failed, bye and shutdown make it retry.
Reasons == {"retry", "kicked"}

ASSUME ChatAssumption ==
    /\ UserOf \in [Tabs -> Users]
    /\ Conns \subseteq Tabs
    /\ {Cap, Recent} \subseteq Nat \ {0}
    /\ {MaxMsgs, MaxEdits} \subseteq Nat
    /\ None \notin Users \cup [id: Nat, rev: Nat] \cup Reasons

VARIABLES
    msgs,       \* table messages of the room; the index is the id
    saved,      \* rooms.pinned_message_id, 0 for NULL
    pinned,     \* Room.pinned: an [id, rev], or None
    untold,     \* shown messages whose edit failed half-way: written, not announced
    muted,      \* table room_mutes, the ones in force
    speaking,   \* connections with a command past freshActor, which read no mute
    slips,      \* what each connection of a muted user wrote since the mute
    conn,       \* hub conn, and Room.viewers[conn]
    ended       \* connections whose browser was told that its session is over

vars == <<msgs, saved, pinned, untold, muted, speaking, slips, conn, ended>>
talk == <<muted, speaking, slips>>

\* The browser before its welcome; from is the first message it would show.
NoView == [lines |-> <<>>, from |-> 1, pin |-> None]

\* A connection that has not been made.
Blank == [phase |-> "out",      \* out, reading, running, ending
          viewer |-> FALSE,     \* in Room.viewers
          backlog |-> <<>>, from |-> 1,
          missed |-> {},        \* messages touched between the backlog and the join
          out |-> <<>>, closed |-> None,
          written |-> FALSE,    \* the write loop has ended
          view |-> NoView,      \* the store of the browser
          told |-> FALSE,       \* the kicked message reached it
          kicked |-> FALSE,     \* kicked while its queue had room
          lost |-> FALSE]       \* a write failed or the client went away

Init ==
    /\ msgs = <<>> /\ saved = 0 /\ pinned = None /\ untold = {}
    /\ muted = {} /\ speaking = {} /\ slips = [t \in Tabs |-> 0]
    /\ conn = [c \in Conns |-> Blank]
    /\ ended = {}

Shown(id) == id \in DOMAIN msgs /\ msgs[id].state = "shown"
Pin(ms, id) == [id |-> id, rev |-> ms[id].rev]

-----------------------------------------------------------------------------
(***************************************************************************)
(* The browser                                                             *)
(***************************************************************************)

\* handle of store/room.ts (which keeps 200 lines).
See(v, e) ==
    CASE e.type = "welcome" -> [v EXCEPT !.lines = e.lines, !.from = e.from, !.pin = e.pin]
      [] e.type \in {"state", "pinned"} -> [v EXCEPT !.pin = e.pin]
      [] e.type = "message" -> [v EXCEPT !.lines = Append(@, e.line)]
      [] e.type = "edited" -> [v EXCEPT !.lines = [i \in DOMAIN @ |-> IF @[i].id = e.line.id THEN e.line ELSE @[i]]]
      [] e.type = "deleted" -> [v EXCEPT !.lines = Without(@, {l \in ToSet(@) : l.id = e.id})]
      [] e.type = "cleared" -> [v EXCEPT !.lines = <<>>]
      [] e.type \in {"kicked", "notice"} -> v

\* The store v once the events es have arrived, one after the other.
Reads(v, es) ==
    LET After[n \in 0..Len(es)] == IF n = 0 THEN v ELSE See(After[n - 1], es[n])
    IN After[Len(es)]

\* What the browser shows once everything queued for it has arrived.
Caught(c) == Reads(conn[c].view, conn[c].out)

-----------------------------------------------------------------------------
(***************************************************************************)
(* The connection                                                          *)
(***************************************************************************)

\* conn.Close: the first reason stands.  From here on a connection is only
\* followed for a kicked message: whatever else its browser shows, the next
\* welcome replaces it.
IsKicked(e) == e.type = "kicked"
Closed(k, reason) ==
    IF k.closed = None THEN [k EXCEPT !.closed = reason, !.out = Only(@, {[type |-> "kicked"]}),
                                             !.view = NoView, !.missed = {}]
    ELSE k

\* conn.Send: the outcomes of one call.  With room in the queue and the
\* connection closed, select takes either branch.
Send(k, e) ==
    LET queued == {[k EXCEPT !.out = Append(@, e)]}
        room == Len(k.out) < Cap
    IN CASE k.written -> {k}
         [] ~k.written /\ k.closed # None -> {k} \cup (IF room /\ IsKicked(e) THEN queued ELSE {})
         [] ~k.written /\ k.closed = None /\ room -> queued
         [] ~k.written /\ k.closed = None /\ ~room -> {Closed(k, "retry")}

\* One call after the other.
SendAll(k, es) ==
    LET After[n \in 0..Len(es)] ==
          IF n = 0 THEN {k} ELSE UNION {Send(j, es[n]) : j \in After[n - 1]}
    IN After[Len(es)]

\* Every choice of one outcome for each connection.
Each(outcomes) == {f \in [Conns -> UNION Range(outcomes)] : \A c \in Conns : f[c] \in outcomes[c]}

\* The room sends es to every viewer.  A newcomer that has read its backlog
\* and not joined yet misses what becomes of the messages ids.
Heard(k, es, ids) ==
    IF k.viewer THEN SendAll(k, es)
    ELSE IF k.phase = "reading" THEN {[k EXCEPT !.missed = @ \cup ids]} ELSE {k}

Broadcast(es, ids) == conn' \in Each([c \in Conns |-> Heard(conn[c], es, ids)])

Snapshot == [type |-> "state", pin |-> pinned]

\* writeLoop and flush, which go on until the queue is empty: one message
\* reaches the browser.
Write(c) ==
    LET k == conn[c]
    IN /\ ~k.written /\ ~k.lost /\ k.out # <<>>
       /\ conn' = [conn EXCEPT ![c] = [k EXCEPT !.out = Tail(@), !.view = See(@, Head(k.out)),
                                               !.told = @ \/ IsKicked(Head(k.out))]]
       /\ ended' = IF IsKicked(Head(k.out)) THEN ended \cup {c} ELSE ended
       /\ UNCHANGED <<msgs, saved, pinned, untold, talk>>

\* The write fails, or has not ended in writeTimeout.
WriteFails(c) ==
    LET k == conn[c]
    IN /\ ~k.written /\ k.out # <<>>
       /\ conn' = [conn EXCEPT ![c] = [Closed(k, "retry") EXCEPT !.out = <<>>, !.lost = TRUE]]
       /\ UNCHANGED <<msgs, saved, pinned, untold, talk, ended>>

\* Mutated: after a failed write the writer just returns.
CloseFrame_Returns(c) ==
    LET k == conn[c]
    IN /\ ~k.written /\ k.closed # None /\ k.out = <<>> /\ ~k.lost
       /\ conn' = [conn EXCEPT ![c] = [k EXCEPT !.written = TRUE, !.out = <<>>]]
       /\ ended' = IF k.closed = "kicked" /\ ~k.lost THEN ended \cup {c} ELSE ended
       /\ UNCHANGED <<msgs, saved, pinned, untold, talk>>

\* The queue is flushed, or a write of the flush failed: the close frame.
\* 1008 with a reason ends the session of the browser, the other codes make
\* it reconnect (closeStatus, lib/ws.ts onclose).
CloseFrame(c) ==
    LET k == conn[c]
    IN /\ ~k.written /\ k.closed # None /\ (k.out = <<>> \/ k.lost)
       /\ conn' = [conn EXCEPT ![c] = [k EXCEPT !.written = TRUE, !.out = <<>>]]
       /\ ended' = IF k.closed = "kicked" /\ ~k.lost THEN ended \cup {c} ELSE ended
       /\ UNCHANGED <<msgs, saved, pinned, untold, talk>>

\* readLoop ends, which dispatches one command after the other: the socket
\* is closed, or the client is gone or silent.
ReadEnds(c) ==
    LET k == conn[c]
    IN /\ k.phase = "running" /\ c \notin speaking
       /\ conn' = [conn EXCEPT ![c] = [Closed(k, "retry") EXCEPT !.phase = "ending", !.lost = @ \/ ~k.written]]
       /\ UNCHANGED <<msgs, saved, pinned, untold, talk, ended>>

-----------------------------------------------------------------------------
(***************************************************************************)
(* Presence                                                                *)
(***************************************************************************)

Online(u) == \E c \in Conns : conn[c].viewer /\ UserOf[c] = u

\* logLocked: a system line, or none when the database refuses it.
LogLines(ms) == {<<>>} \cup IF Len(ms) < MaxMsgs THEN {<<[author |-> None, rev |-> 0, state |-> "shown"]>>} ELSE {}

Announce(ms, new) == [i \in DOMAIN new |-> [type |-> "message", line |-> Pin(ms \o new, Len(ms) + i)]]
New(ms, new) == {Len(ms) + i : i \in DOMAIN new}

\* ListRecentMessages: the last of the visible ones, oldest first.
Visible == Only([i \in DOMAIN msgs |-> i], {i \in DOMAIN msgs : Shown(i)})
ListRecentMessages(limit) ==
    IF limit >= Len(Visible) THEN Visible ELSE SubSeq(Visible, Len(Visible) - limit + 1, Len(Visible))

\* Room.Join, before the lock: recentMessages reads the backlog; a failure
\* leaves it empty.  The browser connects unless its session was ended.
ReadBacklog(c) ==
    /\ conn[c].phase = "out" /\ c \notin ended
    /\ \E limit \in {0, Recent} :
         LET ids == ListRecentMessages(limit)
         IN conn' = [conn EXCEPT ![c] =
              [Blank EXCEPT !.phase = "reading",
                            !.backlog = [i \in DOMAIN ids |-> Pin(msgs, ids[i])],
                            !.from = IF limit > Len(Visible) THEN 1
                                     ELSE IF ids = <<>> THEN Len(msgs) + 1 ELSE ids[1]]]
    /\ UNCHANGED <<msgs, saved, pinned, untold, talk, ended>>

\* Room.Join, under the lock: the welcome carries the pin of this moment and
\* the backlog of an earlier one.  The first connection of a visit is logged.
Join(c) ==
    LET k == conn[c]
        welcome == [type |-> "welcome", lines |-> k.backlog, from |-> k.from, pin |-> pinned]
        in == [k EXCEPT !.phase = "running", !.viewer = TRUE, !.out = <<welcome>>, !.backlog = <<>>, !.from = 1]
    IN /\ k.phase = "reading"
       /\ \E new \in LogLines(msgs) :
            /\ new # <<>> => ~Online(UserOf[c])
            /\ msgs' = msgs \o new
            /\ conn' \in Each([d \in Conns |-> Heard(IF d = c THEN in ELSE conn[d], Announce(msgs, new), New(msgs, new))])
       /\ UNCHANGED <<saved, pinned, untold, talk, ended>>

\* Room.Leave, once the reader and the writer have ended.
Leave(c) ==
    /\ conn[c].phase = "ending" /\ conn[c].written
    /\ conn' = [conn EXCEPT ![c] = Blank]
    /\ UNCHANGED <<msgs, saved, pinned, untold, talk, ended>>

\* A system line of any other origin: a departure once its grace is over
\* (onLeftLocked), a mute (OnMute, Room.Log), a queue or playback command.
Log ==
    /\ \E new \in LogLines(msgs) :
         /\ new # <<>> /\ msgs' = msgs \o new
         /\ Broadcast(Announce(msgs, new), New(msgs, new))
    /\ UNCHANGED <<saved, pinned, untold, talk, ended>>

\* A snapshot for everyone: flushPresenceLocked, and every room command that
\* ends in broadcastLocked.
SendState ==
    /\ Broadcast(<<Snapshot>>, {})
    /\ UNCHANGED <<msgs, saved, pinned, untold, talk, ended>>

\* Mutated: the connection is closed before it is told why.
Out_CloseFirst(k) == {[j EXCEPT !.viewer = FALSE, !.kicked = (k.closed = None /\ Len(k.out) < Cap)] :
             j \in Send(Closed(k, "kicked"), [type |-> "kicked"])}

\* A connection taken out of the room with a kicked message and a close.
Sent(k, e) == {Closed(j, "kicked") : j \in Send(k, e)}
Out(k) == {[j EXCEPT !.viewer = FALSE, !.kicked = (k.closed = None /\ Len(k.out) < Cap)] :
             j \in Sent(k, [type |-> "kicked"])}

\* Room.Kick: a ban, a removal, a departure; the others get a snapshot.
Kick(u) ==
    /\ conn' \in Each([c \in Conns |-> IF conn[c].viewer /\ UserOf[c] = u THEN Out(conn[c])
                                       ELSE Heard(conn[c], <<Snapshot>>, {})])
    /\ UNCHANGED <<msgs, saved, pinned, untold, talk, ended>>

\* Room.EndSession: a line, and everyone out.
EndSession ==
    /\ \E new \in LogLines(msgs) :
         /\ msgs' = msgs \o new
         /\ conn' \in Each([c \in Conns |->
              IF conn[c].viewer THEN UNION {Out(j) : j \in SendAll(conn[c], Announce(msgs, new))}
              ELSE Heard(conn[c], <<>>, New(msgs, new))])
    /\ UNCHANGED <<saved, pinned, untold, talk, ended>>

-----------------------------------------------------------------------------
(***************************************************************************)
(* Mutes                                                                   *)
(***************************************************************************)

\* GetMute finds a row whose time is not over.
Muted(u) == u \in muted

\* The row replaces an earlier one of the same person.
Mute(u) == muted' = muted \cup {u}

\* handleMute.  OnMute then has the room log a line (Log).
SetMute(u) ==
    /\ Mute(u)
    /\ UNCHANGED <<msgs, saved, pinned, untold, speaking, slips, conn, ended>>

Unmute(u) == muted' = muted \ {u}

\* handleUnmute, and the end of a mute, which nobody logs.
DeleteMute(u) ==
    /\ Muted(u)
    /\ Unmute(u)
    /\ slips' = [t \in Tabs |-> IF UserOf[t] = u THEN 0 ELSE slips[t]]
    /\ UNCHANGED <<msgs, saved, pinned, untold, speaking, conn, ended>>

\* freshActor of a command that writes: the mute is read here, and decides.
\* A connection has one command in service, a user with two tabs may have
\* two.  Nothing is read from a socket its writer has closed.
FreshActor(t) ==
    /\ t \notin speaking /\ ~Muted(UserOf[t])
    /\ t \in Conns => conn[t].phase = "running" /\ ~conn[t].written
    /\ speaking' = speaking \cup {t}
    /\ UNCHANGED <<msgs, saved, pinned, untold, muted, slips, conn, ended>>

Slip(t) == slips' = IF Muted(UserOf[t]) THEN [slips EXCEPT ![t] = @ + 1] ELSE slips

\* Mutated: the actor read once serves the commands that follow.
Spoken_Again(t, wrote) ==
    /\ t \in speaking
    /\ speaking' = speaking
    /\ IF wrote THEN Slip(t) ELSE slips' = slips
    /\ UNCHANGED muted

\* A command that writes is over: done, refused or failed.
Spoken(t, wrote) ==
    /\ t \in speaking
    /\ speaking' = speaking \ {t}
    /\ IF wrote THEN Slip(t) ELSE slips' = slips
    /\ UNCHANGED muted

-----------------------------------------------------------------------------
(***************************************************************************)
(* Chat commands                                                           *)
(***************************************************************************)

\* setPinnedLocked
PinnedTo(pin) == <<[type |-> "pinned", pin |-> pin]>>
Unpinned(ids) == pinned # None /\ pinned.id \in ids

ChatSend(t) ==
    LET new == <<[author |-> UserOf[t], rev |-> 0, state |-> "shown"]>>
    IN /\ Len(msgs) < MaxMsgs
       /\ Spoken(t, TRUE)
       /\ msgs' = msgs \o new
       /\ Broadcast(Announce(msgs, new), New(msgs, new))
       /\ UNCHANGED <<saved, pinned, untold, ended>>

\* A reaction goes to everyone, a typing hint to everyone else.
React(t) ==
    /\ Spoken(t, TRUE)
    /\ Broadcast(<<[type |-> "notice"]>>, {})
    /\ UNCHANGED <<msgs, saved, pinned, untold, ended>>

ChatTyping(t) ==
    /\ Spoken(t, FALSE)
    /\ conn' \in Each([c \in Conns |-> IF conn[c].viewer /\ UserOf[c] # UserOf[t] THEN Send(conn[c], [type |-> "notice"])
                                         ELSE {conn[c]}])
    /\ UNCHANGED <<msgs, saved, pinned, untold, ended>>

\* The command is refused (a limit, slow mode, the edit window) or fails.
ChatRefused(t) ==
    /\ Spoken(t, FALSE)
    /\ UNCHANGED <<msgs, saved, pinned, untold, conn, ended>>

\* EditMessage: the author's own visible line (bound: each is edited once).
EditMessage(u, id) ==
    /\ Shown(id) /\ msgs[id].author = u
    /\ id <= MaxEdits /\ msgs[id].rev = 0
    /\ msgs' = [msgs EXCEPT ![id].rev = @ + 1]

\* The row is updated, then read back; when the read fails nobody is told.
\* The pin of the message follows.
ChatEdit(t, id) ==
    LET ms == [msgs EXCEPT ![id].rev = @ + 1]
        edited == <<[type |-> "edited", line |-> Pin(ms, id)]>>
    IN /\ EditMessage(UserOf[t], id)
       /\ Spoken(t, TRUE)
       /\ \/ /\ Broadcast(IF Unpinned({id}) THEN edited \o PinnedTo(Pin(ms, id)) ELSE edited, {id})
             /\ pinned' = IF Unpinned({id}) THEN Pin(ms, id) ELSE pinned
             /\ untold' = untold \ {id}
          \/ untold' = untold \cup {id} /\ UNCHANGED <<conn, pinned>>
       /\ UNCHANGED <<saved, ended>>

\* DeleteMessage hides the line and takes it off the pin.
DeleteMessage(id) ==
    /\ Shown(id)
    /\ msgs' = [msgs EXCEPT ![id].state = "deleted"]
    /\ saved' = IF saved = id THEN 0 ELSE saved

\* Moderators delete any line, the others their own.
ChatDelete(id) ==
    LET deleted == <<[type |-> "deleted", id |-> id]>>
    IN /\ DeleteMessage(id)
       /\ pinned' = IF Unpinned({id}) THEN None ELSE pinned
       /\ Broadcast(IF Unpinned({id}) THEN deleted \o PinnedTo(None) ELSE deleted, {id})
       /\ untold' = untold \ {id}
       /\ UNCHANGED <<talk, ended>>

\* ClearMessages hides every line.
ClearMessages == [i \in DOMAIN msgs |-> IF Shown(i) THEN [msgs[i] EXCEPT !.state = "deleted"] ELSE msgs[i]]

\* Mutated: the line about the clearing goes out before the clearing.
ChatClear_LogFirst ==
    LET ms == ClearMessages
        cleared == <<[type |-> "cleared"]>> \o IF pinned # None THEN PinnedTo(None) ELSE <<>>
    IN /\ saved' = 0 /\ pinned' = None /\ untold' = {}
       /\ \E new \in LogLines(ms) :
            /\ msgs' = ms \o new
            /\ Broadcast(Announce(ms, new) \o cleared, DOMAIN msgs \cup New(ms, new))
       /\ UNCHANGED <<talk, ended>>

ChatClear ==
    LET ms == ClearMessages
        cleared == <<[type |-> "cleared"]>> \o IF pinned # None THEN PinnedTo(None) ELSE <<>>
    IN /\ saved' = 0 /\ pinned' = None /\ untold' = {}
       /\ \E new \in LogLines(ms) :
            /\ msgs' = ms \o new
            /\ Broadcast(cleared \o Announce(ms, new), DOMAIN msgs \cup New(ms, new))
       /\ UNCHANGED <<talk, ended>>

\* System lines cannot be pinned.
ChatPin(id) ==
    /\ Shown(id) /\ msgs[id].author # None
    /\ saved' = id /\ pinned' = Pin(msgs, id)
    /\ \E new \in LogLines(msgs) :
         /\ msgs' = msgs \o new
         /\ Broadcast(PinnedTo(Pin(msgs, id)) \o Announce(msgs, new), New(msgs, new))
    /\ UNCHANGED <<untold, talk, ended>>

\* Mutated: only the room's copy is cleared.
ChatUnpin_Unsaved ==
    /\ pinned # None
    /\ pinned' = None
    /\ Broadcast(PinnedTo(None), {})
    /\ UNCHANGED <<msgs, saved, untold, talk, ended>>

\* ChatUnpin returns at once when the room remembers no pin.
ChatUnpin ==
    /\ pinned # None
    /\ saved' = 0 /\ pinned' = None
    /\ Broadcast(PinnedTo(None), {})
    /\ UNCHANGED <<msgs, untold, talk, ended>>

-----------------------------------------------------------------------------
(***************************************************************************)
(* The retention and the room's life                                       *)
(***************************************************************************)

\* PurgeMessagesBefore: the oldest rows go; a pin of one becomes NULL in the
\* database.  The room and its viewers are not told.
PurgeMessagesBefore(n) ==
    /\ Shown(n)
    /\ msgs' = [i \in DOMAIN msgs |-> IF i <= n THEN [msgs[i] EXCEPT !.state = "purged"] ELSE msgs[i]]
    /\ saved' = IF saved <= n THEN 0 ELSE saved
    /\ untold' = untold \ 1..n
    /\ UNCHANGED <<pinned, talk, conn, ended>>

\* loadPinnedLocked: a message that cannot be read leaves the room unpinned.
LoadPinned == {None} \cup IF saved # 0 /\ Shown(saved) THEN {Pin(msgs, saved)} ELSE {}

\* The process dies and comes back: every connection is gone.
Restart ==
    /\ pinned' \in LoadPinned
    /\ conn' = [c \in Conns |-> Blank]
    /\ speaking' = {}
    /\ UNCHANGED <<msgs, saved, untold, muted, slips, ended>>

\* Manager.Unload and the shutdown: closeViewers, the timers stop, and the
\* next connection loads the room again.
Unload ==
    /\ \A c \in Conns : conn[c].phase # "reading"
    /\ pinned' \in LoadPinned
    /\ \E reason \in Reasons :
         conn' = [c \in Conns |-> IF conn[c].viewer THEN [Closed(conn[c], reason) EXCEPT !.viewer = FALSE] ELSE conn[c]]
    /\ UNCHANGED <<msgs, saved, untold, talk, ended>>

\* A command in service comes to its end.
Command(t) ==
    \/ ChatSend(t) \/ React(t) \/ ChatTyping(t) \/ ChatRefused(t)
    \/ \E id \in DOMAIN msgs : ChatEdit(t, id)

Next ==
    \/ \E c \in Conns : \/ ReadBacklog(c) \/ Join(c) \/ Leave(c) \/ ReadEnds(c)
                        \/ Write(c) \/ WriteFails(c) \/ CloseFrame(c)
    \/ \E u \in Users : Kick(u) \/ SetMute(u) \/ DeleteMute(u)
    \/ \E t \in Tabs : FreshActor(t) \/ Command(t)
    \/ \E id \in DOMAIN msgs : ChatDelete(id) \/ ChatPin(id) \/ PurgeMessagesBefore(id)
    \/ ChatClear \/ ChatUnpin \/ SendState \/ Log \/ EndSession \/ Restart \/ Unload

\* Writes are bounded by writeTimeout and commands by the 15 s of their
\* context, the write loop looks at the close, a closed socket ends the
\* read, and the goroutine goes on to Leave.
Fairness ==
    \A c \in Conns : /\ WF_vars(Write(c) \/ WriteFails(c)) /\ WF_vars(CloseFrame(c))
                     /\ WF_vars(conn[c].written /\ ReadEnds(c)) /\ WF_vars(Leave(c))
                     /\ WF_vars(ChatRefused(c))

Spec == Init /\ [][Next]_vars /\ Fairness

-----------------------------------------------------------------------------
(***************************************************************************)
(* Properties                                                              *)
(***************************************************************************)

\* The lines of v a viewer has a right to: not those it missed while it
\* joined, those whose edit failed half-way and those the retention took.
Excused(c) == conn[c].missed \cup untold \cup {i \in DOMAIN msgs : msgs[i].state = "purged"}

\* A connection the room still feeds ends up, whatever is queued for it and
\* however the events interleaved with its join, with exactly the messages
\* of the room, in their order and with their latest text (chat.go, every
\* command; store/room.ts handle).  The pin, unlike the backlog, is read
\* under the lock: it is the room's however the viewer joined (Join,
\* setPinnedLocked).
CatchesUp ==
    \A c \in Conns : conn[c].viewer /\ conn[c].closed = None =>
        LET v == Caught(c)
            shows == Only(v.lines, {l \in ToSet(v.lines) : l.id \notin Excused(c)})
            want == Only(Visible, {i \in ToSet(Visible) : i >= v.from /\ i \notin Excused(c)})
        IN /\ shows = [i \in DOMAIN want |-> Pin(msgs, want[i])]
           /\ v.pin = pinned

PinAgrees ==
    /\ pinned # None => \/ msgs[pinned.id].state = "purged"
                        \/ saved = pinned.id /\ (pinned.rev = msgs[pinned.id].rev \/ pinned.id \in untold)
    /\ pinned = None => saved = 0

\* What the room has pinned is what a restart would pin: the same message,
\* with its latest text, unless the retention took it (SetPinnedMessage,
\* DeleteMessage, ClearMessages against setPinnedLocked).  A load that fails
\* to read the pin is the one way to part them.
PinSaved == [][PinAgrees => PinAgrees' \/ Restart \/ Unload]_vars

\* flush: "so a kicked client learns why".  A connection kicked while its
\* queue had room has been sent the kicked message when its writer ends,
\* unless a write failed or the client was gone.
KickedLearns ==
    \A c \in Conns : conn[c].kicked /\ conn[c].written /\ ~conn[c].lost => conn[c].told

\* A mute is read before the lock and applied under it: what still gets
\* through is, on each connection of the muted user, the one command that
\* was being served (hub.go readLoop and dispatch, one of each for every
\* connection).
MuteHolds == \A t \in Tabs : slips[t] <= 1

\* A connection that the room closed and let go of, or that broke, ends: its
\* writer and its reader stop and the room forgets it, while the room goes
\* on (hub.go conn: "Closing never blocks the room").  One closed as too
\* slow stays a viewer until its queue is found empty.
ClosedEnds ==
    \A c \in Conns : (conn[c].closed # None /\ (conn[c].lost \/ ~conn[c].viewer)) ~> conn[c].phase = "out"

=============================================================================
