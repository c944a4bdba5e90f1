----------------------------- MODULE ChatProofs -----------------------------
(***************************************************************************)
(* Proofs about module Chat, for any members, connections, messages and    *)
(* lengths of the queue: a mute lets through what was being served and no  *)
(* more, the pin of the room stays the pin of the database, a kicked       *)
(* viewer is told, and a viewer the room feeds ends up with what the room  *)
(* has to show.                                                            *)
(***************************************************************************)
EXTENDS Chat, SlicesProofs

-----------------------------------------------------------------------------
(***************************************************************************)
(* Mutes                                                                   *)
(***************************************************************************)

\* What slipped through a connection did so under a mute that is still in
\* force, with the last actor that had been read before it.
Quiet(t) == slips[t] # 0 => slips[t] = 1 /\ UserOf[t] \in muted /\ t \notin speaking

MuteInv ==
    /\ slips \in [Tabs -> Nat]
    /\ \A t \in Tabs : Quiet(t)

\* What a step does to mutes and actors.
TalkStep ==
    \/ UNCHANGED talk
    \/ speaking' = {} /\ UNCHANGED <<muted, slips>>
    \/ \E u \in Users : SetMute(u) \/ DeleteMute(u)
    \/ \E t \in Tabs : FreshActor(t) \/ Spoken(t, TRUE) \/ Spoken(t, FALSE)

\* Only these steps touch them.
LEMMA Talks == ASSUME Next PROVE TalkStep
<1>1. ASSUME NEW c \in Conns, ReadBacklog(c) \/ Join(c) \/ Leave(c) \/ ReadEnds(c)
                                \/ Write(c) \/ WriteFails(c) \/ CloseFrame(c)
      PROVE TalkStep
  BY <1>1 DEF TalkStep, ReadBacklog, Join, Leave, ReadEnds, Write, WriteFails, CloseFrame
<1>2. ASSUME NEW u \in Users, Kick(u) PROVE TalkStep BY <1>2 DEF TalkStep, Kick
<1>3. ASSUME NEW u \in Users, SetMute(u) \/ DeleteMute(u) PROVE TalkStep BY <1>3 DEF TalkStep
<1>4. ASSUME NEW t \in Tabs, FreshActor(t) PROVE TalkStep BY <1>4 DEF TalkStep
<1>5. ASSUME NEW t \in Tabs, Command(t) PROVE TalkStep
  <2>1. CASE ChatSend(t) \/ React(t) \/ \E id \in DOMAIN msgs : ChatEdit(t, id)
    <3>1. Spoken(t, TRUE) BY <2>1 DEF ChatSend, React, ChatEdit
    <3> QED BY <3>1 DEF TalkStep
  <2>2. CASE ChatRefused(t) \/ ChatTyping(t)
    <3>1. Spoken(t, FALSE) BY <2>2 DEF ChatRefused, ChatTyping
    <3> QED BY <3>1 DEF TalkStep
  <2> QED BY <1>5, <2>1, <2>2 DEF Command
<1>7. ASSUME NEW id \in DOMAIN msgs, ChatDelete(id) \/ ChatPin(id) \/ PurgeMessagesBefore(id)
      PROVE TalkStep
  BY <1>7 DEF TalkStep, ChatDelete, ChatPin, PurgeMessagesBefore
<1>8. ASSUME ChatClear \/ ChatUnpin \/ SendState \/ Log \/ EndSession \/ Unload PROVE TalkStep
  BY <1>8 DEF TalkStep, ChatClear, ChatUnpin, SendState, Log, EndSession, Unload
<1>9. ASSUME Restart PROVE TalkStep BY <1>9 DEF TalkStep, Restart
<1> QED BY <1>1, <1>2, <1>3, <1>4, <1>5, <1>7, <1>8, <1>9 DEF Next

\* A mute forgets a slip only when it ends.
LEMMA MuteStep == ASSUME MuteInv, [Next]_vars PROVE MuteInv'
<1>1. CASE UNCHANGED vars BY <1>1 DEF MuteInv, Quiet, vars
<1>2. CASE Next
  <2>1. CASE UNCHANGED talk BY <2>1 DEF MuteInv, Quiet, talk
  <2>2. CASE speaking' = {} /\ UNCHANGED <<muted, slips>> BY <2>2 DEF MuteInv, Quiet
  <2>3. ASSUME NEW u \in Users, SetMute(u) PROVE MuteInv' BY <2>3 DEF MuteInv, Quiet, SetMute, Mute
  <2>4. ASSUME NEW u \in Users, DeleteMute(u) PROVE MuteInv'
    BY <2>4 DEF MuteInv, Quiet, DeleteMute, Muted, Unmute
  <2>5. ASSUME NEW t \in Tabs, FreshActor(t) PROVE MuteInv'
    BY <2>5 DEF MuteInv, Quiet, FreshActor, Muted
  <2>6. ASSUME NEW t \in Tabs, Spoken(t, TRUE) \/ Spoken(t, FALSE) PROVE MuteInv'
    BY <2>6 DEF MuteInv, Quiet, Spoken, Slip, Muted
  <2>7. TalkStep BY <1>2, Talks
  <2> QED BY <2>1, <2>2, <2>3, <2>4, <2>5, <2>6, <2>7 DEF TalkStep
<1> QED BY <1>1, <1>2

\* Nothing slipped through before the first mute.
LEMMA MuteInit == ASSUME Init PROVE MuteInv
BY DEF Init, MuteInv, Quiet

\* Through each connection of its user a mute lets at most the one command
\* pass that was beyond freshActor when it was set, however many tabs the
\* user writes from and however often the actor is read, the mute renewed,
\* the connection replaced and the server restarted (hub.go readLoop and
\* dispatch, mutes.go handleMute).
THEOREM MutedFallSilent == Spec => []MuteHolds
<1>1. Init => MuteInv BY MuteInit
<1>2. MuteInv /\ [Next]_vars => MuteInv' BY MuteStep
<1>3. MuteInv => MuteHolds BY DEF MuteInv, Quiet, MuteHolds
<1> QED BY <1>1, <1>2, <1>3, PTL DEF Spec
-----------------------------------------------------------------------------
(***************************************************************************)
(* The log and the pin                                                     *)
(***************************************************************************)

Message == [author: Users \cup {None}, rev: Nat, state: {"shown", "deleted", "purged"}]
Line == [id: Nat, rev: Nat]

\* The rows, and pins that name one of them.
LogInv ==
    /\ msgs \in Seq(Message)
    /\ saved \in 0..Len(msgs)
    /\ pinned \in Line \cup {None}
    /\ pinned # None => pinned.id \in DOMAIN msgs
    /\ untold \subseteq DOMAIN msgs

log == <<msgs, saved, pinned, untold>>

\* Rows are added at the end, by a line of the log or a message.
Grows == \E new \in Seq(Message) : msgs' = msgs \o new /\ UNCHANGED <<saved, pinned, untold>>

\* What a step does to the log and the pin.
LogStep ==
    \/ UNCHANGED log
    \/ Grows
    \/ \E t \in Tabs, id \in DOMAIN msgs : ChatEdit(t, id)
    \/ \E id \in DOMAIN msgs : ChatDelete(id) \/ ChatPin(id) \/ PurgeMessagesBefore(id)
    \/ ChatClear \/ ChatUnpin \/ Restart \/ Unload

\* The line of the log is a message of the system.
LEMMA LogLineTypes == ASSUME NEW ms, NEW new \in LogLines(ms) PROVE new \in Seq(Message)
<1>1. [author |-> None, rev |-> 0, state |-> "shown"] \in Message BY DEF Message
<1>2. <<[author |-> None, rev |-> 0, state |-> "shown"]>> \in Seq(Message) BY <1>1
<1>3. new = <<>> \/ new = <<[author |-> None, rev |-> 0, state |-> "shown"]>>
  BY Zenon DEF LogLines
<1>4. <<>> \in Seq(Message) OBVIOUS
<1> QED BY <1>2, <1>3, <1>4, Zenon

\* Only these steps touch the log and the pin.
LEMMA Logs == ASSUME Next PROVE LogStep
<1>1. ASSUME NEW c \in Conns, ReadBacklog(c) \/ Leave(c) \/ ReadEnds(c)
                                \/ Write(c) \/ WriteFails(c) \/ CloseFrame(c)
      PROVE UNCHANGED log
  BY <1>1 DEF log, ReadBacklog, Leave, ReadEnds, Write, WriteFails, CloseFrame
<1>2. ASSUME NEW c \in Conns, Join(c) PROVE Grows
  BY <1>2, LogLineTypes DEF Join, Grows
<1>3. ASSUME NEW u \in Users, Kick(u) \/ SetMute(u) \/ DeleteMute(u) PROVE UNCHANGED log
  BY <1>3 DEF log, Kick, SetMute, DeleteMute
<1>8. ASSUME NEW t \in Tabs, FreshActor(t) \/ ChatRefused(t) \/ React(t) \/ ChatTyping(t) PROVE UNCHANGED log
  BY <1>8 DEF log, FreshActor, ChatRefused, React, ChatTyping
<1>4. ASSUME NEW t \in Tabs, ChatSend(t) PROVE Grows
  <2>1. [author |-> UserOf[t], rev |-> 0, state |-> "shown"] \in Message BY ChatAssumption DEF Message
  <2>2. <<[author |-> UserOf[t], rev |-> 0, state |-> "shown"]>> \in Seq(Message) BY <2>1
  <2> QED BY <1>4, <2>2 DEF ChatSend, Grows
<1>5. ASSUME SendState PROVE UNCHANGED log BY <1>5 DEF SendState, log
<1>6. ASSUME Log PROVE Grows BY <1>6, LogLineTypes DEF Log, Grows
<1>7. ASSUME EndSession PROVE Grows BY <1>7, LogLineTypes DEF EndSession, Grows
<1> QED BY <1>1, <1>2, <1>3, <1>4, <1>5, <1>6, <1>7, <1>8 DEF Next, Command, LogStep

\* Rows added at the end leave the others where they are.
LEMMA GrownRows ==
  ASSUME NEW new \in Seq(Message), LogInv
  PROVE  /\ msgs \o new \in Seq(Message)
         /\ DOMAIN msgs = 1..Len(msgs) /\ DOMAIN (msgs \o new) = 1..Len(msgs \o new)
         /\ Len(msgs) <= Len(msgs \o new)
         /\ DOMAIN msgs \subseteq DOMAIN (msgs \o new)
         /\ \A i \in DOMAIN msgs : (msgs \o new)[i] = msgs[i]
BY DEF LogInv

\* An edit keeps the table; so does a change of state.
LEMMA EditedRows ==
  ASSUME NEW id \in DOMAIN msgs, LogInv
  PROVE  /\ [msgs EXCEPT ![id].rev = @ + 1] \in Seq(Message)
         /\ [msgs EXCEPT ![id].state = "deleted"] \in Seq(Message)
<1>1. msgs[id] \in Message BY DEF LogInv
<1>2. [msgs[id] EXCEPT !.rev = @ + 1] \in Message /\ [msgs[id] EXCEPT !.state = "deleted"] \in Message
  BY <1>1 DEF Message
<1>3. \A m \in Message : [msgs EXCEPT ![id] = m] \in Seq(Message) BY DEF LogInv
<1> QED BY <1>2, <1>3

\* The pin of an existing row is a line.
LEMMA PinType ==
  ASSUME NEW ms \in Seq(Message), NEW id \in DOMAIN ms
  PROVE  Pin(ms, id) \in Line /\ Pin(ms, id).id = id /\ Pin(ms, id).rev = ms[id].rev /\ Pin(ms, id) # None
<1>1. ms[id] \in Message /\ id \in Nat OBVIOUS
<1>2. Pin(ms, id) \in Line BY <1>1 DEF Pin, Line, Message
<1> QED BY <1>2, ChatAssumption DEF Pin, Line
\* The steps keep the rows and the pins that name them, and a pin that
\* agrees with the database goes on to agree, unless the room is loaded.
LEMMA PinStep ==
  ASSUME LogInv, [Next]_vars
  PROVE  LogInv' /\ (PinAgrees => PinAgrees' \/ Restart \/ Unload)
<1> DEFINE Goal == LogInv' /\ (PinAgrees => PinAgrees' \/ Restart \/ Unload)
<1>0. DOMAIN msgs = 1..Len(msgs) /\ Len(msgs) \in Nat BY DEF LogInv
<1>1. CASE UNCHANGED log BY <1>1 DEF LogInv, PinAgrees, log
<1>2. CASE Grows
  <2>1. PICK new \in Seq(Message) : msgs' = msgs \o new /\ UNCHANGED <<saved, pinned, untold>>
      BY <1>2 DEF Grows
  <2>2. LogInv' BY <2>1, GrownRows DEF LogInv
  <2>3. PinAgrees => PinAgrees' BY <2>1, GrownRows DEF LogInv, PinAgrees
  <2> QED BY <2>2, <2>3
<1>3. ASSUME NEW t \in Tabs, NEW id \in DOMAIN msgs, ChatEdit(t, id) PROVE Goal
  <2> DEFINE ms == [msgs EXCEPT ![id].rev = @ + 1]
  <2>1. msgs' = ms /\ Shown(id) BY <1>3 DEF ChatEdit, EditMessage
  <2>2. ms \in Seq(Message) BY EditedRows
  <2>3. DOMAIN ms = DOMAIN msgs /\ \A i \in DOMAIN msgs : i # id => ms[i] = msgs[i] BY DEF LogInv
  <2>4. ms[id].rev = msgs[id].rev + 1 /\ ms[id].state = "shown"
    <3>1. msgs[id] \in Message BY DEF LogInv
    <3> QED BY <2>1, <3>1 DEF Shown, LogInv, Message
  <2>5. saved' = saved BY <1>3 DEF ChatEdit
  <2>6. \/ pinned' = (IF Unpinned({id}) THEN Pin(ms, id) ELSE pinned) /\ untold' = untold \ {id}
        \/ pinned' = pinned /\ untold' = untold \cup {id}
      BY <1>3 DEF ChatEdit
  <2>7. Pin(ms, id) \in Line /\ Pin(ms, id).id = id /\ Pin(ms, id).rev = ms[id].rev /\ Pin(ms, id) # None
      BY <2>2, <2>3, PinType
  <2>8. Len(ms) = Len(msgs) BY <2>2, <2>3 DEF LogInv
  <2> HIDE DEF ms
  <2>9. LogInv' BY <2>1, <2>2, <2>3, <2>5, <2>6, <2>7, <2>8 DEF LogInv, Unpinned
  <2>10. PinAgrees => PinAgrees'
    <3>1. CASE pinned = None BY <3>1, <2>1, <2>5, <2>6 DEF PinAgrees, Unpinned
    <3>2. CASE pinned # None /\ pinned.id # id
      BY <3>2, <2>1, <2>3, <2>5, <2>6 DEF PinAgrees, Unpinned, LogInv
    <3>3. CASE pinned # None /\ pinned.id = id
      BY <3>3, <2>1, <2>3, <2>4, <2>5, <2>6, <2>7 DEF PinAgrees, Unpinned, LogInv, Shown
    <3> QED BY <3>1, <3>2, <3>3
  <2> QED BY <2>9, <2>10
<1>4. ASSUME NEW id \in DOMAIN msgs, ChatDelete(id) PROVE Goal
  <2> DEFINE ms == [msgs EXCEPT ![id].state = "deleted"]
  <2>1. /\ msgs' = ms /\ Shown(id) /\ saved' = (IF saved = id THEN 0 ELSE saved)
        /\ pinned' = (IF Unpinned({id}) THEN None ELSE pinned) /\ untold' = untold \ {id}
      BY <1>4 DEF ChatDelete, DeleteMessage
  <2>2. ms \in Seq(Message) BY EditedRows
  <2>3. DOMAIN ms = DOMAIN msgs /\ \A i \in DOMAIN msgs : i # id => ms[i] = msgs[i] BY DEF LogInv
  <2>4. Len(ms) = Len(msgs) BY <2>2, <2>3 DEF LogInv
  <2> HIDE DEF ms
  <2>5. LogInv' BY <2>1, <2>2, <2>3, <2>4 DEF LogInv, Unpinned
  <2>6. PinAgrees => PinAgrees' BY <2>1, <2>3 DEF PinAgrees, Unpinned, LogInv, Shown
  <2> QED BY <2>5, <2>6
<1>5. ASSUME NEW id \in DOMAIN msgs, ChatPin(id) PROVE Goal
  <2>1. PICK new \in LogLines(msgs) : msgs' = msgs \o new BY <1>5 DEF ChatPin
  <2>2. new \in Seq(Message) BY LogLineTypes
  <2>3. saved' = id /\ pinned' = Pin(msgs, id) /\ untold' = untold BY <1>5 DEF ChatPin
  <2>4. Pin(msgs, id) \in Line /\ Pin(msgs, id).id = id /\ Pin(msgs, id).rev = msgs[id].rev /\ Pin(msgs, id) # None
      BY PinType DEF LogInv
  <2>5. LogInv' BY <2>1, <2>2, <2>3, <2>4, GrownRows DEF LogInv
  <2>6. PinAgrees' BY <2>1, <2>2, <2>3, <2>4, <1>0, GrownRows DEF PinAgrees
  <2> QED BY <2>5, <2>6
<1>6. ASSUME NEW n \in DOMAIN msgs, PurgeMessagesBefore(n) PROVE Goal
  <2> DEFINE ms == [i \in DOMAIN msgs |-> IF i <= n THEN [msgs[i] EXCEPT !.state = "purged"] ELSE msgs[i]]
  <2>1. msgs' = ms /\ saved' = (IF saved <= n THEN 0 ELSE saved) /\ untold' = untold \ 1..n /\ pinned' = pinned
      BY <1>6 DEF PurgeMessagesBefore
  <2>2. DOMAIN ms = DOMAIN msgs /\ \A i \in DOMAIN msgs : i > n => ms[i] = msgs[i] BY <1>0
  <2>3. \A i \in DOMAIN msgs : msgs[i] \in Message BY DEF LogInv
  <2>4. \A i \in DOMAIN msgs : ms[i] \in Message /\ (ms[i] = msgs[i] \/ ms[i].state = "purged")
      BY <2>3 DEF Message
  <2>5. \A i \in DOMAIN msgs : i <= n => ms[i].state = "purged" BY <2>3 DEF Message
  <2>6. ms \in Seq(Message) /\ Len(ms) = Len(msgs) BY <2>4, <1>0
  <2> HIDE DEF ms
  <2>7. LogInv' BY <2>1, <2>2, <2>6, <1>0 DEF LogInv
  <2>8. PinAgrees => PinAgrees' BY <2>1, <2>2, <2>4, <2>5, <1>0 DEF PinAgrees, LogInv
  <2> QED BY <2>7, <2>8
<1>7. CASE ChatClear
  <2> DEFINE ms == ClearMessages
  <2>1. PICK new \in LogLines(ms) : msgs' = ms \o new BY <1>7 DEF ChatClear
  <2>2. saved' = 0 /\ pinned' = None /\ untold' = {} BY <1>7 DEF ChatClear
  <2>3. \A i \in DOMAIN msgs : msgs[i] \in Message BY DEF LogInv
  <2>4. ms \in Seq(Message) BY <2>3, <1>0 DEF ClearMessages, Message
  <2>5. new \in Seq(Message) BY LogLineTypes
  <2> HIDE DEF ms
  <2>6. ms \o new \in Seq(Message) BY <2>4, <2>5
  <2> QED BY <2>1, <2>2, <2>6 DEF LogInv, PinAgrees
<1>8. CASE ChatUnpin BY <1>8, <1>0 DEF ChatUnpin, LogInv, PinAgrees
<1>9. CASE Restart \/ Unload
  <2>1. pinned' \in LoadPinned /\ UNCHANGED <<msgs, saved, untold>> BY <1>9 DEF Restart, Unload
  <2>2. pinned' = None \/ (saved \in DOMAIN msgs /\ pinned' = Pin(msgs, saved))
      BY <2>1 DEF LoadPinned, Shown
  <2>3. LogInv' BY <2>1, <2>2, PinType DEF LogInv
  <2> QED BY <2>3, <1>9
<1>10. CASE UNCHANGED vars BY <1>10, <1>1 DEF vars, log
<1> QED BY <1>1, <1>2, <1>3, <1>4, <1>5, <1>6, <1>7, <1>8, <1>9, <1>10, Logs DEF LogStep

\* The empty table.
LEMMA LogInit == ASSUME Init PROVE LogInv
BY DEF Init, LogInv

\* The rows are rows, and the room and the database pin one of them.
THEOREM PinsExist == Spec => []LogInv
<1>1. Init => LogInv BY LogInit
<1>2. LogInv /\ [Next]_vars => LogInv' BY PinStep
<1> QED BY <1>1, <1>2, PTL DEF Spec

\* No command, no edit that fails half-way and no purge parts the pin of the
\* room from the one in the database (chat.go setPinnedLocked against
\* SetPinnedMessage, DeleteMessage, ClearMessages): only a load whose read of
\* the pinned message fails can.
THEOREM PinStaysSaved == Spec => PinSaved
<1>1. LogInv /\ [Next]_vars => [PinAgrees => PinAgrees' \/ Restart \/ Unload]_vars BY PinStep
<1>2. Spec => []LogInv BY PinsExist
<1> QED BY <1>1, <1>2, PTL DEF Spec, PinSaved
-----------------------------------------------------------------------------
(***************************************************************************)
(* Connections                                                             *)
(***************************************************************************)

Pins == Line \cup {None}
View == [lines: Seq(Line), from: Nat, pin: Pins]

Welcomes == [type: {"welcome"}, lines: Seq(Line), from: Nat, pin: Pins]
PinEvents == [type: {"state", "pinned"}, pin: Pins]
LineEvents == [type: {"message", "edited"}, line: Line]
Deletions == [type: {"deleted"}, id: Nat]
Signals == [type: {"cleared", "kicked", "notice"}]
Event == Welcomes \cup PinEvents \cup LineEvents \cup Deletions \cup Signals

Connection ==
    [phase: {"out", "reading", "running", "ending"}, viewer: BOOLEAN, backlog: Seq(Line), from: Nat,
     missed: SUBSET Nat, out: Seq(Event), closed: Reasons \cup {None}, written: BOOLEAN, view: View,
     told: BOOLEAN, kicked: BOOLEAN, lost: BOOLEAN]

KickedEvent == [type |-> "kicked"]

\* A kicked connection whose client is there has been told or has the
\* message in its queue, ahead of the writer's end.
Learns(k) ==
    /\ k \in Connection
    /\ k.viewer \/ k.kicked => k.phase \in {"running", "ending"}
    /\ k.written => k.closed # None
    /\ k.kicked /\ ~k.lost => k.told \/ (~k.written /\ KickedEvent \in ToSet(k.out))

ConnInv == conn \in [Conns -> Connection] /\ \A c \in Conns : Learns(conn[c])

\* The browser's store stays one, whatever event it handles.
LEMMA SeeType == ASSUME NEW v \in View, NEW e \in Event PROVE See(v, e) \in View
<1>0. v.lines \in Seq(Line) BY DEF View
<1>1. CASE e \in Welcomes BY <1>1 DEF See, View, Welcomes
<1>2. CASE e \in PinEvents BY <1>2 DEF See, View, PinEvents
<1>3. CASE e \in LineEvents
  <2>1. e.line \in Line /\ e.type \in {"message", "edited"} BY <1>3 DEF LineEvents
  <2>2. Append(v.lines, e.line) \in Seq(Line) BY <1>0, <2>1
  <2> DEFINE new == [i \in DOMAIN v.lines |-> IF v.lines[i].id = e.line.id THEN e.line ELSE v.lines[i]]
  <2>3. new \in Seq(Line)
    <3>1. DOMAIN v.lines = 1..Len(v.lines) /\ Len(v.lines) \in Nat BY <1>0
    <3>2. \A i \in DOMAIN v.lines : new[i] \in Line BY <1>0, <2>1
    <3>3. new \in [1..Len(v.lines) -> Line] BY <3>1, <3>2
    <3> HIDE DEF new
    <3> QED BY <3>1, <3>3
  <2>4. See(v, e) = [v EXCEPT !.lines = Append(v.lines, e.line)] \/ See(v, e) = [v EXCEPT !.lines = new]
      BY <2>1 DEF See
  <2> HIDE DEF new
  <2> QED BY <2>2, <2>3, <2>4 DEF View
<1>4. CASE e \in Deletions
  <2> DEFINE gone == {l \in ToSet(v.lines) : l.id = e.id}
  <2>1. e.type = "deleted" BY <1>4 DEF Deletions
  <2>2. See(v, e) = [v EXCEPT !.lines = Without(v.lines, gone)] BY <2>1 DEF See
  <2> HIDE DEF gone
  <2>3. Without(v.lines, gone) \in Seq(Line) BY <1>0, WithoutSet
  <2> QED BY <2>2, <2>3 DEF View
<1>5. CASE e \in Signals
  <2>1. e.type \in {"cleared", "kicked", "notice"} BY <1>5 DEF Signals
  <2>2. See(v, e) = v \/ See(v, e) = [v EXCEPT !.lines = <<>>] BY <2>1 DEF See
  <2>3. <<>> \in Seq(Line) OBVIOUS
  <2>4. [v EXCEPT !.lines = <<>>] \in View BY <2>3 DEF View
  <2> QED BY <2>2, <2>4
<1> QED BY <1>1, <1>2, <1>3, <1>4, <1>5 DEF Event

\* Closing keeps a kicked message that is queued.
LEMMA ClosedLearns ==
  ASSUME NEW k, Learns(k), NEW reason \in Reasons
  PROVE  Learns(Closed(k, reason)) /\ Closed(k, reason).viewer = k.viewer
         /\ Closed(k, reason).closed # None /\ Closed(k, reason).written = k.written
         /\ Closed(k, reason).lost = k.lost
         /\ (KickedEvent \in ToSet(k.out) => KickedEvent \in ToSet(Closed(k, reason).out))
<1>1. CASE k.closed # None BY <1>1 DEF Closed
<1>2. CASE k.closed = None
  <2> DEFINE out == Only(k.out, {KickedEvent})
             j == [k EXCEPT !.closed = reason, !.out = out, !.view = NoView, !.missed = {}]
  <2>1. Closed(k, reason) = j BY <1>2 DEF Closed, KickedEvent
  <2>2. k.out \in Seq(Event) BY DEF Learns, Connection
  <2>3. out \in Seq(Event) /\ ToSet(out) = ToSet(k.out) \cap {KickedEvent} BY <2>2, OnlySet
  <2>4. NoView \in View BY DEF NoView, View, Pins
  <2> HIDE DEF out
  <2>5. j \in Connection BY <2>3, <2>4 DEF Learns, Connection
  <2>6. /\ j.phase = k.phase /\ j.viewer = k.viewer /\ j.kicked = k.kicked /\ j.written = k.written
        /\ j.lost = k.lost /\ j.told = k.told /\ j.out = out /\ j.closed = reason
      BY DEF Learns, Connection
  <2> HIDE DEF j
  <2>7. reason # None BY ChatAssumption
  <2> QED BY <2>1, <2>3, <2>5, <2>6, <2>7 DEF Learns
<1> QED BY <1>1, <1>2

\* One more event in the queue.
LEMMA QueuedLearns ==
  ASSUME NEW k, Learns(k), NEW e \in Event, NEW j, j = [k EXCEPT !.out = Append(@, e)]
  PROVE  /\ Learns(j) /\ j.viewer = k.viewer /\ j.closed = k.closed /\ j.written = k.written
         /\ e \in ToSet(j.out)
<1>1. k.out \in Seq(Event) BY DEF Learns, Connection
<1>2. Append(k.out, e) \in Seq(Event) /\ ToSet(Append(k.out, e)) = ToSet(k.out) \cup {e} BY <1>1, AppendSet
<1>3. j \in Connection BY <1>2 DEF Learns, Connection
<1>4. /\ j.phase = k.phase /\ j.viewer = k.viewer /\ j.kicked = k.kicked /\ j.written = k.written
      /\ j.lost = k.lost /\ j.told = k.told /\ j.out = Append(k.out, e) /\ j.closed = k.closed
    BY DEF Learns, Connection
<1> QED BY <1>2, <1>3, <1>4 DEF Learns

\* conn.Send loses nothing that is queued.
LEMMA SendLearns ==
  ASSUME NEW k, Learns(k), NEW e \in Event, NEW j \in Send(k, e)
  PROVE  Learns(j) /\ j.viewer = k.viewer
<1>1. j = k \/ j = [k EXCEPT !.out = Append(@, e)] \/ j = Closed(k, "retry")
  BY Zenon DEF Send
<1>2. "retry" \in Reasons BY DEF Reasons
<1>3. CASE j = [k EXCEPT !.out = Append(@, e)] BY <1>3, QueuedLearns
<1>4. CASE j = Closed(k, "retry") BY <1>4, <1>2, ClosedLearns
<1> QED BY <1>1, <1>3, <1>4
\* The connections that Send may make of k.
Like(k) == {j \in Connection : Learns(j) /\ j.viewer = k.viewer}

\* The recursion of SendAll, and one turn of it.
AfterSends(k, es, f) ==
    [n \in 0..Len(es) |-> IF n = 0 THEN {k} ELSE UNION {Send(j, es[n]) : j \in f[n - 1]}]
Sends(ks, e) == UNION {Send(j, e) : j \in ks}

\* A turn stays among them.
LEMMA SendsLike ==
  ASSUME NEW k, NEW ks \in SUBSET Like(k), NEW e \in Event
  PROVE  Sends(ks, e) \in SUBSET Like(k)
<1> SUFFICES ASSUME NEW i \in ks, NEW j \in Send(i, e) PROVE j \in Like(k) BY DEF Sends
<1>1. Learns(i) /\ i.viewer = k.viewer BY DEF Like
<1>2. Learns(j) /\ j.viewer = i.viewer BY <1>1, SendLearns
<1> QED BY <1>1, <1>2 DEF Like, Learns

\* A run of SendAll: what the connection may be after each event.
SendRun(k, es, g) ==
    /\ g[0] = {k} /\ \A n \in 1..Len(es) : g[n] = Sends(g[n - 1], es[n])
    /\ \A n \in 0..Len(es) : g[n] \subseteq Like(k)

\* There is one, and SendAll is where it ends.
LEMMA SendAllRuns ==
  ASSUME NEW k, Learns(k), NEW es \in Seq(Event)
  PROVE  \E g : SendRun(k, es, g) /\ SendAll(k, es) = g[Len(es)]
<1> DEFINE D == SUBSET Like(k)
           N == Len(es)
           step == [x \in (1..N) \X D |-> Sends(x[2], es[x[1]])]
           g == CHOOSE h : h = AfterSends(k, es, h)
<1>0. N \in Nat /\ \A i \in 1..N : es[i] \in Event OBVIOUS
<1>1. SendAll(k, es) = g[N] BY DEF SendAll, AfterSends
<1>2. {k} \in D BY DEF Like, Learns
<1>3. \A i \in 1..N, ks \in D : Sends(ks, es[i]) \in D BY <1>0, SendsLike
<1>4. \A i \in 1..N, ks \in D : step[<<i, ks>>] = Sends(ks, es[i])
  <2> HIDE DEF D, N
  <2> QED OBVIOUS
<1>5. Stepping(D, N, {k}, step)
  <2> HIDE DEF D, N
  <2>1. step \in [(1..N) \X D -> D] BY <1>3
  <2> HIDE DEF step
  <2> QED BY <1>0, <1>2, <2>1 DEF Stepping
<1>6. PICK f : Good(f, D, N, {k}, step)
  <2> HIDE DEF D, N, step
  <2> QED BY <1>5, Iterate
<1>7. \E h : h = AfterSends(k, es, h)
  <2>1. ASSUME NEW n \in 0..N PROVE f[n] = AfterSends(k, es, f)[n]
    <3>1. CASE n = 0 BY <1>6, <3>1 DEF AfterSends, Good
    <3>2. CASE n # 0
      <4>1. n \in 1..N /\ n - 1 \in 0..N BY <1>0, <3>2
      <4>2. f[n - 1] \in D /\ f[n] = step[<<n, f[n - 1]>>]
        <5> HIDE DEF D, N, step
        <5> QED BY <4>1, <1>6 DEF Good
      <4>3. f[n] = Sends(f[n - 1], es[n])
        <5> HIDE DEF D, N, step
        <5> QED BY <4>1, <4>2, <1>4
      <4> QED BY <4>3, <3>2 DEF AfterSends, Sends
    <3> QED BY <3>1, <3>2
  <2>2. f = [n \in 0..N |-> f[n]]
    <3> HIDE DEF D, N, step
    <3> QED BY <1>6 DEF Good
  <2>3. AfterSends(k, es, f) = [n \in 0..N |-> AfterSends(k, es, f)[n]] BY DEF AfterSends
  <2>4. f = AfterSends(k, es, f) BY <2>1, <2>2, <2>3
  <2> QED BY <2>4
<1>8. g = AfterSends(k, es, g) BY <1>7
<1> HIDE DEF g
<1>9. g[0] = {k} BY <1>8, <1>0 DEF AfterSends
<1>10. ASSUME NEW n \in 1..N PROVE g[n] = Sends(g[n - 1], es[n])
  <2>1. n \in 0..N /\ n # 0 BY <1>0
  <2> QED BY <1>8, <2>1 DEF AfterSends, Sends
<1> DEFINE T == {m \in Nat : m <= N => g[m] \in D}
<1>11. 0 \in T
  <2> HIDE DEF D, N
  <2> QED BY <1>9, <1>2
<1>12. ASSUME NEW n \in Nat, n \in T PROVE n + 1 \in T
  <2> SUFFICES ASSUME n + 1 <= N PROVE g[n + 1] \in D OBVIOUS
  <2>1. n + 1 \in 1..N /\ n <= N /\ (n + 1) - 1 = n BY <1>0
  <2>2. g[n] \in D BY <1>12, <2>1
  <2>3. g[n + 1] = Sends(g[n], es[n + 1]) BY <1>10, <2>1
  <2> HIDE DEF D, N
  <2> QED BY <2>1, <2>2, <2>3, <1>3
<1>13. \A n \in 0..N : g[n] \in D
  <2> HIDE DEF T
  <2>1. \A n \in Nat : n \in T BY <1>11, <1>12, Induct
  <2> QED BY <2>1, <1>0 DEF T
<1> QED BY <1>1, <1>9, <1>10, <1>13 DEF SendRun

\* A run of the events through a queue loses nothing that is queued.
LEMMA SendAllLearns ==
  ASSUME NEW k, Learns(k), NEW es \in Seq(Event), NEW j \in SendAll(k, es)
  PROVE  Learns(j) /\ j.viewer = k.viewer
<1>1. PICK g : SendRun(k, es, g) /\ SendAll(k, es) = g[Len(es)] BY SendAllRuns
<1>2. Len(es) \in 0..Len(es) OBVIOUS
<1> QED BY <1>1, <1>2 DEF SendRun, Like

\* A viewer taken out of the room has the message in its queue, if the queue
\* had room.
LEMMA OutLearns ==
  ASSUME NEW k, Learns(k), k.viewer, NEW j \in Out(k)
  PROVE  Learns(j) /\ ~j.viewer /\ j.phase \in {"running", "ending"}
<1> DEFINE had == k.closed = None /\ Len(k.out) < Cap
<1>1. PICK i \in Send(k, KickedEvent) : j = [Closed(i, "kicked") EXCEPT !.viewer = FALSE, !.kicked = had]
  BY DEF Out, Sent, KickedEvent
<1>2. KickedEvent \in Event /\ "kicked" \in Reasons BY DEF KickedEvent, Event, Signals, Reasons
<1>3. Learns(i) /\ i.viewer = k.viewer BY <1>2, SendLearns
<1> DEFINE m == Closed(i, "kicked")
<1>4. /\ Learns(m) /\ m.viewer = i.viewer /\ m.written = i.written
      /\ (KickedEvent \in ToSet(i.out) => KickedEvent \in ToSet(m.out))
  BY <1>2, <1>3, ClosedLearns
<1>5. ASSUME had PROVE ~i.written /\ KickedEvent \in ToSet(i.out)
  <2>1. ~k.written BY <1>5 DEF Learns
  <2>2. Send(k, KickedEvent) = {[k EXCEPT !.out = Append(@, KickedEvent)]} BY <1>5, <2>1 DEF Send
  <2>3. i = [k EXCEPT !.out = Append(@, KickedEvent)] BY <2>2
  <2>4. i.written = k.written /\ KickedEvent \in ToSet(i.out) BY <2>3, <1>2, QueuedLearns
  <2> QED BY <2>1, <2>4
<1> HIDE DEF m, had
<1>6. m \in Connection /\ m.phase \in {"running", "ending"} BY <1>3, <1>4 DEF Learns
<1>7. j = [m EXCEPT !.viewer = FALSE, !.kicked = had] BY <1>1 DEF m
<1>8. had \in BOOLEAN BY DEF had
<1>9. j \in Connection BY <1>6, <1>7, <1>8 DEF Connection
<1>10. /\ j.phase = m.phase /\ ~j.viewer /\ j.kicked = had /\ j.written = m.written
       /\ j.lost = m.lost /\ j.told = m.told /\ j.out = m.out /\ j.closed = m.closed
  BY <1>6, <1>7 DEF Connection
<1> QED BY <1>4, <1>5, <1>6, <1>9, <1>10 DEF Learns

\* What a broadcast makes of a connection.
LEMMA HeardLearns ==
  ASSUME NEW k, Learns(k), NEW es \in Seq(Event), NEW ids \in SUBSET Nat, NEW j \in Heard(k, es, ids)
  PROVE  Learns(j)
<1>1. CASE k.viewer BY <1>1, SendAllLearns DEF Heard
<1>2. CASE ~k.viewer /\ k.phase = "reading"
  <2>1. j = [k EXCEPT !.missed = @ \cup ids] BY <1>2 DEF Heard
  <2>2. j \in Connection BY <2>1 DEF Learns, Connection
  <2>3. /\ j.phase = k.phase /\ j.viewer = k.viewer /\ j.kicked = k.kicked /\ j.written = k.written
        /\ j.lost = k.lost /\ j.told = k.told /\ j.out = k.out /\ j.closed = k.closed
    BY <2>1 DEF Learns, Connection
  <2> QED BY <2>2, <2>3 DEF Learns
<1>3. CASE ~k.viewer /\ k.phase # "reading" BY <1>3 DEF Heard
<1> QED BY <1>1, <1>2, <1>3
\* One outcome for each connection.
LEMMA EachLearns ==
  ASSUME NEW outcomes, NEW f \in Each(outcomes), \A c \in Conns : \A j \in outcomes[c] : Learns(j)
  PROVE  f \in [Conns -> Connection] /\ \A c \in Conns : Learns(f[c])
<1>1. f \in [Conns -> UNION Range(outcomes)] /\ \A c \in Conns : f[c] \in outcomes[c] BY DEF Each
<1>2. \A c \in Conns : Learns(f[c]) BY <1>1
<1>3. \A c \in Conns : f[c] \in Connection BY <1>2 DEF Learns
<1> QED BY <1>1, <1>2, <1>3

\* What is announced of new rows are events.
LEMMA AnnounceType ==
  ASSUME NEW ms \in Seq(Message), NEW new \in Seq(Message)
  PROVE  Announce(ms, new) \in Seq(Event) /\ New(ms, new) \in SUBSET Nat
<1>1. DOMAIN new = 1..Len(new) /\ Len(new) \in Nat /\ Len(ms) \in Nat OBVIOUS
<1>2. ms \o new \in Seq(Message) /\ DOMAIN (ms \o new) = 1..Len(ms) + Len(new) BY <1>1
<1>3. ASSUME NEW i \in 1..Len(new) PROVE [type |-> "message", line |-> Pin(ms \o new, Len(ms) + i)] \in Event
  <2>1. Len(ms) + i \in DOMAIN (ms \o new) BY <1>1, <1>2
  <2>2. Pin(ms \o new, Len(ms) + i) \in Line BY <1>2, <2>1, PinType
  <2> QED BY <2>2 DEF Event, LineEvents
<1> DEFINE es == [i \in DOMAIN new |-> [type |-> "message", line |-> Pin(ms \o new, Len(ms) + i)]]
<1>4. es \in [1..Len(new) -> Event] BY <1>1, <1>3
<1>5. Announce(ms, new) = es BY DEF Announce
<1>6. New(ms, new) \in SUBSET Nat BY <1>1 DEF New
<1> HIDE DEF es
<1>7. es \in Seq(Event) BY <1>1, <1>4
<1> QED BY <1>5, <1>6, <1>7

\* The other events of the room.
LEMMA EventTypes ==
  ASSUME LogInv
  PROVE  /\ <<Snapshot>> \in Seq(Event) /\ <<>> \in Seq(Event)
         /\ \A p \in Pins : PinnedTo(p) \in Seq(Event)
         /\ [type |-> "notice"] \in Event /\ [type |-> "cleared"] \in Event
<1>1. Snapshot \in Event BY DEF Snapshot, Event, PinEvents, LogInv, Pins
<1>2. ASSUME NEW p \in Pins PROVE PinnedTo(p) \in Seq(Event)
  <2>1. [type |-> "pinned", pin |-> p] \in Event BY DEF Event, PinEvents
  <2> QED BY <2>1 DEF PinnedTo
<1>3. [type |-> "notice"] \in Event /\ [type |-> "cleared"] \in Event BY DEF Event, Signals
<1> QED BY <1>1, <1>2, <1>3

\* The backlog of a newcomer is made of rows.
LEMMA BacklogType ==
  ASSUME LogInv, NEW limit \in {0, Recent}
  PROVE  ListRecentMessages(limit) \in Seq(DOMAIN msgs)
<1>1. DOMAIN msgs = 1..Len(msgs) /\ Len(msgs) \in Nat BY DEF LogInv
<1> DEFINE all == [i \in DOMAIN msgs |-> i]
<1>2. all \in [1..Len(msgs) -> DOMAIN msgs] BY <1>1
<1>3. all \in Seq(DOMAIN msgs)
  <2> HIDE DEF all
  <2> QED BY <1>1, <1>2
<1>4. Visible = Only(all, {i \in DOMAIN msgs : Shown(i)}) BY DEF Visible
<1> HIDE DEF all
<1>5. Visible \in Seq(DOMAIN msgs) BY <1>3, <1>4, OnlySet
<1>6. limit \in Nat BY ChatAssumption
<1> DEFINE v == Visible
<1>7. ListRecentMessages(limit) = (IF limit >= Len(v) THEN v ELSE SubSeq(v, Len(v) - limit + 1, Len(v)))
  BY DEF ListRecentMessages
<1>8. v \in Seq(DOMAIN msgs) BY <1>5
<1> HIDE DEF v
<1>9. CASE limit >= Len(v) BY <1>7, <1>8, <1>9
<1>10. CASE ~(limit >= Len(v))
  <2>1. Len(v) \in Nat /\ Len(v) - limit + 1 \in Int /\ Len(v) - limit + 1 >= 1 BY <1>6, <1>8, <1>10
  <2>2. SubSeq(v, Len(v) - limit + 1, Len(v)) \in Seq(DOMAIN msgs) BY <1>8, <2>1
  <2> QED BY <1>7, <1>10, <2>2
<1> QED BY <1>9, <1>10

\* A connection that has not been made knows nothing.
LEMMA BlankLearns == Blank \in Connection /\ Learns(Blank)
<1>1. NoView \in View BY DEF NoView, View, Pins
<1>2. Blank \in Connection BY <1>1 DEF Blank, Connection
<1> QED BY <1>2 DEF Blank, Learns
\* What the room sends to everyone leaves the connections as they must be.
LEMMA BroadcastLearns ==
  ASSUME ConnInv, NEW es \in Seq(Event), NEW ids \in SUBSET Nat, Broadcast(es, ids)
  PROVE  ConnInv'
<1> DEFINE outcomes == [c \in Conns |-> Heard(conn[c], es, ids)]
<1>1. conn' \in Each(outcomes) BY DEF Broadcast
<1>2. \A c \in Conns : \A j \in outcomes[c] : Learns(j) BY HeardLearns DEF ConnInv
<1> HIDE DEF outcomes
<1> QED BY <1>1, <1>2, EachLearns DEF ConnInv

\* One connection changes.
LEMMA OneLearns ==
  ASSUME ConnInv, NEW c \in Conns, NEW k, Learns(k), conn' = [conn EXCEPT ![c] = k]
  PROVE  ConnInv'
BY DEF ConnInv, Learns

\* The welcome of a newcomer, who becomes a viewer.
Welcome(k) == [type |-> "welcome", lines |-> k.backlog, from |-> k.from, pin |-> pinned]
Joined(k) ==
    [k EXCEPT !.phase = "running", !.viewer = TRUE, !.out = <<Welcome(k)>>, !.backlog = <<>>, !.from = 1]

\* It has not been kicked.
LEMMA JoinedLearns ==
  ASSUME LogInv, NEW k, Learns(k), k.phase = "reading"
  PROVE  Welcome(k) \in Event /\ Learns(Joined(k))
<1> DEFINE welcome == Welcome(k)
           in == Joined(k)
<1>1. k \in Connection BY DEF Learns
<1>2. welcome \in Event BY <1>1 DEF Welcome, Connection, Event, Welcomes, LogInv, Pins
<1>3. <<welcome>> \in Seq(Event) /\ <<>> \in Seq(Line) BY <1>2
<1> HIDE DEF welcome
<1>4. in = [k EXCEPT !.phase = "running", !.viewer = TRUE, !.out = <<welcome>>, !.backlog = <<>>, !.from = 1]
  BY DEF Joined, welcome
<1> HIDE DEF in
<1>5. in \in Connection BY <1>1, <1>3, <1>4 DEF Connection
<1>6. in.phase = "running" /\ in.kicked = k.kicked /\ in.written = k.written /\ in.closed = k.closed
  BY <1>1, <1>4 DEF Connection
<1>7. ~k.kicked BY DEF Learns
<1>8. Learns(in) BY <1>5, <1>6, <1>7 DEF Learns
<1> QED BY <1>2, <1>8 DEF welcome, in

\* The steps of a connection.
LEMMA OwnSteps ==
  ASSUME LogInv, ConnInv, NEW c \in Conns,
         ReadBacklog(c) \/ Join(c) \/ Leave(c) \/ ReadEnds(c) \/ Write(c) \/ WriteFails(c) \/ CloseFrame(c)
  PROVE  ConnInv'
<1> DEFINE k == conn[c]
<1>0. Learns(k) /\ k \in Connection BY DEF ConnInv, Learns
<1>1. CASE ReadBacklog(c)
  <2>1. PICK limit \in {0, Recent} :
          LET ids == ListRecentMessages(limit)
          IN conn' = [conn EXCEPT ![c] =
              [Blank EXCEPT !.phase = "reading",
                            !.backlog = [i \in DOMAIN ids |-> Pin(msgs, ids[i])],
                            !.from = IF limit > Len(Visible) THEN 1
                                     ELSE IF ids = <<>> THEN Len(msgs) + 1 ELSE ids[1]]]
      BY <1>1 DEF ReadBacklog
  <2> DEFINE ids == ListRecentMessages(limit)
             back == [i \in DOMAIN ids |-> Pin(msgs, ids[i])]
             from == IF limit > Len(Visible) THEN 1 ELSE IF ids = <<>> THEN Len(msgs) + 1 ELSE ids[1]
             j == [Blank EXCEPT !.phase = "reading", !.backlog = back, !.from = from]
  <2>2. conn' = [conn EXCEPT ![c] = j] BY <2>1
  <2>3. ids \in Seq(DOMAIN msgs) BY BacklogType
  <2> HIDE DEF ids
  <2>4. DOMAIN ids = 1..Len(ids) /\ Len(ids) \in Nat /\ \A i \in 1..Len(ids) : ids[i] \in DOMAIN msgs BY <2>3
  <2>5. back \in [1..Len(ids) -> Line] BY <2>4, PinType DEF LogInv
  <2>6. back \in Seq(Line)
    <3> HIDE DEF back
    <3> QED BY <2>4, <2>5
  <2>7. from \in Nat
    <3>1. Len(msgs) + 1 \in Nat /\ DOMAIN msgs \subseteq Nat BY DEF LogInv
    <3>2. ids # <<>> => ids[1] \in DOMAIN msgs BY <2>3
    <3> QED BY <3>1, <3>2
  <2> HIDE DEF back, from
  <2>8. j \in Connection /\ ~j.viewer /\ ~j.kicked /\ ~j.written
      BY <2>6, <2>7, BlankLearns DEF Connection, Blank
  <2>9. Learns(j)
    <3> HIDE DEF j
    <3> QED BY <2>8 DEF Learns
  <2> HIDE DEF j
  <2> QED BY <2>2, <2>9, OneLearns
<1>2. CASE Join(c)
  <2> DEFINE in == Joined(k)
  <2>1. PICK new \in LogLines(msgs) :
          conn' \in Each([d \in Conns |-> Heard(IF d = c THEN in ELSE conn[d], Announce(msgs, new), New(msgs, new))])
      BY <1>2 DEF Join, Joined, Welcome
  <2>2. k.phase = "reading" BY <1>2 DEF Join
  <2>3. Learns(in) BY <1>0, <2>2, JoinedLearns
  <2>4. Announce(msgs, new) \in Seq(Event) /\ New(msgs, new) \in SUBSET Nat
      BY LogLineTypes, AnnounceType DEF LogInv
  <2> DEFINE es == Announce(msgs, new)
             n == New(msgs, new)
             outcomes == [d \in Conns |-> Heard(IF d = c THEN in ELSE conn[d], es, n)]
  <2> HIDE DEF in
  <2>5. conn' \in Each(outcomes) BY <2>1
  <2>6. \A d \in Conns : \A j \in outcomes[d] : Learns(j)
    <3> HIDE DEF es, n
    <3>1. es \in Seq(Event) /\ n \in SUBSET Nat BY <2>4 DEF es, n
    <3>2. \A d \in Conns : Learns(IF d = c THEN in ELSE conn[d]) BY <2>3 DEF ConnInv
    <3> QED BY <3>1, <3>2, HeardLearns
  <2> HIDE DEF outcomes
  <2> QED BY <2>5, <2>6, EachLearns DEF ConnInv
<1>3. CASE Leave(c) BY <1>3, BlankLearns, OneLearns DEF Leave
<1>4. CASE ReadEnds(c)
  <2> DEFINE m == Closed(k, "retry")
             j == [m EXCEPT !.phase = "ending", !.lost = @ \/ ~k.written]
  <2>1. conn' = [conn EXCEPT ![c] = j] BY <1>4 DEF ReadEnds
  <2>2. Learns(m) /\ m.written = k.written
    <3>1. "retry" \in Reasons BY DEF Reasons
    <3> QED BY <1>0, <3>1, ClosedLearns
  <2>3. m \in Connection BY <2>2 DEF Learns
  <2> HIDE DEF m
  <2>4. j \in Connection BY <2>3, <1>0 DEF Connection
  <2>5. /\ j.phase = "ending" /\ j.viewer = m.viewer /\ j.kicked = m.kicked /\ j.written = m.written
        /\ j.lost = (m.lost \/ ~k.written) /\ j.told = m.told /\ j.out = m.out /\ j.closed = m.closed
      BY <2>3 DEF Connection
  <2> HIDE DEF j
  <2>6. Learns(j) BY <2>2, <2>4, <2>5 DEF Learns
  <2> QED BY <2>1, <2>6, OneLearns
<1>5. CASE Write(c)
  <2> DEFINE e == Head(k.out)
             rest == Tail(k.out)
             seen == See(k.view, e)
             j == [k EXCEPT !.out = rest, !.view = seen, !.told = @ \/ IsKicked(e)]
  <2>1. conn' = [conn EXCEPT ![c] = j] /\ ~k.written /\ k.out # <<>> BY <1>5 DEF Write
  <2>2. k.out \in Seq(Event) /\ k.view \in View BY <1>0 DEF Connection
  <2>3. e \in Event /\ rest \in Seq(Event) BY <2>1, <2>2
  <2>4. seen \in View BY <2>2, <2>3, SeeType
  <2>5. ToSet(k.out) \subseteq {e} \cup ToSet(rest)
    <3>1. Len(k.out) \in Nat /\ DOMAIN k.out = 1..Len(k.out) /\ Len(k.out) # 0 BY <2>1, <2>2
    <3>2. DOMAIN rest = 1..Len(k.out) - 1 /\ \A i \in 1..Len(k.out) - 1 : rest[i] = k.out[i + 1] BY <2>1, <2>2
    <3>3. ASSUME NEW i \in 1..Len(k.out), i # 1 PROVE k.out[i] \in ToSet(rest)
      <4>1. i - 1 \in 1..Len(k.out) - 1 /\ (i - 1) + 1 = i BY <3>1, <3>3
      <4> QED BY <4>1, <3>2 DEF ToSet
    <3>4. e = k.out[1] OBVIOUS
    <3> HIDE DEF rest, e
    <3> QED BY <3>1, <3>3, <3>4 DEF ToSet
  <2>6. e = KickedEvent => IsKicked(e) BY DEF IsKicked, KickedEvent
  <2>7. IsKicked(e) \in BOOLEAN BY DEF IsKicked
  <2> HIDE DEF rest, e, seen
  <2>8. j \in Connection BY <1>0, <2>3, <2>4, <2>7 DEF Connection
  <2>9. /\ j.phase = k.phase /\ j.viewer = k.viewer /\ j.kicked = k.kicked /\ j.written = k.written
        /\ j.lost = k.lost /\ j.told = (k.told \/ IsKicked(e)) /\ j.out = rest /\ j.closed = k.closed
      BY <1>0 DEF Connection
  <2> HIDE DEF j, k
  <2>10. Learns(j) BY <1>0, <2>1, <2>5, <2>6, <2>8, <2>9 DEF Learns
  <2> QED BY <2>1, <2>10, OneLearns
<1>6. CASE WriteFails(c)
  <2> DEFINE m == Closed(k, "retry")
             j == [m EXCEPT !.out = <<>>, !.lost = TRUE]
  <2>1. conn' = [conn EXCEPT ![c] = j] BY <1>6 DEF WriteFails
  <2>2. Learns(m)
    <3>1. "retry" \in Reasons BY DEF Reasons
    <3> QED BY <1>0, <3>1, ClosedLearns
  <2>3. m \in Connection /\ <<>> \in Seq(Event) BY <2>2 DEF Learns
  <2> HIDE DEF m
  <2>4. j \in Connection BY <2>3 DEF Connection
  <2>5. /\ j.phase = m.phase /\ j.viewer = m.viewer /\ j.kicked = m.kicked /\ j.written = m.written
        /\ j.lost /\ j.closed = m.closed
      BY <2>3 DEF Connection
  <2> HIDE DEF j
  <2>6. Learns(j) BY <2>2, <2>4, <2>5 DEF Learns
  <2> QED BY <2>1, <2>6, OneLearns
<1>7. CASE CloseFrame(c)
  <2> DEFINE j == [k EXCEPT !.written = TRUE, !.out = <<>>]
  <2>1. conn' = [conn EXCEPT ![c] = j] /\ k.closed # None /\ (k.out = <<>> \/ k.lost) BY <1>7 DEF CloseFrame
  <2>2. <<>> \in Seq(Event) /\ ToSet(<<>>) = {} BY DEF ToSet
  <2>3. j \in Connection BY <1>0, <2>2 DEF Connection
  <2>4. /\ j.phase = k.phase /\ j.viewer = k.viewer /\ j.kicked = k.kicked /\ j.written
        /\ j.lost = k.lost /\ j.told = k.told /\ j.closed = k.closed
      BY <1>0 DEF Connection
  <2> HIDE DEF j, k
  <2>5. Learns(j) BY <1>0, <2>1, <2>2, <2>3, <2>4 DEF Learns
  <2> QED BY <2>1, <2>5, OneLearns
<1> QED BY <1>1, <1>2, <1>3, <1>4, <1>5, <1>6, <1>7
\* What the room does to its connections.
LEMMA RoomSteps ==
  ASSUME LogInv, ConnInv,
         \/ \E u \in Users : Kick(u)
         \/ \E t \in Tabs : ChatSend(t) \/ React(t) \/ ChatTyping(t)
         \/ Log \/ EndSession \/ SendState
  PROVE  ConnInv'
<1>1. ASSUME NEW u \in Users, Kick(u) PROVE ConnInv'
  <2> DEFINE outcomes == [c \in Conns |-> IF conn[c].viewer /\ UserOf[c] = u THEN Out(conn[c])
                                          ELSE Heard(conn[c], <<Snapshot>>, {})]
  <2>1. conn' \in Each(outcomes) BY <1>1 DEF Kick
  <2>2. <<Snapshot>> \in Seq(Event) /\ {} \in SUBSET Nat BY EventTypes
  <2>3. \A c \in Conns : \A j \in outcomes[c] : Learns(j) BY <2>2, HeardLearns, OutLearns DEF ConnInv
  <2> HIDE DEF outcomes
  <2> QED BY <2>1, <2>3, EachLearns DEF ConnInv
<1>2. ASSUME NEW t \in Tabs, ChatSend(t) PROVE ConnInv'
  <2> DEFINE new == <<[author |-> UserOf[t], rev |-> 0, state |-> "shown"]>>
  <2>1. Broadcast(Announce(msgs, new), New(msgs, new)) BY <1>2 DEF ChatSend
  <2>2. [author |-> UserOf[t], rev |-> 0, state |-> "shown"] \in Message BY ChatAssumption DEF Message
  <2>3. new \in Seq(Message) BY <2>2
  <2> HIDE DEF new
  <2>4. Announce(msgs, new) \in Seq(Event) /\ New(msgs, new) \in SUBSET Nat BY <2>3, AnnounceType DEF LogInv
  <2> QED BY <2>1, <2>4, BroadcastLearns
<1>3. ASSUME NEW t \in Tabs, React(t) PROVE ConnInv'
  <2>1. <<[type |-> "notice"]>> \in Seq(Event) BY EventTypes
  <2>2. Broadcast(<<[type |-> "notice"]>>, {}) BY <1>3 DEF React
  <2>3. {} \in SUBSET Nat OBVIOUS
  <2> QED BY <2>1, <2>2, <2>3, BroadcastLearns
<1>4. ASSUME NEW t \in Tabs, ChatTyping(t) PROVE ConnInv'
  <2> DEFINE outcomes == [c \in Conns |-> IF conn[c].viewer /\ UserOf[c] # UserOf[t]
                                            THEN Send(conn[c], [type |-> "notice"]) ELSE {conn[c]}]
  <2>1. conn' \in Each(outcomes) BY <1>4 DEF ChatTyping
  <2>2. \A c \in Conns : \A j \in outcomes[c] : Learns(j) BY EventTypes, SendLearns DEF ConnInv
  <2> HIDE DEF outcomes
  <2> QED BY <2>1, <2>2, EachLearns DEF ConnInv
<1>5. ASSUME Log PROVE ConnInv'
  <2>1. PICK new \in LogLines(msgs) : Broadcast(Announce(msgs, new), New(msgs, new)) BY <1>5 DEF Log
  <2>2. Announce(msgs, new) \in Seq(Event) /\ New(msgs, new) \in SUBSET Nat
      BY LogLineTypes, AnnounceType DEF LogInv
  <2> QED BY <2>1, <2>2, BroadcastLearns
<1>6. ASSUME EndSession PROVE ConnInv'
  <2>1. PICK new \in LogLines(msgs) :
          conn' \in Each([c \in Conns |->
              IF conn[c].viewer THEN UNION {Out(j) : j \in SendAll(conn[c], Announce(msgs, new))}
              ELSE Heard(conn[c], <<>>, New(msgs, new))])
      BY <1>6 DEF EndSession
  <2>2. Announce(msgs, new) \in Seq(Event) /\ New(msgs, new) \in SUBSET Nat
      BY LogLineTypes, AnnounceType DEF LogInv
  <2> DEFINE es == Announce(msgs, new)
             n == New(msgs, new)
             outcomes == [c \in Conns |-> IF conn[c].viewer THEN UNION {Out(j) : j \in SendAll(conn[c], es)}
                                          ELSE Heard(conn[c], <<>>, n)]
  <2>3. conn' \in Each(outcomes) BY <2>1
  <2>4. ASSUME NEW c \in Conns, NEW i \in outcomes[c] PROVE Learns(i)
    <3> HIDE DEF es, n
    <3>1. es \in Seq(Event) /\ n \in SUBSET Nat /\ <<>> \in Seq(Event) BY <2>2 DEF es, n
    <3>2. Learns(conn[c]) BY DEF ConnInv
    <3>3. CASE conn[c].viewer
      <4>1. PICK j \in SendAll(conn[c], es) : i \in Out(j) BY <3>3, <2>4
      <4>2. Learns(j) /\ j.viewer = conn[c].viewer BY <3>1, <3>2, SendAllLearns
      <4> QED BY <3>3, <4>1, <4>2, OutLearns
    <3>4. CASE ~conn[c].viewer BY <3>1, <3>2, <3>4, <2>4, HeardLearns
    <3> QED BY <3>3, <3>4
  <2> HIDE DEF outcomes
  <2> QED BY <2>3, <2>4, EachLearns DEF ConnInv
<1>7. ASSUME SendState PROVE ConnInv' BY <1>7, EventTypes, BroadcastLearns DEF SendState
<1> QED BY <1>1, <1>2, <1>3, <1>4, <1>5, <1>6, <1>7

\* The chat commands that are announced.
LEMMA ChatSteps ==
  ASSUME LogInv, ConnInv,
         \/ \E t \in Tabs, id \in DOMAIN msgs : ChatEdit(t, id)
         \/ \E id \in DOMAIN msgs : ChatDelete(id) \/ ChatPin(id)
         \/ ChatClear \/ ChatUnpin
  PROVE  ConnInv'
<1>0. /\ DOMAIN msgs \subseteq Nat /\ None \in Pins /\ Line \subseteq Pins
      /\ \A p \in Pins : PinnedTo(p) \in Seq(Event)
      /\ \A s \in Seq(Event), z \in Seq(Event) : s \o z \in Seq(Event)
  BY EventTypes DEF LogInv, Pins
<1>1. ASSUME NEW t \in Tabs, NEW id \in DOMAIN msgs, ChatEdit(t, id) PROVE ConnInv'
  <2> DEFINE ms == [msgs EXCEPT ![id].rev = @ + 1]
             edited == <<[type |-> "edited", line |-> Pin(ms, id)]>>
             es == IF Unpinned({id}) THEN edited \o PinnedTo(Pin(ms, id)) ELSE edited
  <2>1. Broadcast(es, {id}) \/ conn' = conn BY <1>1 DEF ChatEdit
  <2>2. ms \in Seq(Message) /\ id \in DOMAIN ms BY EditedRows DEF LogInv
  <2> HIDE DEF ms
  <2>3. Pin(ms, id) \in Line BY <2>2, PinType
  <2>4. [type |-> "edited", line |-> Pin(ms, id)] \in Event BY <2>3 DEF Event, LineEvents
  <2>5. edited \in Seq(Event) BY <2>4
  <2> HIDE DEF edited
  <2>6. es \in Seq(Event) BY <1>0, <2>3, <2>5
  <2> HIDE DEF es
  <2>7. {id} \in SUBSET Nat BY <1>0
  <2>8. CASE conn' = conn BY <2>8 DEF ConnInv
  <2> QED BY <2>1, <2>6, <2>7, <2>8, BroadcastLearns
<1>2. ASSUME NEW id \in DOMAIN msgs, ChatDelete(id) PROVE ConnInv'
  <2> DEFINE deleted == <<[type |-> "deleted", id |-> id]>>
             es == IF Unpinned({id}) THEN deleted \o PinnedTo(None) ELSE deleted
  <2>1. Broadcast(es, {id}) BY <1>2 DEF ChatDelete
  <2>2. [type |-> "deleted", id |-> id] \in Event BY <1>0 DEF Event, Deletions
  <2>3. deleted \in Seq(Event) BY <2>2
  <2> HIDE DEF deleted
  <2>4. es \in Seq(Event) BY <1>0, <2>3
  <2> HIDE DEF es
  <2>5. {id} \in SUBSET Nat BY <1>0
  <2> QED BY <2>1, <2>4, <2>5, BroadcastLearns
<1>3. ASSUME NEW id \in DOMAIN msgs, ChatPin(id) PROVE ConnInv'
  <2>1. PICK new \in LogLines(msgs) :
          Broadcast(PinnedTo(Pin(msgs, id)) \o Announce(msgs, new), New(msgs, new)) BY <1>3 DEF ChatPin
  <2>2. Announce(msgs, new) \in Seq(Event) /\ New(msgs, new) \in SUBSET Nat
      BY LogLineTypes, AnnounceType DEF LogInv
  <2>3. Pin(msgs, id) \in Pins BY PinType, <1>0 DEF LogInv
  <2>4. PinnedTo(Pin(msgs, id)) \o Announce(msgs, new) \in Seq(Event) BY <1>0, <2>2, <2>3
  <2> QED BY <2>1, <2>2, <2>4, BroadcastLearns
<1>4. ASSUME ChatClear PROVE ConnInv'
  <2> DEFINE ms == ClearMessages
             signal == <<[type |-> "cleared"]>>
             cleared == signal \o IF pinned # None THEN PinnedTo(None) ELSE <<>>
  <2>1. PICK new \in LogLines(ms) :
          Broadcast(cleared \o Announce(ms, new), DOMAIN msgs \cup New(ms, new)) BY <1>4 DEF ChatClear
  <2>2. ms \in Seq(Message)
    <3>1. \A i \in DOMAIN msgs : msgs[i] \in Message BY DEF LogInv
    <3>2. DOMAIN msgs = 1..Len(msgs) /\ Len(msgs) \in Nat BY DEF LogInv
    <3> QED BY <3>1, <3>2 DEF ClearMessages, Message
  <2> HIDE DEF ms
  <2>3. Announce(ms, new) \in Seq(Event) /\ New(ms, new) \in SUBSET Nat
      BY <2>2, LogLineTypes, AnnounceType
  <2>4. signal \in Seq(Event) /\ <<>> \in Seq(Event) BY EventTypes
  <2> HIDE DEF signal
  <2>5. cleared \in Seq(Event) BY <1>0, <2>4
  <2> HIDE DEF cleared
  <2>6. cleared \o Announce(ms, new) \in Seq(Event) BY <1>0, <2>3, <2>5
  <2>7. DOMAIN msgs \cup New(ms, new) \in SUBSET Nat BY <1>0, <2>3
  <2> QED BY <2>1, <2>6, <2>7, BroadcastLearns
<1>5. ASSUME ChatUnpin PROVE ConnInv'
  <2>1. Broadcast(PinnedTo(None), {}) BY <1>5 DEF ChatUnpin
  <2>2. PinnedTo(None) \in Seq(Event) /\ {} \in SUBSET Nat BY <1>0
  <2> QED BY <2>1, <2>2, BroadcastLearns
<1> QED BY <1>1, <1>2, <1>3, <1>4, <1>5

\* Every step keeps the connections as they must be.
LEMMA ConnStep == ASSUME LogInv, ConnInv, [Next]_vars PROVE ConnInv'
<1>1. ASSUME conn' = conn PROVE ConnInv' BY <1>1 DEF ConnInv
<1>2. ASSUME NEW u \in Users, SetMute(u) \/ DeleteMute(u) PROVE ConnInv'
  BY <1>2, <1>1 DEF SetMute, DeleteMute
<1>7. ASSUME NEW t \in Tabs, FreshActor(t) \/ ChatRefused(t) PROVE ConnInv'
  BY <1>7, <1>1 DEF FreshActor, ChatRefused
<1>3. ASSUME NEW id \in DOMAIN msgs, PurgeMessagesBefore(id) PROVE ConnInv'
  BY <1>3, <1>1 DEF PurgeMessagesBefore
<1>4. ASSUME Restart PROVE ConnInv' BY <1>4, BlankLearns DEF Restart, ConnInv
<1>5. ASSUME Unload PROVE ConnInv'
  <2>1. PICK reason \in Reasons :
          conn' = [c \in Conns |-> IF conn[c].viewer THEN [Closed(conn[c], reason) EXCEPT !.viewer = FALSE]
                                   ELSE conn[c]]
      BY <1>5 DEF Unload
  <2>2. ASSUME NEW c \in Conns PROVE Learns(conn'[c])
    <3> DEFINE k == conn[c]
               m == Closed(k, reason)
               j == [m EXCEPT !.viewer = FALSE]
    <3>1. Learns(k) /\ reason \in Reasons BY DEF ConnInv, Reasons
    <3>2. Learns(m) BY <3>1, ClosedLearns
    <3>3. m \in Connection BY <3>2 DEF Learns
    <3>4. conn'[c] = (IF k.viewer THEN j ELSE k) BY <2>1
    <3> HIDE DEF m
    <3>5. j \in Connection BY <3>3 DEF Connection
    <3>6. /\ j.phase = m.phase /\ ~j.viewer /\ j.kicked = m.kicked /\ j.written = m.written
          /\ j.lost = m.lost /\ j.told = m.told /\ j.out = m.out /\ j.closed = m.closed
        BY <3>3 DEF Connection
    <3> HIDE DEF j
    <3>7. Learns(j) BY <3>2, <3>5, <3>6 DEF Learns
    <3> QED BY <3>1, <3>4, <3>7
  <2> QED BY <2>1, <2>2 DEF ConnInv, Learns
<1>6. ASSUME UNCHANGED vars PROVE ConnInv' BY <1>6, <1>1 DEF vars
<1> QED BY <1>2, <1>3, <1>4, <1>5, <1>6, <1>7, OwnSteps, RoomSteps, ChatSteps DEF Next, Command

\* No connection has been made.
LEMMA ConnInit == ASSUME Init PROVE ConnInv
BY BlankLearns DEF Init, ConnInv

\* A viewer kicked while their queue had room is told why before the socket
\* is closed, however sends, closes, failed writes and the end of the reader
\* interleave with the kick (hub.go flush: "so a kicked client learns why"),
\* unless a write failed or the client was gone.
THEOREM KickedAreTold == Spec => []KickedLearns
<1>1. Init => ConnInv BY ConnInit
<1>2. LogInv /\ ConnInv /\ [Next]_vars => ConnInv' BY ConnStep
<1>3. ConnInv => KickedLearns BY DEF ConnInv, Learns, KickedLearns
<1>4. Spec => []LogInv BY PinsExist
<1> QED BY <1>1, <1>2, <1>3, <1>4, PTL DEF Spec
-----------------------------------------------------------------------------
(***************************************************************************)
(* What a browser has read                                                 *)
(***************************************************************************)

\* The recursion of Reads, and a reading of es: the stores it passes through.
Stores(v, es, f) == [n \in 0..Len(es) |-> IF n = 0 THEN v ELSE See(f[n - 1], es[n])]
Reading(v, es, f) == f[0] = v /\ \A i \in 1..Len(es) : f[i] = See(f[i - 1], es[i])

\* There is a reading ...
LEMMA SomeReading ==
  ASSUME NEW v \in View, NEW es \in Seq(Event)
  PROVE  \E f : f \in [0..Len(es) -> View] /\ Reading(v, es, f)
<1> DEFINE N == Len(es)
           step == [x \in (1..N) \X View |-> See(x[2], es[x[1]])]
<1>0. N \in Nat /\ \A i \in 1..N : es[i] \in Event OBVIOUS
<1>1. \A i \in 1..N, w \in View : step[<<i, w>>] = See(w, es[i])
  <2> HIDE DEF N
  <2> QED OBVIOUS
<1>2. \A i \in 1..N, w \in View : See(w, es[i]) \in View BY <1>0, SeeType
<1>3. Stepping(View, N, v, step)
  <2> HIDE DEF N
  <2>1. step \in [(1..N) \X View -> View] BY <1>2
  <2> HIDE DEF step
  <2> QED BY <1>0, <2>1 DEF Stepping
<1> HIDE DEF step
<1>4. PICK f : Good(f, View, N, v, step)
  <2> HIDE DEF N
  <2> QED BY <1>3, Iterate
<1>5. f \in [0..N -> View] /\ f[0] = v BY <1>4 DEF Good
<1>6. ASSUME NEW i \in 1..N PROVE f[i] = See(f[i - 1], es[i])
  <2>1. i - 1 \in 0..N BY <1>0
  <2>2. f[i - 1] \in View BY <1>5, <2>1
  <2>3. f[i] = step[<<i, f[i - 1]>>] BY <1>4 DEF Good
  <2> QED BY <1>1, <2>2, <2>3
<1> QED BY <1>5, <1>6 DEF Reading

\* ... which solves the equation of the recursion ...
LEMMA ReadingStores ==
  ASSUME NEW v \in View, NEW es \in Seq(Event), NEW f, f \in [0..Len(es) -> View], Reading(v, es, f)
  PROVE  f = Stores(v, es, f)
<1>1. Len(es) \in Nat OBVIOUS
<1>2. ASSUME NEW n \in 0..Len(es) PROVE f[n] = Stores(v, es, f)[n]
  <2>1. CASE n = 0 BY <2>1 DEF Reading, Stores
  <2>2. CASE n # 0
    <3>1. n \in 1..Len(es) BY <1>1, <2>2
    <3> QED BY <3>1, <2>2 DEF Reading, Stores
  <2> QED BY <2>1, <2>2
<1>3. Stores(v, es, f) = [n \in 0..Len(es) |-> Stores(v, es, f)[n]] BY DEF Stores
<1> QED BY <1>2, <1>3

\* ... and Reads is where a reading ends.
LEMMA ReadsEnd ==
  ASSUME NEW v \in View, NEW es \in Seq(Event)
  PROVE  \E f : f \in [0..Len(es) -> View] /\ Reading(v, es, f) /\ Reads(v, es) = f[Len(es)]
<1> DEFINE g == CHOOSE h : h = Stores(v, es, h)
<1>0. Len(es) \in Nat /\ \A i \in 1..Len(es) : es[i] \in Event OBVIOUS
<1>1. Reads(v, es) = g[Len(es)] BY DEF Reads, Stores
<1>2. \E f : f = Stores(v, es, f)
  <2>1. PICK f : f \in [0..Len(es) -> View] /\ Reading(v, es, f) BY SomeReading
  <2>2. f = Stores(v, es, f) BY <2>1, ReadingStores
  <2> QED BY <2>2
<1>3. g = Stores(v, es, g) BY <1>2
<1> HIDE DEF g
<1>4. g[0] = v BY <1>0, <1>3 DEF Stores
<1>5. ASSUME NEW n \in 1..Len(es) PROVE g[n] = See(g[n - 1], es[n])
  <2>1. n \in 0..Len(es) /\ n # 0 BY <1>0
  <2> QED BY <1>3, <2>1 DEF Stores
<1> DEFINE T == {m \in Nat : m <= Len(es) => g[m] \in View}
<1>6. 0 \in T BY <1>4
<1>7. ASSUME NEW n \in Nat, n \in T PROVE n + 1 \in T
  <2> SUFFICES ASSUME n + 1 <= Len(es) PROVE g[n + 1] \in View OBVIOUS
  <2>1. n + 1 \in 1..Len(es) /\ n <= Len(es) /\ (n + 1) - 1 = n BY <1>0
  <2>2. g[n] \in View /\ es[n + 1] \in Event BY <1>0, <1>7, <2>1
  <2>3. g[n + 1] = See(g[n], es[n + 1]) BY <1>5, <2>1
  <2> QED BY <2>2, <2>3, SeeType
<1>8. \A n \in 0..Len(es) : g[n] \in View
  <2> HIDE DEF T
  <2>1. \A n \in Nat : n \in T BY <1>6, <1>7, Induct
  <2> QED BY <1>0, <2>1 DEF T
<1>9. g \in [0..Len(es) -> View]
  <2>1. g = [n \in 0..Len(es) |-> g[n]] BY <1>3 DEF Stores
  <2> QED BY <1>8, <2>1
<1> QED BY <1>1, <1>4, <1>5, <1>9 DEF Reading

\* What has been read of two runs of events is what is read of the second
\* after the first.
LEMMA ReadsConcat ==
  ASSUME NEW v \in View, NEW s \in Seq(Event), NEW t \in Seq(Event)
  PROVE  Reads(v, s) \in View /\ Reads(v, s \o t) = Reads(Reads(v, s), t)
<1> DEFINE m == Len(s)
           n == Len(t)
           u == s \o t
<1>0. m \in Nat /\ n \in Nat /\ u \in Seq(Event) /\ Len(u) = m + n OBVIOUS
<1>1. (\A i \in 1..m : u[i] = s[i]) /\ \A i \in 1..n : u[m + i] = t[i] OBVIOUS
<1>2. PICK f : f \in [0..m -> View] /\ Reading(v, s, f) /\ Reads(v, s) = f[m] BY ReadsEnd
<1>3. Reads(v, s) \in View BY <1>0, <1>2
<1>4. PICK g : g \in [0..n -> View] /\ Reading(Reads(v, s), t, g) /\ Reads(Reads(v, s), t) = g[n]
  BY <1>3, ReadsEnd
<1>5. PICK h : h \in [0..(m + n) -> View] /\ Reading(v, u, h) /\ Reads(v, u) = h[m + n] BY <1>0, ReadsEnd
<1>6. f[0] = v /\ \A i \in 1..m : f[i] = See(f[i - 1], s[i]) BY <1>2 DEF Reading
<1>7. g[0] = f[m] /\ \A i \in 1..n : g[i] = See(g[i - 1], t[i]) BY <1>2, <1>4 DEF Reading
<1>8. h[0] = v /\ \A i \in 1..m + n : h[i] = See(h[i - 1], u[i]) BY <1>0, <1>5 DEF Reading
<1> HIDE DEF m, n, u
<1>9. h[m] = f[m]
  <2> DEFINE T == {i \in Nat : i <= m => h[i] = f[i]}
  <2>1. 0 \in T BY <1>6, <1>8
  <2>2. ASSUME NEW i \in Nat, i \in T PROVE i + 1 \in T
    <3> SUFFICES ASSUME i + 1 <= m PROVE h[i + 1] = f[i + 1] OBVIOUS
    <3>1. i + 1 \in 1..m /\ i + 1 \in 1..m + n /\ (i + 1) - 1 = i /\ i <= m BY <1>0
    <3>2. h[i] = f[i] BY <2>2, <3>1
    <3>3. h[i + 1] = See(h[i], u[i + 1]) /\ f[i + 1] = See(f[i], s[i + 1]) BY <1>6, <1>8, <3>1
    <3> QED BY <1>1, <3>1, <3>2, <3>3
  <2> HIDE DEF T
  <2>3. \A i \in Nat : i \in T BY <2>1, <2>2, Induct
  <2> QED BY <1>0, <2>3 DEF T
<1>10. h[m + n] = g[n]
  <2> DEFINE T == {i \in Nat : i <= n => h[m + i] = g[i]}
  <2>1. 0 \in T BY <1>0, <1>7, <1>9
  <2>2. ASSUME NEW i \in Nat, i \in T PROVE i + 1 \in T
    <3> SUFFICES ASSUME i + 1 <= n PROVE h[m + (i + 1)] = g[i + 1] OBVIOUS
    <3>1. /\ i + 1 \in 1..n /\ m + (i + 1) \in 1..m + n /\ (i + 1) - 1 = i /\ i <= n
          /\ (m + (i + 1)) - 1 = m + i
      BY <1>0
    <3>2. h[m + i] = g[i] BY <2>2, <3>1
    <3>3. h[m + (i + 1)] = See(h[m + i], u[m + (i + 1)]) BY <1>8, <3>1
    <3>4. g[i + 1] = See(g[i], t[i + 1]) /\ u[m + (i + 1)] = t[i + 1] BY <1>1, <1>7, <3>1
    <3> QED BY <3>2, <3>3, <3>4
  <2> HIDE DEF T
  <2>3. \A i \in Nat : i \in T BY <2>1, <2>2, Induct
  <2> QED BY <1>0, <2>3 DEF T
<1> QED BY <1>3, <1>4, <1>5, <1>10 DEF u

\* Nothing and one event.
LEMMA ReadsShort ==
  ASSUME NEW v \in View, NEW e \in Event
  PROVE  Reads(v, <<>>) = v /\ Reads(v, <<e>>) = See(v, e)
<1>1. <<>> \in Seq(Event) /\ <<e>> \in Seq(Event) /\ Len(<<>>) = 0 /\ Len(<<e>>) = 1 /\ <<e>>[1] = e OBVIOUS
<1>2. Reads(v, <<>>) = v
  <2>1. PICK f : Reading(v, <<>>, f) /\ Reads(v, <<>>) = f[0] BY <1>1, ReadsEnd
  <2> QED BY <2>1 DEF Reading
<1>3. Reads(v, <<e>>) = See(v, e)
  <2>1. PICK f : Reading(v, <<e>>, f) /\ Reads(v, <<e>>) = f[1] BY <1>1, ReadsEnd
  <2>2. 1 \in 1..1 /\ 1 - 1 = 0 OBVIOUS
  <2> QED BY <1>1, <2>1, <2>2 DEF Reading
<1> QED BY <1>2, <1>3

\* One event arrives, the rest is still queued.
LEMMA ReadsNext ==
  ASSUME NEW v \in View, NEW s \in Seq(Event), s # <<>>
  PROVE  Reads(See(v, Head(s)), Tail(s)) = Reads(v, s)
<1>1. Head(s) \in Event /\ Tail(s) \in Seq(Event) /\ s = <<Head(s)>> \o Tail(s) OBVIOUS
<1>2. <<Head(s)>> \in Seq(Event) BY <1>1
<1>3. Reads(v, <<Head(s)>> \o Tail(s)) = Reads(Reads(v, <<Head(s)>>), Tail(s)) BY <1>1, <1>2, ReadsConcat
<1> QED BY <1>1, <1>3, ReadsShort

-----------------------------------------------------------------------------
(***************************************************************************)
(* What reaches a viewer                                                   *)
(***************************************************************************)

\* What the room has to show.
Table == [msgs: Seq(Message), untold: SUBSET Nat, pinned: Pins]
Now == [msgs |-> msgs, untold |-> untold, pinned |-> pinned]

\* Lines in the order of their messages.
Older == {x \in Line \X Line : x[1].id < x[2].id}

\* Those shown that are not missed are the messages of r, with their latest
\* text, and none of them from the first on is left out.
Follows(r, lines, from, missed) ==
    /\ from <= Len(r.msgs) + 1
    /\ Ordered(lines, Older)
    /\ \A l \in ToSet(lines) :
         /\ l.id \in DOMAIN r.msgs
         /\ l.id \notin missed /\ r.msgs[l.id].state # "purged" =>
              /\ r.msgs[l.id].state = "shown" /\ l.id >= from
              /\ l.id \notin r.untold => l = Pin(r.msgs, l.id)
    /\ \A i \in DOMAIN r.msgs : r.msgs[i].state = "shown" /\ i >= from /\ i \notin missed =>
         \E l \in ToSet(lines) : l.id = i

\* A store that shows r.
Shows(r, v, missed) == Follows(r, v.lines, v.from, missed) /\ v.pin = r.pinned

\* Every viewer of r that reads es shows s, and so does a newcomer that is
\* excused the messages ids.
Serves(r, s, es, ids) ==
    /\ \A v \in View, missed \in SUBSET Nat : Shows(r, v, missed) => Shows(s, Reads(v, es), missed)
    /\ \A lines \in Seq(Line), from \in Nat, missed \in SUBSET Nat :
         Follows(r, lines, from, missed) => Follows(s, lines, from, missed \cup ids)

\* A connection will show r: a newcomer by its backlog, a viewer once it has
\* read its queue.
Fed(k, r) ==
    /\ k.phase = "reading" => k.out = <<>> /\ Follows(r, k.backlog, k.from, k.missed)
    /\ k.viewer /\ k.closed = None => Shows(r, Reads(k.view, k.out), k.missed)

FedInv == \A c \in Conns : Fed(conn[c], Now)

\* One change after the other.
LEMMA ServesBoth ==
  ASSUME NEW r, NEW s, NEW t, NEW es \in Seq(Event), NEW fs \in Seq(Event), NEW ids \in SUBSET Nat, NEW jds,
         Serves(r, s, es, ids), Serves(s, t, fs, jds)
  PROVE  Serves(r, t, es \o fs, ids \cup jds)
<1>1. ASSUME NEW v \in View, NEW missed \in SUBSET Nat, Shows(r, v, missed)
      PROVE  Shows(t, Reads(v, es \o fs), missed)
  <2>1. Reads(v, es) \in View /\ Reads(v, es \o fs) = Reads(Reads(v, es), fs) BY ReadsConcat
  <2>2. Shows(s, Reads(v, es), missed) BY <1>1 DEF Serves
  <2>3. Shows(t, Reads(Reads(v, es), fs), missed) BY <2>1, <2>2 DEF Serves
  <2> QED BY <2>1, <2>3
<1>2. ASSUME NEW lines \in Seq(Line), NEW from \in Nat, NEW missed \in SUBSET Nat, Follows(r, lines, from, missed)
      PROVE  Follows(t, lines, from, missed \cup (ids \cup jds))
  <2>1. missed \cup ids \in SUBSET Nat OBVIOUS
  <2>2. Follows(s, lines, from, missed \cup ids) BY <1>2 DEF Serves
  <2>3. Follows(t, lines, from, (missed \cup ids) \cup jds) BY <2>1, <2>2 DEF Serves
  <2>4. (missed \cup ids) \cup jds = missed \cup (ids \cup jds) OBVIOUS
  <2> QED BY <2>3, <2>4
<1> QED BY <1>1, <1>2 DEF Serves

\* What Send keeps open it has queued.
LEMMA SendOpen ==
  ASSUME NEW k, Learns(k), NEW e \in Event, NEW j \in Send(k, e), j.closed = None
  PROVE  k.closed = None /\ j = [k EXCEPT !.out = Append(@, e)]
<1>1. k.closed = None
  <2> SUFFICES ASSUME k.closed # None PROVE FALSE OBVIOUS
  <2>1. j = k \/ j = [k EXCEPT !.out = Append(@, e)] BY Zenon DEF Send
  <2>2. j.closed = k.closed BY <2>1 DEF Learns, Connection
  <2> QED BY <2>2
<1>2. ~k.written BY <1>1 DEF Learns
<1>3. j = [k EXCEPT !.out = Append(@, e)] \/ j = Closed(k, "retry") BY <1>1, <1>2, Zenon DEF Send
<1>4. "retry" \in Reasons BY DEF Reasons
<1>5. Closed(k, "retry").closed # None BY <1>4, ClosedLearns
<1> QED BY <1>1, <1>3, <1>5

\* The queue of an open connection, with es at its end.
Queued(k, j, es) == j.closed = None => k.closed = None /\ j = [k EXCEPT !.out = @ \o es]

\* What SendAll keeps open has all the events queued.
LEMMA SendAllOpen ==
  ASSUME NEW k, Learns(k), NEW es \in Seq(Event), NEW j \in SendAll(k, es)
  PROVE  Queued(k, j, es)
<1>0. k.out \in Seq(Event) /\ k \in Connection BY DEF Learns, Connection
<1>1. PICK g : SendRun(k, es, g) /\ SendAll(k, es) = g[Len(es)] BY SendAllRuns
<1>2. Len(es) \in Nat /\ \A i \in 1..Len(es) : es[i] \in Event OBVIOUS
<1> DEFINE T == {m \in Nat : m <= Len(es) => \A i \in g[m] : Queued(k, i, SubSeq(es, 1, m))}
<1>3. 0 \in T
  <2>1. g[0] = {k} BY <1>1 DEF SendRun
  <2>2. SubSeq(es, 1, 0) = <<>> OBVIOUS
  <2>3. k.out \o <<>> = k.out BY <1>0
  <2>4. k = [k EXCEPT !.out = @ \o <<>>] BY <1>0, <2>3 DEF Connection
  <2> QED BY <2>1, <2>2, <2>4 DEF Queued
<1>4. ASSUME NEW n \in Nat, n \in T PROVE n + 1 \in T
  <2> SUFFICES ASSUME n + 1 <= Len(es), NEW i \in g[n + 1], i.closed = None
               PROVE  k.closed = None /\ i = [k EXCEPT !.out = @ \o SubSeq(es, 1, n + 1)]
      BY DEF Queued
  <2>1. n + 1 \in 1..Len(es) /\ n \in 0..Len(es) /\ n <= Len(es) /\ (n + 1) - 1 = n BY <1>2
  <2>2. g[n + 1] = Sends(g[n], es[n + 1]) /\ g[n] \subseteq Like(k) BY <1>1, <2>1 DEF SendRun
  <2>3. PICK h \in g[n] : i \in Send(h, es[n + 1]) BY <2>2 DEF Sends
  <2>4. Learns(h) /\ es[n + 1] \in Event BY <1>2, <2>1, <2>2 DEF Like
  <2>5. h.closed = None /\ i = [h EXCEPT !.out = Append(@, es[n + 1])] BY <2>3, <2>4, SendOpen
  <2> DEFINE part == SubSeq(es, 1, n)
  <2>6. k.closed = None /\ h = [k EXCEPT !.out = @ \o part] BY <1>4, <2>1, <2>3, <2>5 DEF Queued
  <2>7. part \in Seq(Event) BY <2>1
  <2>8. Append(part, es[n + 1]) = SubSeq(es, 1, n + 1) BY <2>1, NextPart
  <2> HIDE DEF part
  <2>9. Append(k.out \o part, es[n + 1]) = k.out \o SubSeq(es, 1, n + 1)
    <3> DEFINE e == es[n + 1]
               s == k.out
               t == SubSeq(es, 1, n + 1)
    <3>1. e \in Event /\ s \in Seq(Event) /\ t = Append(part, e) BY <1>0, <2>4, <2>8
    <3> HIDE DEF e, s, t
    <3>2. Append(s \o part, e) = s \o t BY <2>7, <3>1, ConcatAppend
    <3> QED BY <3>2 DEF e, s, t
  <2>10. i = [k EXCEPT !.out = Append(@ \o part, es[n + 1])] BY <1>0, <2>5, <2>6 DEF Connection
  <2> QED BY <2>6, <2>9, <2>10
<1> HIDE DEF T
<1>5. \A n \in Nat : n \in T BY <1>3, <1>4, Induct
<1>6. SubSeq(es, 1, Len(es)) = es OBVIOUS
<1>7. \A i \in g[Len(es)] : Queued(k, i, SubSeq(es, 1, Len(es))) BY <1>2, <1>5 DEF T
<1>8. Queued(k, j, SubSeq(es, 1, Len(es))) BY <1>1, <1>7
<1> QED BY <1>6, <1>8

\* A viewer that es were queued for will show what they announce.
LEMMA QueuedFed ==
  ASSUME NEW k, Learns(k), k.viewer, NEW j, Learns(j), j.viewer, NEW es \in Seq(Event), Queued(k, j, es),
         NEW r, NEW s, NEW ids, Fed(k, r), Serves(r, s, es, ids)
  PROVE  Fed(j, s)
<1>0. k.out \in Seq(Event) /\ k.view \in View /\ k.missed \in SUBSET Nat /\ k \in Connection
  BY DEF Learns, Connection
<1>1. j.phase # "reading" BY DEF Learns
<1>2. ASSUME j.closed = None PROVE Shows(s, Reads(j.view, j.out), j.missed)
  <2>1. k.closed = None /\ j = [k EXCEPT !.out = @ \o es] BY <1>2 DEF Queued
  <2>2. j.view = k.view /\ j.missed = k.missed /\ j.out = k.out \o es BY <1>0, <2>1 DEF Connection
  <2>3. Shows(r, Reads(k.view, k.out), k.missed) BY <2>1 DEF Fed
  <2>4. Reads(k.view, k.out) \in View /\ Reads(k.view, k.out \o es) = Reads(Reads(k.view, k.out), es)
      BY <1>0, ReadsConcat
  <2>5. Shows(s, Reads(Reads(k.view, k.out), es), k.missed) BY <1>0, <2>3, <2>4 DEF Serves
  <2> QED BY <2>2, <2>4, <2>5
<1> QED BY <1>1, <1>2 DEF Fed

\* What a broadcast makes of a connection.
LEMMA HeardFed ==
  ASSUME NEW k, Learns(k), NEW es \in Seq(Event), NEW ids \in SUBSET Nat, NEW j \in Heard(k, es, ids),
         NEW r, NEW s, Fed(k, r), Serves(r, s, es, ids)
  PROVE  Fed(j, s)
<1>0. k \in Connection /\ k.backlog \in Seq(Line) /\ k.from \in Nat /\ k.missed \in SUBSET Nat
  BY DEF Learns, Connection
<1>1. CASE k.viewer
  <2>1. j \in SendAll(k, es) BY <1>1 DEF Heard
  <2>2. Learns(j) /\ j.viewer BY <1>1, <2>1, SendAllLearns
  <2>3. Queued(k, j, es) BY <2>1, SendAllOpen
  <2> QED BY <1>1, <2>2, <2>3, QueuedFed
<1>2. CASE ~k.viewer /\ k.phase = "reading"
  <2>1. j = [k EXCEPT !.missed = @ \cup ids] BY <1>2 DEF Heard
  <2>2. /\ j.phase = k.phase /\ j.viewer = k.viewer /\ j.out = k.out /\ j.backlog = k.backlog
        /\ j.from = k.from /\ j.missed = k.missed \cup ids
    BY <1>0, <2>1 DEF Connection
  <2>3. k.out = <<>> /\ Follows(r, k.backlog, k.from, k.missed) BY <1>2 DEF Fed
  <2>4. Follows(s, k.backlog, k.from, k.missed \cup ids) BY <1>0, <2>3 DEF Serves
  <2> QED BY <1>2, <2>2, <2>3, <2>4 DEF Fed
<1>3. CASE ~k.viewer /\ k.phase # "reading"
  <2>1. j = k BY <1>3 DEF Heard
  <2> QED BY <1>3, <2>1 DEF Fed
<1> QED BY <1>1, <1>2, <1>3

\* What the browser does with one event.
LEMMA SeeCases ==
  ASSUME NEW v \in View, NEW e \in Event
  PROVE  /\ e.type = "welcome" => See(v, e) = [v EXCEPT !.lines = e.lines, !.from = e.from, !.pin = e.pin]
         /\ e.type \in {"state", "pinned"} => See(v, e) = [v EXCEPT !.pin = e.pin]
         /\ e.type = "message" => See(v, e) = [v EXCEPT !.lines = Append(v.lines, e.line)]
         /\ e.type = "edited" =>
              See(v, e) = [v EXCEPT !.lines = [i \in DOMAIN v.lines |->
                                                 IF v.lines[i].id = e.line.id THEN e.line ELSE v.lines[i]]]
         /\ e.type = "deleted" => See(v, e) = [v EXCEPT !.lines = Without(v.lines, {l \in ToSet(v.lines) : l.id = e.id})]
         /\ e.type = "cleared" => See(v, e) = [v EXCEPT !.lines = <<>>]
         /\ e.type \in {"kicked", "notice"} => See(v, e) = v
<1>1. e.type = "welcome" => See(v, e) = [v EXCEPT !.lines = e.lines, !.from = e.from, !.pin = e.pin] BY DEF See
<1>2. e.type \in {"state", "pinned"} => See(v, e) = [v EXCEPT !.pin = e.pin] BY DEF See
<1>3. e.type = "message" => See(v, e) = [v EXCEPT !.lines = Append(v.lines, e.line)] BY DEF See
<1>4. e.type = "edited" =>
        See(v, e) = [v EXCEPT !.lines = [i \in DOMAIN v.lines |->
                                           IF v.lines[i].id = e.line.id THEN e.line ELSE v.lines[i]]]
  BY DEF See
<1>5. e.type = "deleted" => See(v, e) = [v EXCEPT !.lines = Without(v.lines, {l \in ToSet(v.lines) : l.id = e.id})]
  BY DEF See
<1>6. e.type = "cleared" => See(v, e) = [v EXCEPT !.lines = <<>>] BY DEF See
<1>7. e.type \in {"kicked", "notice"} => See(v, e) = v BY DEF See
<1> QED BY <1>1, <1>2, <1>3, <1>4, <1>5, <1>6, <1>7

\* Only the rows and what is untold of them decide who follows.
LEMMA FollowsSame ==
  ASSUME NEW r, NEW s, s.msgs = r.msgs, s.untold = r.untold, NEW lines, NEW from, NEW missed
  PROVE  Follows(s, lines, from, missed) <=> Follows(r, lines, from, missed)
BY DEF Follows

\* A room that changed without a word, in a way that those who followed it
\* still do.
LEMMA ServesQuietly ==
  ASSUME NEW r, NEW s, s.pinned = r.pinned,
         \A lines \in Seq(Line), from \in Nat, missed \in SUBSET Nat :
           Follows(r, lines, from, missed) => Follows(s, lines, from, missed)
  PROVE  Serves(r, s, <<>>, {}) /\ Serves(r, s, <<[type |-> "notice"]>>, {})
<1>1. [type |-> "notice"] \in Event BY DEF Event, Signals
<1>2. \A v \in View : Reads(v, <<>>) = v /\ Reads(v, <<[type |-> "notice"]>>) = v
  <2> TAKE v \in View
  <2> DEFINE e == [type |-> "notice"]
  <2>1. e.type \in {"kicked", "notice"} OBVIOUS
  <2> HIDE DEF e
  <2>2. e \in Event BY <1>1 DEF e
  <2>3. See(v, e) = v BY <2>1, <2>2, SeeCases
  <2>4. Reads(v, <<>>) = v /\ Reads(v, <<e>>) = See(v, e) BY <2>2, ReadsShort
  <2> QED BY <2>3, <2>4 DEF e
<1>3. \A v \in View, missed \in SUBSET Nat : Shows(r, v, missed) => Shows(s, v, missed) BY DEF Shows, View
<1>4. \A missed \in SUBSET Nat : missed \cup {} = missed OBVIOUS
<1> QED BY <1>2, <1>3, <1>4 DEF Serves

\* The snapshot and the pin.
LEMMA ServesPin ==
  ASSUME NEW r \in Table, NEW p \in Pins, NEW e \in PinEvents, e.pin = p
  PROVE  Serves(r, [r EXCEPT !.pinned = p], <<e>>, {})
<1> DEFINE s == [r EXCEPT !.pinned = p]
<1>1. s.msgs = r.msgs /\ s.untold = r.untold /\ s.pinned = p BY DEF Table
<1> HIDE DEF s
<1>2. e \in Event /\ e.type \in {"state", "pinned"} BY DEF Event, PinEvents
<1>3. ASSUME NEW v \in View, NEW missed \in SUBSET Nat, Shows(r, v, missed)
      PROVE  Shows(s, Reads(v, <<e>>), missed)
  <2>0. See(v, e) = [v EXCEPT !.pin = e.pin] BY <1>2, SeeCases
  <2>1. Reads(v, <<e>>) = [v EXCEPT !.pin = p] BY <1>2, <2>0, ReadsShort
  <2> DEFINE w == [v EXCEPT !.pin = p]
  <2>2. w.lines = v.lines /\ w.from = v.from /\ w.pin = p BY DEF View
  <2> HIDE DEF w
  <2>3. Follows(r, v.lines, v.from, missed) BY <1>3 DEF Shows
  <2>4. Follows(s, v.lines, v.from, missed) BY <1>1, <2>3, FollowsSame
  <2>5. Shows(s, w, missed) BY <1>1, <2>2, <2>4 DEF Shows
  <2> QED BY <2>1, <2>5 DEF w
<1>4. \A missed \in SUBSET Nat : missed \cup {} = missed OBVIOUS
<1>5. Serves(r, s, <<e>>, {}) BY <1>1, <1>3, <1>4, FollowsSame DEF Serves
<1> QED BY <1>5 DEF s

\* A newcomer is excused what changed meanwhile.
LEMMA FollowsMissing ==
  ASSUME NEW r \in Table, NEW s \in Table, NEW ids \in SUBSET Nat,
         Len(r.msgs) <= Len(s.msgs),
         \A i \in DOMAIN r.msgs : i \notin ids => s.msgs[i] = r.msgs[i],
         \A i \in DOMAIN s.msgs : i \notin ids => i \in DOMAIN r.msgs,
         \A i \in Nat : i \notin ids => (i \in s.untold <=> i \in r.untold),
         NEW lines \in Seq(Line), NEW from \in Nat, NEW missed \in SUBSET Nat, Follows(r, lines, from, missed)
  PROVE  Follows(s, lines, from, missed \cup ids)
<1>0. /\ r.msgs \in Seq(Message) /\ s.msgs \in Seq(Message)
      /\ DOMAIN r.msgs = 1..Len(r.msgs) /\ DOMAIN s.msgs = 1..Len(s.msgs)
      /\ Len(r.msgs) \in Nat /\ Len(s.msgs) \in Nat
  BY DEF Table
<1>1. DOMAIN r.msgs \subseteq DOMAIN s.msgs /\ DOMAIN r.msgs \subseteq Nat BY <1>0
<1>2. from <= Len(s.msgs) + 1 /\ Ordered(lines, Older) BY <1>0 DEF Follows
<1>3. ASSUME NEW l \in ToSet(lines)
      PROVE  /\ l.id \in DOMAIN s.msgs
             /\ l.id \notin missed \cup ids /\ s.msgs[l.id].state # "purged" =>
                  /\ s.msgs[l.id].state = "shown" /\ l.id >= from
                  /\ l.id \notin s.untold => l = Pin(s.msgs, l.id)
  <2>1. l.id \in DOMAIN r.msgs BY DEF Follows
  <2>2. CASE l.id \in missed \cup ids BY <2>1, <2>2, <1>1
  <2>3. CASE l.id \notin missed \cup ids
    <3>1. s.msgs[l.id] = r.msgs[l.id] /\ (l.id \in s.untold <=> l.id \in r.untold) BY <1>1, <2>1, <2>3
    <3> QED BY <1>1, <2>1, <2>3, <3>1 DEF Follows, Pin
  <2> QED BY <2>2, <2>3
<1>4. ASSUME NEW i \in DOMAIN s.msgs, s.msgs[i].state = "shown", i >= from, i \notin missed \cup ids
      PROVE  \E l \in ToSet(lines) : l.id = i
  <2>1. i \in DOMAIN r.msgs /\ s.msgs[i] = r.msgs[i] /\ i \notin missed BY <1>4
  <2> QED BY <1>4, <2>1 DEF Follows
<1> QED BY <1>2, <1>3, <1>4 DEF Follows

\* Lines with e in the place of the line of its message.
Replaces(new, lines, e) ==
    /\ new \in Seq(Line) /\ DOMAIN new = DOMAIN lines
    /\ \A i \in DOMAIN lines : new[i] = IF lines[i].id = e.id THEN e ELSE lines[i]

\* They are of the same messages, in the same order.
LEMMA ReplacedLines ==
  ASSUME NEW lines \in Seq(Line), NEW e \in Line, NEW new, Replaces(new, lines, e)
  PROVE  /\ Ordered(lines, Older) => Ordered(new, Older)
         /\ \A l \in ToSet(new) : \/ l = e /\ (\E k \in ToSet(lines) : k.id = e.id)
                                  \/ l.id # e.id /\ l \in ToSet(lines)
         /\ \A k \in ToSet(lines) : \E l \in ToSet(new) : l.id = k.id
<1>0. DOMAIN lines = 1..Len(lines) /\ Len(lines) \in Nat /\ \A i \in DOMAIN lines : lines[i] \in Line OBVIOUS
<1>1. /\ DOMAIN new = DOMAIN lines
      /\ \A i \in DOMAIN lines : /\ new[i] \in Line /\ new[i].id = lines[i].id
                                 /\ \/ new[i] = e /\ lines[i].id = e.id
                                    \/ lines[i].id # e.id /\ new[i] = lines[i]
  BY <1>0 DEF Replaces
<1>5. ASSUME Ordered(lines, Older) PROVE Ordered(new, Older)
  <2> SUFFICES ASSUME NEW i \in DOMAIN new, NEW j \in DOMAIN new, i < j PROVE <<new[i], new[j]>> \in Older
      BY DEF Ordered
  <2>1. <<lines[i], lines[j]>> \in Older BY <1>1, <1>5 DEF Ordered
  <2>2. lines[i].id < lines[j].id BY <2>1 DEF Older
  <2> QED BY <1>1, <2>2 DEF Older
<1>6. \A l \in ToSet(new) : \/ l = e /\ (\E k \in ToSet(lines) : k.id = e.id)
                            \/ l.id # e.id /\ l \in ToSet(lines)
  <2> SUFFICES ASSUME NEW i \in DOMAIN lines
               PROVE  \/ new[i] = e /\ \E k \in ToSet(lines) : k.id = e.id
                      \/ new[i].id # e.id /\ new[i] \in ToSet(lines)
      BY <1>1 DEF ToSet
  <2>1. lines[i] \in ToSet(lines) BY DEF ToSet
  <2> QED BY <1>1, <2>1
<1>7. \A k \in ToSet(lines) : \E l \in ToSet(new) : l.id = k.id
  <2> SUFFICES ASSUME NEW i \in DOMAIN lines PROVE \E l \in ToSet(new) : l.id = lines[i].id BY DEF ToSet
  <2>1. new[i] \in ToSet(new) BY <1>1 DEF ToSet
  <2> QED BY <1>1, <2>1
<1> QED BY <1>5, <1>6, <1>7

\* A new row, announced at the end of the lines.
LEMMA ServesNew ==
  ASSUME NEW r \in Table, NEW m \in Message, m.state = "shown"
  PROVE  Serves(r, [r EXCEPT !.msgs = @ \o <<m>>], Announce(r.msgs, <<m>>), New(r.msgs, <<m>>))
<1> DEFINE n == Len(r.msgs)
           ms == r.msgs \o <<m>>
           line == Pin(ms, n + 1)
           e == [type |-> "message", line |-> line]
           s == [r EXCEPT !.msgs = ms]
<1>0. r.msgs \in Seq(Message) /\ n \in Nat /\ DOMAIN r.msgs = 1..n /\ r.untold \in SUBSET Nat BY DEF Table
<1>1. /\ ms \in Seq(Message) /\ Len(ms) = n + 1 /\ DOMAIN ms = 1..n + 1 /\ ms[n + 1] = m
      /\ \A i \in 1..n : ms[i] = r.msgs[i]
  BY <1>0
<1>2. line \in Line /\ line.id = n + 1
  <2>1. n + 1 \in DOMAIN ms BY <1>0, <1>1
  <2> HIDE DEF ms
  <2> QED BY <1>1, <2>1, PinType
<1>3. s \in Table /\ s.msgs = ms /\ s.untold = r.untold /\ s.pinned = r.pinned
  <2> HIDE DEF ms
  <2> QED BY <1>1 DEF Table
<1>4. Announce(r.msgs, <<m>>) = <<e>> /\ New(r.msgs, <<m>>) = {n + 1}
  <2>1. DOMAIN <<m>> = {1} OBVIOUS
  <2>2. New(r.msgs, <<m>>) = {n + 1} BY <2>1 DEF New
  <2>3. Announce(r.msgs, <<m>>) = [i \in {1} |-> [type |-> "message", line |-> Pin(ms, n + i)]] BY <2>1 DEF Announce
  <2> HIDE DEF ms
  <2> DEFINE f == [i \in {1} |-> [type |-> "message", line |-> Pin(ms, n + i)]]
  <2>4. DOMAIN f = 1..1 /\ f[1] = e OBVIOUS
  <2> HIDE DEF e
  <2>5. f = <<e>>
    <3>1. f = [i \in 1..1 |-> f[i]] BY <2>4
    <3>2. f = [i \in 1..1 |-> e] BY <2>4, <3>1
    <3> HIDE DEF f
    <3> QED BY <3>2
  <2> QED BY <2>2, <2>3, <2>5
<1>5. e \in Event /\ e.type = "message" /\ e.line = line
  <2> HIDE DEF line
  <2> QED BY <1>2 DEF Event, LineEvents
<1> HIDE DEF ms, line, e, s
<1>6. ASSUME NEW v \in View, NEW missed \in SUBSET Nat, Shows(r, v, missed)
      PROVE  Shows(s, Reads(v, <<e>>), missed)
  <2> DEFINE lines == Append(v.lines, line)
             w == [v EXCEPT !.lines = lines]
  <2>0. v.lines \in Seq(Line) /\ v.from \in Nat BY DEF View
  <2>1. Follows(r, v.lines, v.from, missed) /\ v.pin = r.pinned BY <1>6 DEF Shows
  <2>2. See(v, e) = w BY <1>5, SeeCases
  <2>3. Reads(v, <<e>>) = w BY <1>5, <2>2, ReadsShort
  <2>4. ToSet(lines) = ToSet(v.lines) \cup {line} BY <1>2, <2>0, AppendSet
  <2>5. Ordered(lines, Older)
    <3>1. ASSUME NEW x \in ToSet(v.lines) PROVE <<x, line>> \in Older
      <4>1. x.id \in 1..n BY <1>0, <2>1 DEF Follows
      <4>2. x \in Line BY <2>0 DEF ToSet
      <4> QED BY <1>0, <1>2, <4>1, <4>2 DEF Older
    <3>2. Ordered(v.lines, Older) BY <2>1 DEF Follows
    <3> QED BY <1>2, <2>0, <3>1, <3>2, OrderedAppend
  <2>6. w.lines = lines /\ w.from = v.from /\ w.pin = v.pin BY DEF View
  <2> HIDE DEF lines, w
  <2>7. Follows(s, lines, v.from, missed)
    <3>1. v.from <= n + 1 BY <2>1 DEF Follows
    <3>2. ASSUME NEW l \in ToSet(lines)
          PROVE  /\ l.id \in DOMAIN ms
                 /\ l.id \notin missed /\ ms[l.id].state # "purged" =>
                      /\ ms[l.id].state = "shown" /\ l.id >= v.from
                      /\ l.id \notin r.untold => l = Pin(ms, l.id)
      <4>1. CASE l = line
        <5>1. l.id = n + 1 /\ n + 1 \in DOMAIN ms BY <1>0, <1>1, <1>2, <4>1
        <5>2. l = Pin(ms, l.id) BY <4>1, <5>1 DEF line
        <5> QED BY <1>0, <1>1, <2>0, <3>1, <5>1, <5>2
      <4>2. CASE l \in ToSet(v.lines)
        <5>1. l.id \in 1..n BY <1>0, <2>1, <4>2 DEF Follows
        <5>2. ms[l.id] = r.msgs[l.id] /\ l.id \in DOMAIN ms BY <1>0, <1>1, <5>1
        <5> QED BY <2>1, <4>2, <5>2 DEF Follows, Pin
      <4> QED BY <2>4, <4>1, <4>2
    <3>3. ASSUME NEW i \in DOMAIN ms, ms[i].state = "shown", i >= v.from, i \notin missed
          PROVE  \E l \in ToSet(lines) : l.id = i
      <4>1. CASE i = n + 1 BY <1>2, <2>4, <4>1
      <4>2. CASE i # n + 1
        <5>1. i \in DOMAIN r.msgs /\ r.msgs[i] = ms[i] BY <1>0, <1>1, <4>2
        <5>2. \E l \in ToSet(v.lines) : l.id = i BY <2>1, <3>3, <5>1 DEF Follows
        <5> QED BY <2>4, <5>2
      <4> QED BY <4>1, <4>2
    <3>4. v.from <= Len(ms) + 1 BY <1>0, <1>1, <2>0, <3>1
    <3> QED BY <1>3, <2>5, <3>2, <3>3, <3>4 DEF Follows
  <2> QED BY <1>3, <2>1, <2>3, <2>6, <2>7 DEF Shows
<1>7. ASSUME NEW lines \in Seq(Line), NEW from \in Nat, NEW missed \in SUBSET Nat, Follows(r, lines, from, missed)
      PROVE  Follows(s, lines, from, missed \cup {n + 1})
  <2>1. {n + 1} \in SUBSET Nat BY <1>0
  <2>2. Len(r.msgs) <= Len(s.msgs) BY <1>0, <1>1, <1>3
  <2>3. /\ \A i \in DOMAIN r.msgs : i \notin {n + 1} => s.msgs[i] = r.msgs[i]
        /\ \A i \in DOMAIN s.msgs : i \notin {n + 1} => i \in DOMAIN r.msgs
    BY <1>0, <1>1, <1>3
  <2>4. \A i \in Nat : i \notin {n + 1} => (i \in s.untold <=> i \in r.untold) BY <1>3
  <2> QED BY <1>3, <1>7, <2>1, <2>2, <2>3, <2>4, FollowsMissing
<1>8. Serves(r, s, <<e>>, {n + 1}) BY <1>6, <1>7 DEF Serves
<1> QED BY <1>4, <1>8 DEF s, ms

\* A line of the log, or none.
LEMMA ServesLine ==
  ASSUME NEW r \in Table, NEW new \in LogLines(r.msgs)
  PROVE  Serves(r, [r EXCEPT !.msgs = @ \o new], Announce(r.msgs, new), New(r.msgs, new))
<1> DEFINE m == [author |-> None, rev |-> 0, state |-> "shown"]
<1>0. r.msgs \in Seq(Message) BY DEF Table
<1>1. new = <<>> \/ new = <<m>> BY Zenon DEF LogLines
<1>2. CASE new = <<m>>
  <2>1. m \in Message /\ m.state = "shown" BY DEF Message
  <2> HIDE DEF m
  <2> QED BY <1>2, <2>1, ServesNew
<1>3. CASE new = <<>>
  <2>1. r.msgs \o new = r.msgs BY <1>0, <1>3
  <2>2. [r EXCEPT !.msgs = @ \o new] = r BY <2>1 DEF Table
  <2>3. DOMAIN new = {} /\ New(r.msgs, new) = {} BY <1>3 DEF New
  <2>4. Announce(r.msgs, new) = <<>> BY <1>3 DEF Announce
  <2>5. Serves(r, r, <<>>, {}) BY ServesQuietly
  <2> QED BY <2>2, <2>3, <2>4, <2>5
<1> QED BY <1>1, <1>2, <1>3

\* A row with another text.
EditedRow(ms, new, id) ==
    /\ id \in DOMAIN ms /\ ms[id].state = "shown"
    /\ new \in Seq(Message) /\ Len(new) = Len(ms) /\ new[id].state = "shown"
    /\ \A i \in DOMAIN ms : i # id => new[i] = ms[i]

\* An edit that is announced replaces the line.
LEMMA ServesEdit ==
  ASSUME NEW r \in Table, NEW s \in Table, NEW id, EditedRow(r.msgs, s.msgs, id),
         s.untold = r.untold \ {id}, s.pinned = r.pinned
  PROVE  Serves(r, s, <<[type |-> "edited", line |-> Pin(s.msgs, id)]>>, {id})
<1> DEFINE n == Len(r.msgs)
           ms == s.msgs
           line == Pin(ms, id)
           e == [type |-> "edited", line |-> line]
<1>0. /\ r.msgs \in Seq(Message) /\ n \in Nat /\ DOMAIN r.msgs = 1..n
      /\ ms \in Seq(Message) /\ Len(ms) = n /\ DOMAIN ms = 1..n /\ id \in 1..n
  BY DEF Table, EditedRow
<1>1. line \in Line /\ line.id = id BY <1>0, PinType
<1>2. e \in Event /\ e.type = "edited" /\ e.line = line
  <2> HIDE DEF line
  <2> QED BY <1>1 DEF Event, LineEvents
<1>3. ms[id].state = "shown" /\ r.msgs[id].state = "shown" /\ \A i \in 1..n : i # id => ms[i] = r.msgs[i]
  BY <1>0 DEF EditedRow
<1> HIDE DEF e
<1>4. ASSUME NEW v \in View, NEW missed \in SUBSET Nat, Shows(r, v, missed)
      PROVE  Shows(s, Reads(v, <<e>>), missed)
  <2> DEFINE lines == [i \in DOMAIN v.lines |-> IF v.lines[i].id = line.id THEN line ELSE v.lines[i]]
             w == [v EXCEPT !.lines = lines]
  <2>0. v.lines \in Seq(Line) /\ v.from \in Nat BY DEF View
  <2>1. Follows(r, v.lines, v.from, missed) /\ v.pin = r.pinned BY <1>4 DEF Shows
  <2>2. See(v, e) = w
    <3>1. See(v, e) = [v EXCEPT !.lines = [i \in DOMAIN v.lines |->
                                            IF v.lines[i].id = e.line.id THEN e.line ELSE v.lines[i]]]
        BY <1>2, SeeCases
    <3> HIDE DEF line
    <3> QED BY <1>2, <3>1
  <2>3. Reads(v, <<e>>) = w BY <1>2, <2>2, ReadsShort
  <2>4. /\ Ordered(v.lines, Older) => Ordered(lines, Older)
        /\ \A l \in ToSet(lines) : \/ l = line /\ (\E k \in ToSet(v.lines) : k.id = line.id)
                                   \/ l.id # line.id /\ l \in ToSet(v.lines)
        /\ \A k \in ToSet(v.lines) : \E l \in ToSet(lines) : l.id = k.id
    <3> DEFINE q == v.lines
    <3>1. q \in Seq(Line) BY <2>0
    <3>2. Replaces(lines, q, line)
      <4>1. DOMAIN q = 1..Len(q) /\ Len(q) \in Nat /\ \A i \in DOMAIN q : q[i] \in Line BY <3>1
      <4> HIDE DEF q, line
      <4>2. DOMAIN lines = DOMAIN q /\ \A i \in DOMAIN q : lines[i] = IF q[i].id = line.id THEN line ELSE q[i]
          BY DEF q
      <4>3. \A i \in DOMAIN q : lines[i] \in Line BY <1>1, <4>1, <4>2
      <4>4. lines = [i \in 1..Len(q) |-> lines[i]] BY <4>1 DEF q
      <4> HIDE DEF lines
      <4>5. lines \in [1..Len(q) -> Line] BY <4>1, <4>3, <4>4
      <4>6. lines \in Seq(Line) BY <4>1, <4>5
      <4> QED BY <4>2, <4>6 DEF Replaces
    <3> HIDE DEF lines, line, q
    <3>3. /\ Ordered(q, Older) => Ordered(lines, Older)
          /\ \A l \in ToSet(lines) : \/ l = line /\ (\E k \in ToSet(q) : k.id = line.id)
                                     \/ l.id # line.id /\ l \in ToSet(q)
          /\ \A k \in ToSet(q) : \E l \in ToSet(lines) : l.id = k.id
        BY <1>1, <3>1, <3>2, ReplacedLines
    <3> QED BY <3>3 DEF q
  <2>5. w.lines = lines /\ w.from = v.from /\ w.pin = v.pin BY DEF View
  <2> HIDE DEF lines, w, line
  <2>6. Follows(s, lines, v.from, missed)
    <3>1. v.from <= Len(ms) + 1 /\ Ordered(lines, Older) BY <1>0, <2>1, <2>4 DEF Follows
    <3>2. ASSUME NEW l \in ToSet(lines)
          PROVE  /\ l.id \in DOMAIN ms
                 /\ l.id \notin missed /\ ms[l.id].state # "purged" =>
                      /\ ms[l.id].state = "shown" /\ l.id >= v.from
                      /\ l.id \notin s.untold => l = Pin(ms, l.id)
      <4>1. CASE l = line /\ \E k \in ToSet(v.lines) : k.id = line.id
        <5>1. l.id = id /\ l = Pin(ms, l.id) BY <1>1, <4>1 DEF line
        <5>2. PICK k \in ToSet(v.lines) : k.id = id BY <1>1, <4>1
        <5>3. id \notin missed => id >= v.from BY <1>3, <2>1, <5>2 DEF Follows
        <5> QED BY <1>0, <1>3, <5>1, <5>3
      <4>2. CASE l.id # id /\ l \in ToSet(v.lines)
        <5>1. l.id \in 1..n BY <1>0, <2>1, <4>2 DEF Follows
        <5>2. ms[l.id] = r.msgs[l.id] /\ l.id \in DOMAIN ms BY <1>0, <1>3, <4>2, <5>1
        <5> QED BY <2>1, <4>2, <5>2 DEF Follows, Pin
      <4> QED BY <1>1, <2>4, <4>1, <4>2
    <3>3. ASSUME NEW i \in DOMAIN ms, ms[i].state = "shown", i >= v.from, i \notin missed
          PROVE  \E l \in ToSet(lines) : l.id = i
      <4>1. i \in DOMAIN r.msgs /\ r.msgs[i].state = "shown" BY <1>0, <1>3, <3>3
      <4>2. \E l \in ToSet(v.lines) : l.id = i BY <2>1, <3>3, <4>1 DEF Follows
      <4> QED BY <2>4, <4>2
    <3> QED BY <3>1, <3>2, <3>3 DEF Follows
  <2> QED BY <2>1, <2>3, <2>5, <2>6 DEF Shows
<1>5. ASSUME NEW lines \in Seq(Line), NEW from \in Nat, NEW missed \in SUBSET Nat, Follows(r, lines, from, missed)
      PROVE  Follows(s, lines, from, missed \cup {id})
  <2>1. {id} \in SUBSET Nat /\ Len(r.msgs) <= Len(s.msgs) BY <1>0
  <2>2. /\ \A i \in DOMAIN r.msgs : i \notin {id} => s.msgs[i] = r.msgs[i]
        /\ \A i \in DOMAIN s.msgs : i \notin {id} => i \in DOMAIN r.msgs
    BY <1>0, <1>3
  <2>3. \A i \in Nat : i \notin {id} => (i \in s.untold <=> i \in r.untold) OBVIOUS
  <2> QED BY <1>5, <2>1, <2>2, <2>3, FollowsMissing
<1>6. Serves(r, s, <<e>>, {id}) BY <1>4, <1>5 DEF Serves
<1> QED BY <1>6 DEF e

\* An edit that is not announced leaves an excuse.
LEMMA ServesUntold ==
  ASSUME NEW r \in Table, NEW s \in Table, NEW id, EditedRow(r.msgs, s.msgs, id),
         s.untold = r.untold \cup {id}, s.pinned = r.pinned
  PROVE  Serves(r, s, <<>>, {})
<1>0. /\ r.msgs \in Seq(Message) /\ s.msgs \in Seq(Message) /\ Len(s.msgs) = Len(r.msgs)
      /\ DOMAIN s.msgs = DOMAIN r.msgs
  BY DEF Table, EditedRow
<1>1. s.msgs[id].state = "shown" /\ r.msgs[id].state = "shown"
      /\ \A i \in DOMAIN r.msgs : i # id => s.msgs[i] = r.msgs[i]
  BY DEF EditedRow
<1>2. ASSUME NEW lines \in Seq(Line), NEW from \in Nat, NEW missed \in SUBSET Nat, Follows(r, lines, from, missed)
      PROVE  Follows(s, lines, from, missed)
  <2>1. \A i \in DOMAIN r.msgs : s.msgs[i].state = r.msgs[i].state BY <1>1
  <2>2. \A i \in DOMAIN r.msgs : i \notin s.untold => i \notin r.untold /\ Pin(s.msgs, i) = Pin(r.msgs, i)
    BY <1>1 DEF Pin
  <2> QED BY <1>0, <1>2, <2>1, <2>2 DEF Follows
<1> QED BY <1>2, ServesQuietly

\* A row that is taken back.
HiddenRow(ms, new, id) ==
    /\ id \in DOMAIN ms /\ new \in Seq(Message) /\ Len(new) = Len(ms) /\ new[id].state = "deleted"
    /\ \A i \in DOMAIN ms : i # id => new[i] = ms[i]

\* A deletion takes the line away.
LEMMA ServesDelete ==
  ASSUME NEW r \in Table, NEW s \in Table, NEW id, HiddenRow(r.msgs, s.msgs, id),
         s.untold = r.untold \ {id}, s.pinned = r.pinned
  PROVE  Serves(r, s, <<[type |-> "deleted", id |-> id]>>, {id})
<1> DEFINE n == Len(r.msgs)
           ms == s.msgs
           e == [type |-> "deleted", id |-> id]
<1>0. /\ r.msgs \in Seq(Message) /\ n \in Nat /\ DOMAIN r.msgs = 1..n
      /\ ms \in Seq(Message) /\ Len(ms) = n /\ DOMAIN ms = 1..n /\ id \in 1..n
  BY DEF Table, HiddenRow
<1>1. e \in Event /\ e.type = "deleted" /\ e.id = id BY <1>0 DEF Event, Deletions
<1>2. ms[id].state = "deleted" /\ \A i \in 1..n : i # id => ms[i] = r.msgs[i] BY <1>0 DEF HiddenRow
<1> HIDE DEF e
<1>3. ASSUME NEW v \in View, NEW missed \in SUBSET Nat, Shows(r, v, missed)
      PROVE  Shows(s, Reads(v, <<e>>), missed)
  <2> DEFINE gone == {l \in ToSet(v.lines) : l.id = id}
             lines == Without(v.lines, gone)
             w == [v EXCEPT !.lines = lines]
  <2>0. v.lines \in Seq(Line) /\ v.from \in Nat BY DEF View
  <2>1. Follows(r, v.lines, v.from, missed) /\ v.pin = r.pinned BY <1>3 DEF Shows
  <2>2. See(v, e) = w
    <3>1. See(v, e) = [v EXCEPT !.lines = Without(v.lines, {l \in ToSet(v.lines) : l.id = e.id})]
        BY <1>1, SeeCases
    <3> QED BY <1>1, <3>1
  <2>3. Reads(v, <<e>>) = w BY <1>1, <2>2, ReadsShort
  <2>4. ToSet(lines) = {l \in ToSet(v.lines) : l.id # id}
    <3> DEFINE q == v.lines
    <3>1. ToSet(Without(q, gone)) = ToSet(q) \ gone BY <2>0, WithoutSet
    <3> QED BY <3>1
  <2>5. Ordered(lines, Older)
    <3>1. Ordered(v.lines, Older) BY <2>1 DEF Follows
    <3> HIDE DEF gone
    <3> QED BY <2>0, <3>1, OnlyOrdered DEF Without
  <2>6. w.lines = lines /\ w.from = v.from /\ w.pin = v.pin BY DEF View
  <2> HIDE DEF lines, w, gone
  <2>7. Follows(s, lines, v.from, missed)
    <3>1. v.from <= Len(ms) + 1 BY <1>0, <2>1 DEF Follows
    <3>2. ASSUME NEW l \in ToSet(lines)
          PROVE  /\ l.id \in DOMAIN ms
                 /\ l.id \notin missed /\ ms[l.id].state # "purged" =>
                      /\ ms[l.id].state = "shown" /\ l.id >= v.from
                      /\ l.id \notin s.untold => l = Pin(ms, l.id)
      <4>1. l \in ToSet(v.lines) /\ l.id # id BY <2>4
      <4>2. l.id \in 1..n BY <1>0, <2>1, <4>1 DEF Follows
      <4>3. ms[l.id] = r.msgs[l.id] /\ l.id \in DOMAIN ms BY <1>0, <1>2, <4>1, <4>2
      <4> QED BY <2>1, <4>1, <4>3 DEF Follows, Pin
    <3>3. ASSUME NEW i \in DOMAIN ms, ms[i].state = "shown", i >= v.from, i \notin missed
          PROVE  \E l \in ToSet(lines) : l.id = i
      <4>1. i # id /\ i \in DOMAIN r.msgs /\ r.msgs[i].state = "shown" BY <1>0, <1>2, <3>3
      <4>2. \E l \in ToSet(v.lines) : l.id = i BY <2>1, <3>3, <4>1 DEF Follows
      <4> QED BY <2>4, <4>1, <4>2
    <3> QED BY <2>5, <3>1, <3>2, <3>3 DEF Follows
  <2> QED BY <2>1, <2>3, <2>6, <2>7 DEF Shows
<1>4. ASSUME NEW lines \in Seq(Line), NEW from \in Nat, NEW missed \in SUBSET Nat, Follows(r, lines, from, missed)
      PROVE  Follows(s, lines, from, missed \cup {id})
  <2>1. {id} \in SUBSET Nat /\ Len(r.msgs) <= Len(s.msgs) BY <1>0
  <2>2. /\ \A i \in DOMAIN r.msgs : i \notin {id} => s.msgs[i] = r.msgs[i]
        /\ \A i \in DOMAIN s.msgs : i \notin {id} => i \in DOMAIN r.msgs
    BY <1>0, <1>2
  <2>3. \A i \in Nat : i \notin {id} => (i \in s.untold <=> i \in r.untold) OBVIOUS
  <2> QED BY <1>4, <2>1, <2>2, <2>3, FollowsMissing
<1>5. Serves(r, s, <<e>>, {id}) BY <1>3, <1>4 DEF Serves
<1> QED BY <1>5 DEF e

\* Clearing leaves nothing to show.
LEMMA ServesClear ==
  ASSUME NEW r \in Table, NEW s \in Table, r.untold \subseteq DOMAIN r.msgs, Len(s.msgs) = Len(r.msgs),
         \A i \in DOMAIN s.msgs : s.msgs[i].state # "shown", s.untold = {}, s.pinned = r.pinned
  PROVE  Serves(r, s, <<[type |-> "cleared"]>>, DOMAIN r.msgs)
<1> DEFINE e == [type |-> "cleared"]
<1>0. /\ r.msgs \in Seq(Message) /\ s.msgs \in Seq(Message) /\ Len(s.msgs) \in Nat
      /\ DOMAIN s.msgs = DOMAIN r.msgs /\ DOMAIN r.msgs \in SUBSET Nat
  BY DEF Table
<1>1. e \in Event /\ e.type = "cleared" BY DEF Event, Signals
<1> HIDE DEF e
<1>2. ASSUME NEW v \in View, NEW missed \in SUBSET Nat, Shows(r, v, missed)
      PROVE  Shows(s, Reads(v, <<e>>), missed)
  <2> DEFINE w == [v EXCEPT !.lines = <<>>]
  <2>1. Follows(r, v.lines, v.from, missed) /\ v.pin = r.pinned BY <1>2 DEF Shows
  <2>2. See(v, e) = w BY <1>1, SeeCases
  <2>3. Reads(v, <<e>>) = w BY <1>1, <2>2, ReadsShort
  <2>4. w.lines = <<>> /\ w.from = v.from /\ w.pin = v.pin BY DEF View
  <2>5. Ordered(<<>>, Older) /\ ToSet(<<>>) = {} BY DEF Ordered, ToSet
  <2>6. v.from <= Len(s.msgs) + 1 BY <2>1 DEF Follows
  <2> HIDE DEF w
  <2>7. Follows(s, <<>>, v.from, missed) BY <2>5, <2>6 DEF Follows
  <2> QED BY <2>1, <2>3, <2>4, <2>7 DEF Shows
<1>3. ASSUME NEW lines \in Seq(Line), NEW from \in Nat, NEW missed \in SUBSET Nat, Follows(r, lines, from, missed)
      PROVE  Follows(s, lines, from, missed \cup DOMAIN r.msgs)
  <2> DEFINE ids == DOMAIN r.msgs
  <2>1. /\ ids \in SUBSET Nat /\ Len(r.msgs) <= Len(s.msgs)
        /\ \A i \in DOMAIN r.msgs : i \notin ids => s.msgs[i] = r.msgs[i]
        /\ \A i \in DOMAIN s.msgs : i \notin ids => i \in DOMAIN r.msgs
        /\ \A i \in Nat : i \notin ids => (i \in s.untold <=> i \in r.untold)
    BY <1>0
  <2> HIDE DEF ids
  <2>2. Follows(s, lines, from, missed \cup ids) BY <1>3, <2>1, FollowsMissing
  <2> QED BY <2>2 DEF ids
<1>4. Serves(r, s, <<e>>, DOMAIN r.msgs) BY <1>2, <1>3 DEF Serves
<1> QED BY <1>4 DEF e

\* The retention takes rows from those who follow without a word.
LEMMA ServesPurge ==
  ASSUME NEW r \in Table, NEW s \in Table, NEW n \in Nat, Len(s.msgs) = Len(r.msgs),
         \A i \in DOMAIN r.msgs : i <= n => s.msgs[i].state = "purged",
         \A i \in DOMAIN r.msgs : i > n => s.msgs[i] = r.msgs[i],
         s.untold = r.untold \ 1..n, s.pinned = r.pinned
  PROVE  Serves(r, s, <<>>, {})
<1>0. /\ r.msgs \in Seq(Message) /\ s.msgs \in Seq(Message) /\ Len(s.msgs) \in Nat
      /\ DOMAIN s.msgs = 1..Len(s.msgs) /\ DOMAIN r.msgs = 1..Len(s.msgs)
  BY DEF Table
<1>1. ASSUME NEW lines \in Seq(Line), NEW from \in Nat, NEW missed \in SUBSET Nat, Follows(r, lines, from, missed)
      PROVE  Follows(s, lines, from, missed)
  <2>1. from <= Len(s.msgs) + 1 /\ Ordered(lines, Older) BY <1>1 DEF Follows
  <2>2. ASSUME NEW l \in ToSet(lines)
        PROVE  /\ l.id \in DOMAIN s.msgs
               /\ l.id \notin missed /\ s.msgs[l.id].state # "purged" =>
                    /\ s.msgs[l.id].state = "shown" /\ l.id >= from
                    /\ l.id \notin s.untold => l = Pin(s.msgs, l.id)
    <3>1. l.id \in DOMAIN r.msgs BY <1>1 DEF Follows
    <3>2. CASE l.id <= n BY <1>0, <3>1, <3>2
    <3>3. CASE l.id > n
      <4>1. s.msgs[l.id] = r.msgs[l.id] /\ (l.id \in s.untold <=> l.id \in r.untold) BY <3>1, <3>3
      <4> QED BY <1>0, <1>1, <3>1, <4>1 DEF Follows, Pin
    <3> QED BY <1>0, <3>1, <3>2, <3>3
  <2>3. ASSUME NEW i \in DOMAIN s.msgs, s.msgs[i].state = "shown", i >= from, i \notin missed
        PROVE  \E l \in ToSet(lines) : l.id = i
    <3>1. i \in DOMAIN r.msgs /\ i > n BY <1>0, <2>3
    <3>2. r.msgs[i].state = "shown" BY <2>3, <3>1
    <3> QED BY <1>1, <2>3, <3>1, <3>2 DEF Follows
  <2> QED BY <2>1, <2>2, <2>3 DEF Follows
<1> QED BY <1>1, ServesQuietly

\* Numbers in their order.
Before == {x \in Nat \X Nat : x[1] < x[2]}

\* The rows of a list of messages, as lines.
LEMMA RowLines ==
  ASSUME LogInv, NEW ids \in Seq(DOMAIN msgs), Ordered(ids, Before),
         NEW rows, rows = [i \in DOMAIN ids |-> Pin(msgs, ids[i])]
  PROVE  rows \in Seq(Line) /\ Ordered(rows, Older) /\ ToSet(rows) = {Pin(msgs, i) : i \in ToSet(ids)}
<1>1. DOMAIN ids = 1..Len(ids) /\ Len(ids) \in Nat /\ \A i \in 1..Len(ids) : ids[i] \in DOMAIN msgs OBVIOUS
<1>2. \A i \in DOMAIN msgs : Pin(msgs, i) \in Line /\ Pin(msgs, i).id = i BY PinType DEF LogInv
<1>3. DOMAIN rows = 1..Len(ids) /\ \A i \in 1..Len(ids) : rows[i] = Pin(msgs, ids[i]) BY <1>1
<1>4. rows \in Seq(Line)
  <2>1. rows \in [1..Len(ids) -> Line] BY <1>1, <1>2
  <2> QED BY <1>1, <2>1
<1>5. \A i, j \in 1..Len(ids) : i < j => <<rows[i], rows[j]>> \in Older
  <2> SUFFICES ASSUME NEW i \in 1..Len(ids), NEW j \in 1..Len(ids), i < j PROVE <<rows[i], rows[j]>> \in Older
      OBVIOUS
  <2>1. <<ids[i], ids[j]>> \in Before BY <1>1 DEF Ordered
  <2>2. ids[i] < ids[j] BY <2>1 DEF Before
  <2>3. rows[i] \in Line /\ rows[j] \in Line /\ rows[i].id = ids[i] /\ rows[j].id = ids[j] BY <1>1, <1>2, <1>3
  <2> QED BY <2>2, <2>3 DEF Older
<1>6. Ordered(rows, Older)
  <2>1. \A i, j \in DOMAIN rows : i < j => <<rows[i], rows[j]>> \in Older BY <1>3, <1>5
  <2> QED BY <2>1 DEF Ordered
<1>7. ToSet(rows) = {Pin(msgs, i) : i \in ToSet(ids)}
  <2>1. ToSet(rows) = {rows[i] : i \in 1..Len(ids)} BY <1>3 DEF ToSet
  <2>2. ToSet(ids) = {ids[i] : i \in 1..Len(ids)} BY <1>1 DEF ToSet
  <2> QED BY <1>3, <2>1, <2>2
<1> QED BY <1>4, <1>6, <1>7

\* The visible messages, in the order of their numbers.
LEMMA VisibleOrder ==
  ASSUME LogInv
  PROVE  /\ Visible \in Seq(DOMAIN msgs) /\ Ordered(Visible, Before)
         /\ ToSet(Visible) = {i \in DOMAIN msgs : Shown(i)}
<1> DEFINE all == [i \in DOMAIN msgs |-> i]
           kept == {i \in DOMAIN msgs : Shown(i)}
<1>1. DOMAIN msgs = 1..Len(msgs) /\ Len(msgs) \in Nat BY DEF LogInv
<1>2. DOMAIN all = DOMAIN msgs /\ \A i \in DOMAIN msgs : all[i] = i OBVIOUS
<1>3. all \in [1..Len(msgs) -> DOMAIN msgs] BY <1>1
<1>4. Visible = Only(all, kept) BY DEF Visible
<1> HIDE DEF all
<1>5. all \in Seq(DOMAIN msgs) BY <1>1, <1>3
<1>6. Ordered(all, Before)
  <2> SUFFICES ASSUME NEW i \in DOMAIN all, NEW j \in DOMAIN all, i < j PROVE <<all[i], all[j]>> \in Before
      BY DEF Ordered
  <2> QED BY <1>1, <1>2 DEF Before
<1>7. ToSet(all) = DOMAIN msgs BY <1>2 DEF ToSet
<1>8. kept \subseteq DOMAIN msgs OBVIOUS
<1> HIDE DEF kept
<1>9. Only(all, kept) \in Seq(DOMAIN msgs) /\ ToSet(Only(all, kept)) = kept
  <2>1. Only(all, kept) \in Seq(DOMAIN msgs) /\ ToSet(Only(all, kept)) = ToSet(all) \cap kept BY <1>5, OnlySet
  <2>2. ToSet(all) \cap kept = kept BY <1>7, <1>8
  <2> QED BY <2>1, <2>2
<1>10. Ordered(Only(all, kept), Before) BY <1>5, <1>6, OnlyOrdered
<1> QED BY <1>4, <1>9, <1>10 DEF kept

\* What a newcomer reads of the log before it takes the lock.
LEMMA BacklogOrder ==
  ASSUME LogInv, NEW limit \in {0, Recent}, NEW ids, ids = ListRecentMessages(limit)
  PROVE  /\ ids \in Seq(DOMAIN msgs) /\ Ordered(ids, Before) /\ ToSet(ids) \subseteq ToSet(Visible)
         /\ limit > Len(Visible) => ids = Visible
         /\ ids # <<>> => /\ \A i \in ToSet(ids) : i >= ids[1]
                          /\ \A i \in ToSet(Visible) : i >= ids[1] => i \in ToSet(ids)
<1> DEFINE v == Visible
           n == Len(v)
           m == n - limit + 1
           D == DOMAIN msgs
<1>0. v \in Seq(D) /\ Ordered(v, Before) /\ n \in Nat /\ DOMAIN v = 1..n BY VisibleOrder
<1>1. limit \in Nat /\ D \subseteq Nat BY ChatAssumption DEF LogInv
<1>2. ids = (IF limit >= n THEN v ELSE SubSeq(v, m, n)) BY DEF ListRecentMessages
<1> HIDE DEF v, D
<1>3. \A i \in 1..n : v[i] \in D BY <1>0
<1>4. \A i \in 1..n : v[i] \in Nat BY <1>1, <1>3
<1>5. CASE limit >= n
  <2>1. ids = v BY <1>2, <1>5
  <2>2. ASSUME v # <<>>, NEW i \in ToSet(v) PROVE i >= v[1]
    <3>1. PICK p \in 1..n : i = v[p] BY <1>0 DEF ToSet
    <3>2. 1 \in 1..n /\ v[1] \in Nat /\ v[p] \in Nat BY <1>0, <1>4
    <3>3. p # 1 => <<v[1], v[p]>> \in Before BY <1>0, <3>2 DEF Ordered
    <3> QED BY <3>1, <3>2, <3>3 DEF Before
  <2> QED BY <1>0, <2>1, <2>2 DEF v, D
<1>6. CASE ~(limit >= n)
  <2>1. ids = SubSeq(v, m, n) BY <1>2, <1>6
  <2>2. m \in Nat /\ m >= 1 /\ n <= Len(v) /\ m <= n + 1 BY <1>0, <1>1, <1>6
  <2> HIDE DEF m
  <2>3. /\ SubSeq(v, m, n) \in Seq(D)
        /\ ToSet(SubSeq(v, m, n)) = {v[i] : i \in m..n}
        /\ ToSet(SubSeq(v, m, n)) \subseteq ToSet(v)
    BY <1>0, <2>2, SubSeqSet
  <2>4. Ordered(SubSeq(v, m, n), Before) BY <1>0, <2>2, SubSeqOrdered
  <2>5. ASSUME ids # <<>>
        PROVE  /\ ids[1] = v[m] /\ m \in 1..n
               /\ \A i \in m..n : v[i] >= v[m]
               /\ \A i \in 1..n : v[i] >= v[m] => i \in m..n
    <3>1. m \in 1..n /\ ids[1] = v[m] BY <1>0, <2>1, <2>2, <2>5
    <3>2. \A i \in 1..n : v[i] \in Nat BY <1>4
    <3>3. \A i \in 1..n : (m < i => <<v[m], v[i]>> \in Before) /\ (i < m => <<v[i], v[m]>> \in Before)
      BY <1>0, <3>1 DEF Ordered
    <3>4. \A i \in m..n : v[i] >= v[m]
      <4> TAKE i \in m..n
      <4>1. i \in 1..n /\ (i = m \/ m < i) BY <2>2
      <4>2. m < i => v[m] < v[i] BY <3>3, <4>1 DEF Before
      <4> QED BY <3>1, <3>2, <4>1, <4>2
    <3>5. \A i \in 1..n : v[i] >= v[m] => i \in m..n
      <4> SUFFICES ASSUME NEW i \in 1..n, v[i] >= v[m], i < m PROVE FALSE BY <2>2
      <4>1. v[i] < v[m] BY <3>3 DEF Before
      <4> QED BY <3>1, <3>2, <4>1
    <3> QED BY <3>1, <3>4, <3>5
  <2>6. ASSUME ids # <<>>, NEW i \in ToSet(v), i >= ids[1] PROVE i \in ToSet(ids)
    <3>1. PICK p \in 1..n : i = v[p] BY <1>0 DEF ToSet
    <3>2. p \in m..n BY <2>5, <2>6, <3>1
    <3> QED BY <2>1, <2>3, <3>1, <3>2
  <2>7. ASSUME ids # <<>>, NEW i \in ToSet(ids) PROVE i >= ids[1]
    <3>1. PICK p \in m..n : i = v[p] BY <2>1, <2>3, <2>7
    <3> QED BY <2>5, <2>7, <3>1
  <2>8. ~(limit > n) BY <1>0, <1>1, <1>6
  <2> QED BY <2>1, <2>3, <2>4, <2>6, <2>7, <2>8 DEF v, D
<1> QED BY <1>5, <1>6

\* It follows the room from there on, from its first message or from where
\* the backlog begins.
LEMMA BacklogFollows ==
  ASSUME LogInv, NEW limit \in {0, Recent}, NEW ids, ids = ListRecentMessages(limit),
         NEW rows, rows = [i \in DOMAIN ids |-> Pin(msgs, ids[i])],
         NEW from, from = IF limit > Len(Visible) THEN 1 ELSE IF ids = <<>> THEN Len(msgs) + 1 ELSE ids[1]
  PROVE  Follows(Now, rows, from, {})
<1>0. /\ Now.msgs = msgs /\ Now.untold = untold /\ msgs \in Seq(Message)
      /\ DOMAIN msgs = 1..Len(msgs) /\ Len(msgs) \in Nat
  BY DEF Now, LogInv
<1>1. /\ ids \in Seq(DOMAIN msgs) /\ Ordered(ids, Before) /\ ToSet(ids) \subseteq ToSet(Visible)
      /\ limit > Len(Visible) => ids = Visible
      /\ ids # <<>> => /\ \A i \in ToSet(ids) : i >= ids[1]
                       /\ \A i \in ToSet(Visible) : i >= ids[1] => i \in ToSet(ids)
  BY BacklogOrder
<1>2. ToSet(Visible) = {i \in DOMAIN msgs : Shown(i)} BY VisibleOrder
<1>3. rows \in Seq(Line) /\ Ordered(rows, Older) /\ ToSet(rows) = {Pin(msgs, i) : i \in ToSet(ids)}
  BY <1>1, RowLines
<1>4. \A i \in DOMAIN msgs : Pin(msgs, i).id = i BY <1>0, PinType
<1>5. \A i \in ToSet(ids) : i \in DOMAIN msgs /\ msgs[i].state = "shown" BY <1>1, <1>2 DEF Shown
<1>6. ids # <<>> => ids[1] \in DOMAIN msgs BY <1>1
<1>7. from <= Len(msgs) + 1 BY <1>0, <1>6
<1>8. \A i \in ToSet(ids) : i >= from
  <2> TAKE i \in ToSet(ids)
  <2>1. i \in 1..Len(msgs) BY <1>0, <1>5
  <2>2. ids # <<>> BY DEF ToSet
  <2> QED BY <1>1, <2>1, <2>2
<1>9. \A i \in DOMAIN msgs : msgs[i].state = "shown" /\ i >= from => i \in ToSet(ids)
  <2> SUFFICES ASSUME NEW i \in DOMAIN msgs, msgs[i].state = "shown", i >= from PROVE i \in ToSet(ids) OBVIOUS
  <2>1. i \in ToSet(Visible) BY <1>2, <2>1 DEF Shown
  <2>2. CASE limit > Len(Visible) BY <1>1, <2>1, <2>2
  <2>3. CASE ~(limit > Len(Visible)) /\ ids = <<>> BY <1>0, <2>3
  <2>4. CASE ~(limit > Len(Visible)) /\ ids # <<>> BY <1>1, <2>1, <2>4
  <2> QED BY <2>2, <2>3, <2>4
<1>10. ASSUME NEW l \in ToSet(rows)
       PROVE  /\ l.id \in DOMAIN msgs /\ msgs[l.id].state = "shown" /\ l.id >= from /\ l = Pin(msgs, l.id)
  <2>1. PICK i \in ToSet(ids) : l = Pin(msgs, i) BY <1>3
  <2>2. l.id = i BY <1>4, <1>5, <2>1
  <2> QED BY <1>5, <1>8, <2>1, <2>2
<1>11. ASSUME NEW i \in DOMAIN msgs, msgs[i].state = "shown", i >= from PROVE \E l \in ToSet(rows) : l.id = i
  <2>1. i \in ToSet(ids) BY <1>9, <1>11
  <2> QED BY <1>3, <1>4, <2>1
<1> QED BY <1>0, <1>3, <1>7, <1>10, <1>11 DEF Follows

\* Who follows the room shows what CatchesUp wants.
LEMMA FedCatchesUp == ASSUME LogInv, ConnInv, FedInv PROVE CatchesUp
<1> SUFFICES ASSUME NEW c \in Conns, conn[c].viewer, conn[c].closed = None
             PROVE  LET v == Caught(c)
                        shows == Only(v.lines, {l \in ToSet(v.lines) : l.id \notin Excused(c)})
                        want == Only(Visible, {i \in ToSet(Visible) : i >= v.from /\ i \notin Excused(c)})
                    IN shows = [i \in DOMAIN want |-> Pin(msgs, want[i])] /\ v.pin = pinned
    BY DEF CatchesUp
<1> DEFINE k == conn[c]
           v == Caught(c)
           excused == Excused(c)
           kept == {l \in ToSet(v.lines) : l.id \notin excused}
           wanted == {i \in ToSet(Visible) : i >= v.from /\ i \notin excused}
           shows == Only(v.lines, kept)
           want == Only(Visible, wanted)
           rows == [i \in DOMAIN want |-> Pin(msgs, want[i])]
<1>0. k \in Connection /\ k.view \in View /\ k.out \in Seq(Event) BY DEF ConnInv, Connection
<1>1. v = Reads(k.view, k.out) /\ v \in View
  <2>1. v = Reads(k.view, k.out) BY DEF Caught
  <2>2. Reads(k.view, k.out) \in View /\ <<>> \in Seq(Event) BY <1>0, ReadsConcat
  <2> QED BY <2>1, <2>2
<1>2. v.lines \in Seq(Line) /\ v.from \in Nat BY <1>1 DEF View
<1>3. Shows(Now, v, k.missed) BY <1>1 DEF FedInv, Fed
<1>4. Now.msgs = msgs /\ Now.untold = untold /\ Now.pinned = pinned BY DEF Now
<1>5. Follows(Now, v.lines, v.from, k.missed) /\ v.pin = pinned BY <1>3, <1>4 DEF Shows
<1>6. excused = k.missed \cup untold \cup {i \in DOMAIN msgs : msgs[i].state = "purged"} BY DEF Excused
<1>7. /\ Visible \in Seq(DOMAIN msgs) /\ Ordered(Visible, Before)
      /\ ToSet(Visible) = {i \in DOMAIN msgs : Shown(i)}
  BY VisibleOrder
<1>8. \A i \in DOMAIN msgs : Pin(msgs, i).id = i BY PinType DEF LogInv
<1> HIDE DEF k, v, excused
<1>9. Ordered(v.lines, Older) BY <1>5 DEF Follows
<1>10. kept \subseteq ToSet(v.lines) /\ wanted \subseteq ToSet(Visible) OBVIOUS
<1>11. shows \in Seq(Line) /\ ToSet(shows) = ToSet(v.lines) \cap kept /\ Ordered(shows, Older)
  <2> HIDE DEF kept
  <2> QED BY <1>2, <1>9, OnlySet, OnlyOrdered
<1>12. want \in Seq(DOMAIN msgs) /\ ToSet(want) = ToSet(Visible) \cap wanted /\ Ordered(want, Before)
  <2> HIDE DEF wanted
  <2> QED BY <1>7, OnlySet, OnlyOrdered
<1>13. rows \in Seq(Line) /\ Ordered(rows, Older) /\ ToSet(rows) = {Pin(msgs, i) : i \in ToSet(want)}
  <2> HIDE DEF want
  <2> QED BY <1>12, RowLines
<1> HIDE DEF shows, want, rows
<1>14. \A l \in ToSet(shows) : l \in ToSet(rows)
  <2> TAKE l \in ToSet(shows)
  <2>1. l \in ToSet(v.lines) /\ l.id \notin excused BY <1>11
  <2>2. l.id \in DOMAIN msgs BY <1>4, <1>5, <2>1 DEF Follows
  <2>3. l.id \notin k.missed /\ msgs[l.id].state # "purged" /\ l.id \notin untold BY <1>6, <2>1, <2>2
  <2>4. msgs[l.id].state = "shown" /\ l.id >= v.from /\ l = Pin(msgs, l.id)
      BY <1>4, <1>5, <2>1, <2>3 DEF Follows
  <2>5. l.id \in ToSet(want) BY <1>7, <1>12, <2>1, <2>2, <2>4 DEF Shown
  <2> QED BY <1>13, <2>4, <2>5
<1>15. \A l \in ToSet(rows) : l \in ToSet(shows)
  <2> SUFFICES ASSUME NEW i \in ToSet(want) PROVE Pin(msgs, i) \in ToSet(shows) BY <1>13
  <2>1. i \in DOMAIN msgs /\ msgs[i].state = "shown" /\ i >= v.from /\ i \notin excused BY <1>7, <1>12 DEF Shown
  <2>2. i \notin k.missed /\ i \notin untold BY <1>6, <2>1
  <2>3. PICK l \in ToSet(v.lines) : l.id = i BY <1>4, <1>5, <2>1, <2>2 DEF Follows
  <2>4. l = Pin(msgs, i) BY <1>4, <1>5, <2>1, <2>2, <2>3 DEF Follows
  <2> QED BY <1>11, <2>1, <2>3, <2>4
<1>16. shows = rows
  <2>1. \A x, y \in Line : <<x, y>> \in Older => <<y, x>> \notin Older BY DEF Older, Line
  <2>2. ToSet(shows) = ToSet(rows) BY <1>14, <1>15
  <2> QED BY <1>11, <1>13, <2>1, <2>2, OrderedSame
<1> QED BY <1>5, <1>16 DEF shows, want, rows, v, excused

-----------------------------------------------------------------------------
(***************************************************************************)
(* The steps of a connection                                               *)
(***************************************************************************)

\* What the room has to show is a table.
LEMMA NowTable ==
  ASSUME LogInv
  PROVE  Now \in Table /\ Now.msgs = msgs /\ Now.untold = untold /\ Now.pinned = pinned
<1>1. DOMAIN msgs \subseteq Nat BY DEF LogInv
<1> QED BY <1>1 DEF LogInv, Now, Table, Pins

\* Every connection is one of its outcomes.
LEMMA EachFed ==
  ASSUME NEW outcomes, conn' \in Each(outcomes), \A c \in Conns : \A j \in outcomes[c] : Fed(j, Now')
  PROVE  FedInv'
<1>1. \A c \in Conns : conn'[c] \in outcomes[c] BY DEF Each
<1> QED BY <1>1 DEF FedInv

\* Everyone hears of what changed.
LEMMA BroadcastFed ==
  ASSUME ConnInv, FedInv, NEW es \in Seq(Event), NEW ids \in SUBSET Nat, Broadcast(es, ids),
         Serves(Now, Now', es, ids)
  PROVE  FedInv'
<1> DEFINE outcomes == [c \in Conns |-> Heard(conn[c], es, ids)]
<1>1. conn' \in Each(outcomes) BY DEF Broadcast
<1>2. ASSUME NEW c \in Conns, NEW j \in outcomes[c] PROVE Fed(j, Now')
  <2>1. j \in Heard(conn[c], es, ids) BY <1>2
  <2>2. Learns(conn[c]) /\ Fed(conn[c], Now) BY DEF ConnInv, FedInv
  <2> QED BY <2>1, <2>2, HeardFed
<1> HIDE DEF outcomes
<1> QED BY <1>1, <1>2, EachFed

\* Nobody hears of what changed.
LEMMA SilentFed ==
  ASSUME ConnInv, FedInv, conn' = conn, Serves(Now, Now', <<>>, {})
  PROVE  FedInv'
<1> SUFFICES ASSUME NEW c \in Conns PROVE Fed(conn[c], Now') BY DEF FedInv
<1> DEFINE k == conn[c]
<1>1. Learns(k) /\ Fed(k, Now) BY DEF ConnInv, FedInv
<1> HIDE DEF k
<1>2. /\ k \in Connection /\ k.out \in Seq(Event) /\ k.backlog \in Seq(Line) /\ k.from \in Nat
      /\ k.missed \in SUBSET Nat /\ <<>> \in Seq(Event)
  BY <1>1 DEF Learns, Connection
<1>3. CASE k.viewer
  <2>1. k.out \o <<>> = k.out BY <1>2
  <2>2. k = [k EXCEPT !.out = @ \o <<>>] BY <1>2, <2>1 DEF Connection
  <2>3. Queued(k, k, <<>>) BY <2>2 DEF Queued
  <2> QED BY <1>1, <1>2, <1>3, <2>3, QueuedFed DEF k
<1>4. CASE ~k.viewer
  <2> SUFFICES ASSUME k.phase = "reading" PROVE Follows(Now', k.backlog, k.from, k.missed)
      BY <1>1, <1>4 DEF Fed, k
  <2>1. Follows(Now, k.backlog, k.from, k.missed) BY <1>1 DEF Fed
  <2>2. Follows(Now', k.backlog, k.from, k.missed \cup {}) BY <1>2, <2>1 DEF Serves
  <2>3. k.missed \cup {} = k.missed OBVIOUS
  <2> QED BY <2>2, <2>3
<1> QED BY <1>3, <1>4

\* One connection changes, and nothing else.
LEMMA OneFed ==
  ASSUME ConnInv, FedInv, NEW c \in Conns, NEW k, Fed(k, Now), conn' = [conn EXCEPT ![c] = k],
         UNCHANGED <<msgs, untold, pinned>>
  PROVE  FedInv'
<1>1. Now' = Now BY DEF Now
<1>2. \A d \in Conns : conn'[d] = IF d = c THEN k ELSE conn[d] BY DEF ConnInv
<1> QED BY <1>1, <1>2 DEF FedInv

\* A newcomer reads what the room shows at that moment.
LEMMA ReadBacklogFed ==
  ASSUME LogInv, ConnInv, FedInv, NEW c \in Conns, ReadBacklog(c)
  PROVE  FedInv'
<1>1. PICK limit \in {0, Recent} :
        LET ids == ListRecentMessages(limit)
        IN conn' = [conn EXCEPT ![c] =
            [Blank EXCEPT !.phase = "reading",
                          !.backlog = [i \in DOMAIN ids |-> Pin(msgs, ids[i])],
                          !.from = IF limit > Len(Visible) THEN 1
                                   ELSE IF ids = <<>> THEN Len(msgs) + 1 ELSE ids[1]]]
  BY DEF ReadBacklog
<1> DEFINE ids == ListRecentMessages(limit)
           back == [i \in DOMAIN ids |-> Pin(msgs, ids[i])]
           from == IF limit > Len(Visible) THEN 1 ELSE IF ids = <<>> THEN Len(msgs) + 1 ELSE ids[1]
           j == [Blank EXCEPT !.phase = "reading", !.backlog = back, !.from = from]
<1>2. conn' = [conn EXCEPT ![c] = j] BY <1>1
<1>3. Follows(Now, back, from, {}) BY BacklogFollows
<1> HIDE DEF back, from
<1>4. /\ j.phase = "reading" /\ ~j.viewer /\ j.out = <<>> /\ j.backlog = back /\ j.from = from
      /\ j.missed = {}
  BY DEF Blank
<1> HIDE DEF j
<1>5. Fed(j, Now) BY <1>3, <1>4 DEF Fed
<1>6. UNCHANGED <<msgs, untold, pinned>> BY DEF ReadBacklog
<1> QED BY <1>2, <1>5, <1>6, OneFed

\* The welcome of Join makes a viewer of a newcomer, who shows the backlog
\* and the pin.
LEMMA JoinedFed ==
  ASSUME LogInv, NEW k, Learns(k), k.phase = "reading", Fed(k, Now)
  PROVE  Fed(Joined(k), Now)
<1> DEFINE e == Welcome(k)
           v == k.view
           in == Joined(k)
<1>1. k \in Connection /\ v \in View /\ e \in Event BY JoinedLearns DEF Learns, Connection
<1>2. in.phase = "running" /\ in.out = <<e>> /\ in.view = v /\ in.missed = k.missed
  BY <1>1 DEF Joined, Connection
<1>3. e.type = "welcome" /\ e.lines = k.backlog /\ e.from = k.from /\ e.pin = pinned BY DEF Welcome
<1>4. Follows(Now, k.backlog, k.from, k.missed) BY DEF Fed
<1> HIDE DEF e, v, in
<1>5. Reads(v, <<e>>) = [v EXCEPT !.lines = e.lines, !.from = e.from, !.pin = e.pin]
  <2>1. Reads(v, <<e>>) = See(v, e) BY <1>1, ReadsShort
  <2>2. See(v, e) = [v EXCEPT !.lines = e.lines, !.from = e.from, !.pin = e.pin] BY <1>1, <1>3, SeeCases
  <2> QED BY <2>1, <2>2
<1>6. /\ Reads(v, <<e>>).lines = e.lines /\ Reads(v, <<e>>).from = e.from /\ Reads(v, <<e>>).pin = e.pin
  BY <1>1, <1>5 DEF View
<1>7. Shows(Now, Reads(v, <<e>>), k.missed) BY <1>3, <1>4, <1>6, NowTable DEF Shows
<1> QED BY <1>2, <1>7 DEF Fed, in

\* A line of the log, and what everyone hears of it.
LEMMA LineServes ==
  ASSUME LogInv, NEW new \in LogLines(msgs), msgs' = msgs \o new, UNCHANGED <<pinned, untold>>
  PROVE  /\ Serves(Now, Now', Announce(msgs, new), New(msgs, new))
         /\ Announce(msgs, new) \in Seq(Event) /\ New(msgs, new) \in SUBSET Nat
<1>1. Now' = [Now EXCEPT !.msgs = msgs \o new]
  <2> DEFINE ms == msgs \o new
  <2>1. Now' = [msgs |-> ms, untold |-> untold, pinned |-> pinned] BY DEF Now
  <2> HIDE DEF ms
  <2>2. [Now EXCEPT !.msgs = ms] = [msgs |-> ms, untold |-> untold, pinned |-> pinned] BY DEF Now
  <2> QED BY <2>1, <2>2 DEF ms
<1>2. Now \in Table /\ Now.msgs = msgs BY NowTable
<1>3. Serves(Now, [Now EXCEPT !.msgs = @ \o new], Announce(Now.msgs, new), New(Now.msgs, new))
  BY <1>2, ServesLine
<1>4. [Now EXCEPT !.msgs = @ \o new] = [Now EXCEPT !.msgs = msgs \o new] BY <1>2
<1>5. Serves(Now, Now', Announce(msgs, new), New(msgs, new)) BY <1>1, <1>2, <1>3, <1>4
<1>6. Announce(msgs, new) \in Seq(Event) /\ New(msgs, new) \in SUBSET Nat
  BY LogLineTypes, AnnounceType DEF LogInv
<1> QED BY <1>5, <1>6

\* A newcomer joins, and everyone hears of it.
LEMMA JoinFed ==
  ASSUME LogInv, ConnInv, FedInv, NEW c \in Conns, Join(c)
  PROVE  FedInv'
<1>1. PICK new \in LogLines(msgs) :
        /\ msgs' = msgs \o new
        /\ conn' \in Each([d \in Conns |-> Heard(IF d = c THEN Joined(conn[c]) ELSE conn[d],
                                                 Announce(msgs, new), New(msgs, new))])
  BY DEF Join, Joined, Welcome
<1> DEFINE es == Announce(msgs, new)
           n == New(msgs, new)
           k(d) == IF d = c THEN Joined(conn[c]) ELSE conn[d]
           outcomes == [d \in Conns |-> Heard(k(d), es, n)]
<1>2. conn[c].phase = "reading" /\ UNCHANGED <<pinned, untold>> BY DEF Join
<1>3. es \in Seq(Event) /\ n \in SUBSET Nat /\ Serves(Now, Now', es, n) BY <1>1, <1>2, LineServes
<1>4. conn' \in Each(outcomes) BY <1>1
<1> HIDE DEF es, n
<1>5. ASSUME NEW d \in Conns PROVE Learns(k(d)) /\ Fed(k(d), Now)
  BY <1>2, JoinedLearns, JoinedFed DEF ConnInv, FedInv
<1>6. ASSUME NEW d \in Conns, NEW j \in outcomes[d] PROVE Fed(j, Now')
  <2>1. j \in Heard(k(d), es, n) BY <1>6
  <2>2. Learns(k(d)) /\ Fed(k(d), Now) BY <1>5
  <2> HIDE DEF k
  <2> QED BY <1>3, <2>1, <2>2, HeardFed
<1> HIDE DEF outcomes
<1> QED BY <1>4, <1>6, EachFed

\* What reaches the browser was queued, and who is closed is owed nothing.
LEMMA OwnFed ==
  ASSUME LogInv, ConnInv, FedInv, NEW c \in Conns,
         Leave(c) \/ ReadEnds(c) \/ Write(c) \/ WriteFails(c) \/ CloseFrame(c)
  PROVE  FedInv'
<1> DEFINE k == conn[c]
<1>0. Learns(k) /\ k \in Connection /\ Fed(k, Now) BY DEF ConnInv, FedInv, Learns
<1>1. UNCHANGED <<msgs, untold, pinned>> BY DEF Leave, ReadEnds, Write, WriteFails, CloseFrame
<1>2. "retry" \in Reasons BY DEF Reasons
<1>3. CASE Leave(c)
  <2>1. conn' = [conn EXCEPT ![c] = Blank] BY <1>3 DEF Leave
  <2>2. Fed(Blank, Now) BY DEF Fed, Blank
  <2> QED BY <1>1, <2>1, <2>2, OneFed
<1>4. CASE ReadEnds(c)
  <2> DEFINE m == Closed(k, "retry")
             j == [m EXCEPT !.phase = "ending", !.lost = @ \/ ~k.written]
  <2>1. conn' = [conn EXCEPT ![c] = j] BY <1>4 DEF ReadEnds
  <2>2. m.closed # None /\ m \in Connection BY <1>0, <1>2, ClosedLearns DEF Learns
  <2> HIDE DEF m
  <2>3. j.phase = "ending" /\ j.closed = m.closed BY <2>2 DEF Connection
  <2> HIDE DEF j
  <2>4. Fed(j, Now) BY <2>2, <2>3 DEF Fed
  <2> QED BY <1>1, <2>1, <2>4, OneFed
<1>5. CASE Write(c)
  <2> DEFINE e == Head(k.out)
             rest == Tail(k.out)
             seen == See(k.view, e)
             j == [k EXCEPT !.out = rest, !.view = seen, !.told = @ \/ IsKicked(e)]
  <2>1. conn' = [conn EXCEPT ![c] = j] /\ k.out # <<>> BY <1>5 DEF Write
  <2>2. k.out \in Seq(Event) /\ k.view \in View BY <1>0 DEF Connection
  <2>3. Reads(seen, rest) = Reads(k.view, k.out) BY <2>1, <2>2, ReadsNext
  <2> HIDE DEF e, rest, seen
  <2>4. /\ j.phase = k.phase /\ j.viewer = k.viewer /\ j.closed = k.closed /\ j.missed = k.missed
        /\ j.out = rest /\ j.view = seen
      BY <1>0 DEF Connection
  <2> HIDE DEF j, k
  <2>5. k.phase # "reading" BY <1>0, <2>1 DEF Fed
  <2>6. Fed(j, Now) BY <1>0, <2>3, <2>4, <2>5 DEF Fed
  <2> QED BY <1>1, <2>1, <2>6, OneFed
<1>6. CASE WriteFails(c)
  <2> DEFINE m == Closed(k, "retry")
             j == [m EXCEPT !.out = <<>>, !.lost = TRUE]
  <2>1. conn' = [conn EXCEPT ![c] = j] /\ k.out # <<>> BY <1>6 DEF WriteFails
  <2>2. m.closed # None /\ m \in Connection BY <1>0, <1>2, ClosedLearns DEF Learns
  <2>3. m.phase = k.phase BY <1>0 DEF Closed, Connection
  <2> HIDE DEF m
  <2>4. j.phase = m.phase /\ j.closed = m.closed BY <2>2 DEF Connection
  <2> HIDE DEF j, k
  <2>5. k.phase # "reading" BY <1>0, <2>1 DEF Fed
  <2>6. Fed(j, Now) BY <2>2, <2>3, <2>4, <2>5 DEF Fed
  <2> QED BY <1>1, <2>1, <2>6, OneFed
<1>7. CASE CloseFrame(c)
  <2> DEFINE j == [k EXCEPT !.written = TRUE, !.out = <<>>]
  <2>1. conn' = [conn EXCEPT ![c] = j] /\ k.closed # None BY <1>7 DEF CloseFrame
  <2>2. /\ j.phase = k.phase /\ j.closed = k.closed /\ j.missed = k.missed /\ j.backlog = k.backlog
        /\ j.from = k.from /\ j.out = <<>>
      BY <1>0 DEF Connection
  <2> HIDE DEF j, k
  <2>3. Fed(j, Now) BY <1>0, <2>1, <2>2 DEF Fed
  <2> QED BY <1>1, <2>1, <2>3, OneFed
<1> QED BY <1>3, <1>4, <1>5, <1>6, <1>7

-----------------------------------------------------------------------------
(***************************************************************************)
(* The steps of the room                                                   *)
(***************************************************************************)

\* Nothing to show changes.
LEMMA SameServes ==
  ASSUME LogInv, Now' = Now
  PROVE  /\ Serves(Now, Now', <<>>, {}) /\ Serves(Now, Now', <<[type |-> "notice"]>>, {})
         /\ Serves(Now, Now', <<Snapshot>>, {})
<1>1. Now \in Table /\ Now.pinned = pinned /\ pinned \in Pins BY NowTable DEF LogInv, Pins
<1>2. [Now EXCEPT !.pinned = pinned] = Now BY DEF Now
<1>3. Snapshot \in PinEvents /\ Snapshot.pin = pinned BY <1>1 DEF Snapshot, PinEvents
<1>4. Serves(Now, [Now EXCEPT !.pinned = pinned], <<Snapshot>>, {}) BY <1>1, <1>3, ServesPin
<1>5. Serves(Now, Now, <<Snapshot>>, {}) BY <1>2, <1>4
<1>6. Serves(Now, Now, <<>>, {}) /\ Serves(Now, Now, <<[type |-> "notice"]>>, {}) BY ServesQuietly
<1> QED BY <1>5, <1>6

\* Lines and messages.
LEMMA LinesFed ==
  ASSUME LogInv, ConnInv, FedInv, Log \/ \E t \in Tabs : ChatSend(t)
  PROVE  FedInv'
<1>1. CASE Log
  <2>1. PICK new \in LogLines(msgs) : msgs' = msgs \o new /\ Broadcast(Announce(msgs, new), New(msgs, new))
      BY <1>1 DEF Log
  <2>2. UNCHANGED <<pinned, untold>> BY <1>1 DEF Log
  <2> QED BY <2>1, <2>2, LineServes, BroadcastFed
<1>2. ASSUME NEW t \in Tabs, ChatSend(t) PROVE FedInv'
  <2> DEFINE m == [author |-> UserOf[t], rev |-> 0, state |-> "shown"]
             new == <<m>>
             es == Announce(msgs, new)
             ids == New(msgs, new)
  <2>1. msgs' = msgs \o new /\ Broadcast(es, ids) /\ UNCHANGED <<pinned, untold>> BY <1>2 DEF ChatSend
  <2>2. m \in Message /\ m.state = "shown" BY ChatAssumption DEF Message
  <2>3. new \in Seq(Message) BY <2>2
  <2>4. es \in Seq(Event) /\ ids \in SUBSET Nat BY <2>3, AnnounceType DEF LogInv
  <2>5. Now \in Table /\ Now.msgs = msgs BY NowTable
  <2>6. Serves(Now, [Now EXCEPT !.msgs = @ \o <<m>>], Announce(Now.msgs, <<m>>), New(Now.msgs, <<m>>))
    <3> HIDE DEF m
    <3> QED BY <2>2, <2>5, ServesNew
  <2> HIDE DEF new
  <2>7. Now' = [Now EXCEPT !.msgs = @ \o new]
    <3> DEFINE ms == msgs \o new
    <3>1. Now' = [msgs |-> ms, untold |-> untold, pinned |-> pinned] BY <2>1 DEF Now
    <3> HIDE DEF ms
    <3>2. [Now EXCEPT !.msgs = ms] = [msgs |-> ms, untold |-> untold, pinned |-> pinned] BY DEF Now
    <3> QED BY <2>5, <3>1, <3>2 DEF ms
  <2>8. Serves(Now, Now', es, ids) BY <2>5, <2>6, <2>7 DEF new
  <2> HIDE DEF es, ids
  <2> QED BY <2>1, <2>4, <2>8, BroadcastFed
<1> QED BY <1>1, <1>2

\* Snapshots, reactions and typing hints.
LEMMA NoticesFed ==
  ASSUME LogInv, ConnInv, FedInv, SendState \/ \E t \in Tabs : React(t) \/ ChatTyping(t)
  PROVE  FedInv'
<1> DEFINE e == [type |-> "notice"]
<1>0. UNCHANGED <<msgs, pinned, untold>> BY DEF SendState, React, ChatTyping
<1>1. /\ e \in Event /\ <<e>> \in Seq(Event) /\ <<Snapshot>> \in Seq(Event) /\ {} \in SUBSET Nat
      /\ <<>> \in Seq(Event)
  BY EventTypes
<1>2. Now' = Now BY <1>0 DEF Now
<1>3. Serves(Now, Now', <<>>, {}) /\ Serves(Now, Now', <<e>>, {}) /\ Serves(Now, Now', <<Snapshot>>, {})
  BY <1>2, SameServes
<1>4. ASSUME SendState PROVE FedInv'
  <2>1. Broadcast(<<Snapshot>>, {}) BY <1>4 DEF SendState
  <2> QED BY <1>1, <1>3, <2>1, BroadcastFed
<1>5. ASSUME NEW t \in Tabs, React(t) PROVE FedInv'
  <2>1. Broadcast(<<e>>, {}) BY <1>5 DEF React
  <2> HIDE DEF e
  <2> QED BY <1>1, <1>3, <2>1, BroadcastFed
<1>6. ASSUME NEW t \in Tabs, ChatTyping(t) PROVE FedInv'
  <2> DEFINE outcomes == [c \in Conns |-> IF conn[c].viewer /\ UserOf[c] # UserOf[t] THEN Send(conn[c], e) ELSE {conn[c]}]
  <2>1. conn' \in Each(outcomes) BY <1>6 DEF ChatTyping
  <2> HIDE DEF e
  <2>2. ASSUME NEW c \in Conns, NEW j \in outcomes[c] PROVE Fed(j, Now')
    <3> DEFINE k == conn[c]
    <3>1. Learns(k) /\ Fed(k, Now) BY DEF ConnInv, FedInv
    <3>2. j = k \/ (k.viewer /\ j \in Send(k, e)) BY <2>2
    <3> HIDE DEF k
    <3>3. CASE j = k BY <1>2, <3>1, <3>3
    <3>4. CASE k.viewer /\ j \in Send(k, e)
      <4>1. Learns(j) /\ j.viewer BY <1>1, <3>1, <3>4, SendLearns
      <4>2. j.closed = None => k.closed = None /\ j = [k EXCEPT !.out = Append(@, e)]
          BY <1>1, <3>1, <3>4, SendOpen
      <4>3. k.out \in Seq(Event) BY <3>1 DEF Learns, Connection
      <4>4. Append(k.out, e) = k.out \o <<e>> BY <1>1, <4>3
      <4>5. Queued(k, j, <<e>>) BY <4>2, <4>4 DEF Queued
      <4> QED BY <1>1, <1>3, <3>1, <3>4, <4>1, <4>5, QueuedFed
    <3> QED BY <3>2, <3>3, <3>4
  <2> HIDE DEF outcomes
  <2> QED BY <2>1, <2>2, EachFed
<1> QED BY <1>4, <1>5, <1>6

\* A kick and the end of the session: who is put out is owed nothing.
LEMMA OutFed ==
  ASSUME LogInv, ConnInv, FedInv, EndSession \/ \E u \in Users : Kick(u)
  PROVE  FedInv'
<1>0. ASSUME NEW k, Learns(k), k.viewer, NEW j \in Out(k), NEW r PROVE Fed(j, r)
  <2>1. ~j.viewer /\ j.phase # "reading" BY <1>0, OutLearns
  <2> QED BY <2>1 DEF Fed
<1>1. ASSUME NEW u \in Users, Kick(u) PROVE FedInv'
  <2> DEFINE outcomes == [c \in Conns |-> IF conn[c].viewer /\ UserOf[c] = u THEN Out(conn[c])
                                          ELSE Heard(conn[c], <<Snapshot>>, {})]
  <2>1. conn' \in Each(outcomes) /\ UNCHANGED <<msgs, pinned, untold>> BY <1>1 DEF Kick
  <2>2. Now' = Now BY <2>1 DEF Now
  <2>3. Serves(Now, Now', <<Snapshot>>, {}) /\ <<Snapshot>> \in Seq(Event) /\ {} \in SUBSET Nat
      BY <2>2, SameServes, EventTypes
  <2>4. ASSUME NEW c \in Conns, NEW j \in outcomes[c] PROVE Fed(j, Now')
    <3> DEFINE k == conn[c]
    <3>1. Learns(k) /\ Fed(k, Now) BY DEF ConnInv, FedInv
    <3>2. (k.viewer /\ j \in Out(k)) \/ j \in Heard(k, <<Snapshot>>, {}) BY <2>4
    <3> HIDE DEF k
    <3> QED BY <1>0, <2>3, <3>1, <3>2, HeardFed
  <2> HIDE DEF outcomes
  <2> QED BY <2>1, <2>4, EachFed
<1>2. ASSUME EndSession PROVE FedInv'
  <2>1. PICK new \in LogLines(msgs) :
          /\ msgs' = msgs \o new
          /\ conn' \in Each([c \in Conns |->
              IF conn[c].viewer THEN UNION {Out(j) : j \in SendAll(conn[c], Announce(msgs, new))}
              ELSE Heard(conn[c], <<>>, New(msgs, new))])
      BY <1>2 DEF EndSession
  <2> DEFINE es == Announce(msgs, new)
             n == New(msgs, new)
             outcomes == [c \in Conns |-> IF conn[c].viewer THEN UNION {Out(j) : j \in SendAll(conn[c], es)}
                                          ELSE Heard(conn[c], <<>>, n)]
  <2>2. UNCHANGED <<pinned, untold>> BY <1>2 DEF EndSession
  <2>3. es \in Seq(Event) /\ n \in SUBSET Nat /\ Serves(Now, Now', es, n) BY <2>1, <2>2, LineServes
  <2>4. conn' \in Each(outcomes) BY <2>1
  <2> HIDE DEF es, n
  <2>5. ASSUME NEW c \in Conns, NEW i \in outcomes[c] PROVE Fed(i, Now')
    <3> DEFINE k == conn[c]
    <3>1. Learns(k) /\ Fed(k, Now) BY DEF ConnInv, FedInv
    <3>2. i \in (IF k.viewer THEN UNION {Out(j) : j \in SendAll(k, es)} ELSE Heard(k, <<>>, n)) BY <2>5
    <3> HIDE DEF k
    <3>3. CASE k.viewer
      <4>1. PICK j \in SendAll(k, es) : i \in Out(j) BY <3>2, <3>3
      <4>2. Learns(j) /\ j.viewer BY <2>3, <3>1, <3>3, SendAllLearns
      <4> QED BY <1>0, <4>1, <4>2
    <3>4. CASE ~k.viewer
      <4>1. i \in Heard(k, es, n) BY <3>2, <3>4 DEF Heard
      <4> QED BY <2>3, <3>1, <4>1, HeardFed
    <3> QED BY <3>3, <3>4
  <2> HIDE DEF outcomes
  <2> QED BY <2>4, <2>5, EachFed
<1> QED BY <1>1, <1>2

\* Nobody is left to follow the room when it is unloaded.
LEMMA AloneFed == ASSUME ConnInv, Restart \/ Unload PROVE FedInv'
<1>1. CASE Restart
  <2>1. \A c \in Conns : conn'[c] = Blank BY <1>1 DEF Restart
  <2>2. \A r : Fed(Blank, r) BY DEF Fed, Blank
  <2> QED BY <2>1, <2>2 DEF FedInv
<1>2. CASE Unload
  <2>1. PICK reason \in Reasons :
          conn' = [c \in Conns |-> IF conn[c].viewer THEN [Closed(conn[c], reason) EXCEPT !.viewer = FALSE]
                                   ELSE conn[c]]
      BY <1>2 DEF Unload
  <2>2. ASSUME NEW c \in Conns PROVE Fed(conn'[c], Now')
    <3> DEFINE k == conn[c]
               m == Closed(k, reason)
               j == [m EXCEPT !.viewer = FALSE]
    <3>1. Learns(k) /\ reason \in Reasons /\ k.phase # "reading" BY <1>2 DEF ConnInv, Reasons, Unload
    <3>2. Learns(m) /\ m.viewer = k.viewer /\ m \in Connection BY <3>1, ClosedLearns DEF Learns
    <3>3. conn'[c] = (IF k.viewer THEN j ELSE k) BY <2>1
    <3> HIDE DEF m, k
    <3>4. j.phase = m.phase /\ ~j.viewer BY <3>2 DEF Connection
    <3> HIDE DEF j
    <3>5. CASE k.viewer
      <4>1. m.phase # "reading" BY <3>2, <3>5 DEF Learns
      <4>2. conn'[c] = j BY <3>3, <3>5
      <4> QED BY <3>4, <4>1, <4>2 DEF Fed
    <3>6. CASE ~k.viewer
      <4>1. conn'[c] = k BY <3>3, <3>6
      <4> QED BY <3>1, <3>6, <4>1 DEF Fed
    <3> QED BY <3>5, <3>6
  <2> QED BY <2>2 DEF FedInv
<1> QED BY <1>1, <1>2

\* The retention takes messages that nobody is told of.
LEMMA PurgeFed ==
  ASSUME LogInv, LogInv', ConnInv, FedInv, NEW n \in DOMAIN msgs, PurgeMessagesBefore(n)
  PROVE  FedInv'
<1>1. /\ msgs' = [i \in DOMAIN msgs |-> IF i <= n THEN [msgs[i] EXCEPT !.state = "purged"] ELSE msgs[i]]
      /\ untold' = untold \ 1..n /\ pinned' = pinned /\ conn' = conn
  BY DEF PurgeMessagesBefore
<1>2. /\ DOMAIN msgs = 1..Len(msgs) /\ Len(msgs) \in Nat /\ n \in Nat
      /\ \A i \in DOMAIN msgs : msgs[i] \in Message
  BY DEF LogInv
<1>3. msgs' \in Seq(Message) /\ Len(msgs') = Len(msgs) BY <1>1, <1>2 DEF LogInv
<1>4. \A i \in DOMAIN msgs : /\ i <= n => msgs'[i].state = "purged"
                             /\ i > n => msgs'[i] = msgs[i]
  BY <1>1, <1>2 DEF Message
<1>5. Now \in Table /\ Now.msgs = msgs /\ Now.untold = untold /\ Now.pinned = pinned BY NowTable
<1> DEFINE s == Now'
<1>6. s \in Table /\ s.msgs = msgs' /\ s.untold = untold' /\ s.pinned = pinned'
  <2>1. DOMAIN msgs' \subseteq Nat BY <1>3
  <2> QED BY <2>1 DEF Now, Table, LogInv, Pins
<1> HIDE DEF s
<1>7. Serves(Now, s, <<>>, {}) BY <1>1, <1>2, <1>3, <1>4, <1>5, <1>6, ServesPurge
<1> QED BY <1>1, <1>7, SilentFed DEF s

-----------------------------------------------------------------------------
(***************************************************************************)
(* The chat commands                                                       *)
(***************************************************************************)

\* The pin event that goes with a change that takes or moves the pin.
LEMMA ServesPinned ==
  ASSUME NEW r \in Table, NEW s \in Table, NEW es \in Seq(Event), NEW ids \in SUBSET Nat,
         Serves(r, s, es, ids), NEW p \in Pins
  PROVE  /\ Serves(r, [s EXCEPT !.pinned = p], es \o PinnedTo(p), ids)
         /\ [s EXCEPT !.pinned = p] \in Table
<1> DEFINE e == [type |-> "pinned", pin |-> p]
           t == [s EXCEPT !.pinned = p]
<1>1. e \in PinEvents /\ e.pin = p BY DEF PinEvents
<1>2. e \in Event BY <1>1 DEF Event
<1>3. PinnedTo(p) = <<e>> BY DEF PinnedTo
<1>4. t \in Table BY DEF Table
<1> HIDE DEF e
<1>5. Serves(s, t, <<e>>, {}) BY <1>1, ServesPin
<1>6. <<e>> \in Seq(Event) BY <1>2
<1> HIDE DEF t
<1>7. Serves(r, t, es \o <<e>>, ids \cup {}) BY <1>5, <1>6, ServesBoth
<1>8. ids \cup {} = ids OBVIOUS
<1> QED BY <1>3, <1>4, <1>7, <1>8 DEF t

\* What a line of the log adds.
LEMMA ServesLined ==
  ASSUME NEW r, NEW s \in Table, NEW es \in Seq(Event), NEW ids \in SUBSET Nat,
         Serves(r, s, es, ids), NEW new \in LogLines(s.msgs)
  PROVE  /\ Serves(r, [s EXCEPT !.msgs = @ \o new], es \o Announce(s.msgs, new), ids \cup New(s.msgs, new))
         /\ es \o Announce(s.msgs, new) \in Seq(Event) /\ ids \cup New(s.msgs, new) \in SUBSET Nat
<1> DEFINE fs == Announce(s.msgs, new)
           jds == New(s.msgs, new)
           t == [s EXCEPT !.msgs = @ \o new]
<1>1. s.msgs \in Seq(Message) BY DEF Table
<1>2. fs \in Seq(Event) /\ jds \in SUBSET Nat BY <1>1, LogLineTypes, AnnounceType
<1>3. Serves(s, t, fs, jds) BY ServesLine
<1> HIDE DEF fs, jds, t
<1>4. Serves(r, t, es \o fs, ids \cup jds) BY <1>2, <1>3, ServesBoth
<1>5. es \o fs \in Seq(Event) /\ ids \cup jds \in SUBSET Nat BY <1>2
<1> QED BY <1>4, <1>5 DEF fs, jds, t

\* An edit: the row, the line and the pin, or only the row.
LEMMA EditFed ==
  ASSUME LogInv, ConnInv, FedInv, NEW t \in Tabs, NEW id \in DOMAIN msgs, ChatEdit(t, id)
  PROVE  FedInv'
<1> DEFINE ms == [msgs EXCEPT ![id].rev = @ + 1]
           e == [type |-> "edited", line |-> Pin(ms, id)]
           es == IF Unpinned({id}) THEN <<e>> \o PinnedTo(Pin(ms, id)) ELSE <<e>>
<1>1. msgs' = ms /\ Shown(id) BY DEF ChatEdit, EditMessage
<1>2. \/ /\ Broadcast(es, {id})
         /\ pinned' = (IF Unpinned({id}) THEN Pin(ms, id) ELSE pinned) /\ untold' = untold \ {id}
      \/ untold' = untold \cup {id} /\ conn' = conn /\ pinned' = pinned
  BY DEF ChatEdit
<1>3. ms \in Seq(Message) /\ DOMAIN ms = DOMAIN msgs BY EditedRows DEF LogInv
<1>4. Len(ms) = Len(msgs) /\ \A i \in DOMAIN msgs : i # id => ms[i] = msgs[i] BY <1>3 DEF LogInv
<1>5. ms[id].state = "shown"
  <2>1. msgs[id] \in Message BY DEF LogInv
  <2> QED BY <1>1, <2>1 DEF Shown, LogInv, Message
<1> HIDE DEF ms
<1>6. Now \in Table /\ Now.msgs = msgs /\ Now.untold = untold /\ Now.pinned = pinned BY NowTable
<1>7. id \in Nat /\ {id} \in SUBSET Nat /\ untold \in SUBSET Nat /\ pinned \in Pins BY DEF LogInv, Pins
<1>8. EditedRow(Now.msgs, ms, id) BY <1>1, <1>3, <1>4, <1>5, <1>6 DEF EditedRow, Shown
<1>9. Pin(ms, id) \in Line /\ e \in Event
  <2>1. Pin(ms, id) \in Line BY <1>3, PinType
  <2> QED BY <2>1 DEF Event, LineEvents
<1>10. CASE /\ Broadcast(es, {id})
            /\ pinned' = (IF Unpinned({id}) THEN Pin(ms, id) ELSE pinned) /\ untold' = untold \ {id}
  <2> DEFINE s == [msgs |-> ms, untold |-> untold \ {id}, pinned |-> pinned]
             p == Pin(ms, id)
  <2>1. s \in Table /\ s.msgs = ms /\ s.untold = Now.untold \ {id} /\ s.pinned = Now.pinned
      BY <1>3, <1>6, <1>7 DEF Table
  <2>2. [s EXCEPT !.pinned = p] = [msgs |-> ms, untold |-> untold \ {id}, pinned |-> p] OBVIOUS
  <2>3. Now' = IF Unpinned({id}) THEN [s EXCEPT !.pinned = p] ELSE s BY <1>1, <1>10, <2>2 DEF Now
  <2> HIDE DEF s
  <2>4. Serves(Now, s, <<[type |-> "edited", line |-> Pin(s.msgs, id)]>>, {id})
      BY <1>6, <1>8, <2>1, ServesEdit
  <2>5. Serves(Now, s, <<e>>, {id}) BY <2>1, <2>4
  <2> HIDE DEF e
  <2>6. <<e>> \in Seq(Event) /\ p \in Pins BY <1>9 DEF Pins
  <2>7. Serves(Now, [s EXCEPT !.pinned = p], <<e>> \o PinnedTo(p), {id})
    <3> DEFINE fs == <<e>>
    <3>1. fs \in Seq(Event) /\ Serves(Now, s, fs, {id}) BY <2>5, <2>6
    <3> HIDE DEF fs, p
    <3>2. Serves(Now, [s EXCEPT !.pinned = p], fs \o PinnedTo(p), {id})
        BY <1>6, <1>7, <2>1, <2>6, <3>1, ServesPinned
    <3> QED BY <3>2 DEF fs
  <2>8. Serves(Now, Now', es, {id}) BY <2>3, <2>5, <2>7
  <2>9. es \in Seq(Event)
    <3>1. PinnedTo(p) \in Seq(Event) BY <2>6, EventTypes
    <3>2. <<e>> \o PinnedTo(p) \in Seq(Event) BY <2>6, <3>1
    <3> QED BY <2>6, <3>2
  <2> HIDE DEF es
  <2> QED BY <1>7, <1>10, <2>8, <2>9, BroadcastFed
<1>11. CASE untold' = untold \cup {id} /\ conn' = conn /\ pinned' = pinned
  <2> DEFINE s == [msgs |-> ms, untold |-> untold \cup {id}, pinned |-> pinned]
  <2>1. Now' = s BY <1>1, <1>11 DEF Now
  <2>2. s \in Table /\ s.msgs = ms /\ s.untold = Now.untold \cup {id} /\ s.pinned = Now.pinned
      BY <1>3, <1>6, <1>7 DEF Table
  <2> HIDE DEF s
  <2>3. Serves(Now, s, <<>>, {}) BY <1>6, <1>8, <2>2, ServesUntold
  <2> QED BY <1>11, <2>1, <2>3, SilentFed
<1> QED BY <1>2, <1>10, <1>11

\* A deletion: the row, the line and the pin.
LEMMA DeleteFed ==
  ASSUME LogInv, ConnInv, FedInv, NEW id \in DOMAIN msgs, ChatDelete(id)
  PROVE  FedInv'
<1> DEFINE ms == [msgs EXCEPT ![id].state = "deleted"]
           e == [type |-> "deleted", id |-> id]
           es == IF Unpinned({id}) THEN <<e>> \o PinnedTo(None) ELSE <<e>>
           s == [msgs |-> ms, untold |-> untold \ {id}, pinned |-> pinned]
<1>1. /\ msgs' = ms /\ pinned' = (IF Unpinned({id}) THEN None ELSE pinned)
      /\ Broadcast(es, {id}) /\ untold' = untold \ {id}
  BY DEF ChatDelete, DeleteMessage
<1>2. ms \in Seq(Message) /\ DOMAIN ms = DOMAIN msgs BY EditedRows DEF LogInv
<1>3. Len(ms) = Len(msgs) /\ \A i \in DOMAIN msgs : i # id => ms[i] = msgs[i] BY <1>2 DEF LogInv
<1>4. ms[id].state = "deleted"
  <2>1. msgs[id] \in Message BY DEF LogInv
  <2> QED BY <2>1 DEF LogInv, Message
<1> HIDE DEF ms
<1>5. Now \in Table /\ Now.msgs = msgs /\ Now.untold = untold /\ Now.pinned = pinned BY NowTable
<1>6. id \in Nat /\ {id} \in SUBSET Nat /\ untold \in SUBSET Nat /\ pinned \in Pins /\ None \in Pins
  BY DEF LogInv, Pins
<1>7. HiddenRow(Now.msgs, ms, id) BY <1>2, <1>3, <1>4, <1>5 DEF HiddenRow
<1>8. e \in Event BY <1>6 DEF Event, Deletions
<1>9. s \in Table /\ s.msgs = ms /\ s.untold = Now.untold \ {id} /\ s.pinned = Now.pinned
  BY <1>2, <1>5, <1>6 DEF Table
<1>10. [s EXCEPT !.pinned = None] = [msgs |-> ms, untold |-> untold \ {id}, pinned |-> None] OBVIOUS
<1>11. Now' = IF Unpinned({id}) THEN [s EXCEPT !.pinned = None] ELSE s BY <1>1, <1>10 DEF Now
<1> HIDE DEF s
<1>12. Serves(Now, s, <<e>>, {id}) BY <1>5, <1>7, <1>9, ServesDelete
<1> HIDE DEF e
<1>13. <<e>> \in Seq(Event) BY <1>8
<1>14. Serves(Now, [s EXCEPT !.pinned = None], <<e>> \o PinnedTo(None), {id})
  <2> DEFINE fs == <<e>>
  <2>1. fs \in Seq(Event) /\ Serves(Now, s, fs, {id}) BY <1>12, <1>13
  <2> HIDE DEF fs
  <2>2. Serves(Now, [s EXCEPT !.pinned = None], fs \o PinnedTo(None), {id})
      BY <1>5, <1>6, <1>9, <2>1, ServesPinned
  <2> QED BY <2>2 DEF fs
<1>15. Serves(Now, Now', es, {id}) BY <1>11, <1>12, <1>14
<1>16. es \in Seq(Event)
  <2>1. PinnedTo(None) \in Seq(Event) BY <1>6, EventTypes
  <2>2. <<e>> \o PinnedTo(None) \in Seq(Event) BY <1>13, <2>1
  <2> QED BY <1>13, <2>2
<1> HIDE DEF es
<1> QED BY <1>1, <1>6, <1>15, <1>16, BroadcastFed

\* A clearing: every row, the pin, and the line that tells of it.
LEMMA ClearFed ==
  ASSUME LogInv, ConnInv, FedInv, ChatClear
  PROVE  FedInv'
<1> DEFINE ms == ClearMessages
           e == [type |-> "cleared"]
           cleared == <<e>> \o IF pinned # None THEN PinnedTo(None) ELSE <<>>
           s == [msgs |-> ms, untold |-> {}, pinned |-> pinned]
           t == [msgs |-> ms, untold |-> {}, pinned |-> None]
<1>1. PICK new \in LogLines(ms) :
        msgs' = ms \o new /\ Broadcast(cleared \o Announce(ms, new), DOMAIN msgs \cup New(ms, new))
  BY DEF ChatClear
<1>2. pinned' = None /\ untold' = {} BY DEF ChatClear
<1>3. DOMAIN msgs = 1..Len(msgs) /\ Len(msgs) \in Nat /\ \A i \in DOMAIN msgs : msgs[i] \in Message
  BY DEF LogInv
<1>4. ms \in Seq(Message) /\ Len(ms) = Len(msgs) BY <1>3 DEF ClearMessages, Message
<1>5. \A i \in DOMAIN ms : ms[i].state # "shown"
  <2> SUFFICES ASSUME NEW i \in DOMAIN msgs PROVE ms[i].state # "shown" BY <1>3, <1>4
  <2>1. ms[i] = IF Shown(i) THEN [msgs[i] EXCEPT !.state = "deleted"] ELSE msgs[i] BY DEF ClearMessages
  <2>2. Shown(i) <=> msgs[i].state = "shown" BY DEF Shown
  <2> HIDE DEF ms
  <2> QED BY <1>3, <2>1, <2>2 DEF Message
<1> HIDE DEF ms
<1>6. /\ Now \in Table /\ Now.msgs = msgs /\ Now.untold \subseteq DOMAIN Now.msgs /\ Now.pinned = pinned
  BY NowTable DEF LogInv
<1>7. pinned \in Pins /\ None \in Pins /\ DOMAIN msgs \in SUBSET Nat BY <1>3 DEF LogInv, Pins
<1>8. s \in Table /\ s.msgs = ms /\ s.untold = {} /\ s.pinned = pinned BY <1>4, <1>7 DEF Table
<1>9. t = [s EXCEPT !.pinned = None] /\ (pinned = None => t = s) OBVIOUS
<1>10. t \in Table /\ t.msgs = ms BY <1>4, <1>7 DEF Table
<1>11. Now' = [t EXCEPT !.msgs = @ \o new]
  <2> DEFINE all == ms \o new
  <2>1. Now' = [msgs |-> all, untold |-> {}, pinned |-> None] BY <1>1, <1>2 DEF Now
  <2> HIDE DEF all
  <2>2. [t EXCEPT !.msgs = all] = [msgs |-> all, untold |-> {}, pinned |-> None] OBVIOUS
  <2> HIDE DEF t
  <2> QED BY <1>10, <2>1, <2>2 DEF all
<1> HIDE DEF s, t
<1>12. Serves(Now, s, <<e>>, DOMAIN msgs)
  <2>1. Serves(Now, s, <<[type |-> "cleared"]>>, DOMAIN Now.msgs) BY <1>4, <1>5, <1>6, <1>8, ServesClear
  <2> QED BY <1>6, <2>1
<1>13. e \in Event BY EventTypes
<1> HIDE DEF e
<1>14. <<e>> \in Seq(Event) BY <1>13
<1>15. cleared \in Seq(Event) /\ Serves(Now, t, cleared, DOMAIN msgs)
  <2> DEFINE fs == <<e>>
  <2>1. fs \in Seq(Event) /\ Serves(Now, s, fs, DOMAIN msgs) BY <1>12, <1>14
  <2>2. cleared = fs \o IF pinned # None THEN PinnedTo(None) ELSE <<>> OBVIOUS
  <2> HIDE DEF fs, cleared
  <2>3. fs \o <<>> = fs BY <2>1
  <2>4. Serves(Now, t, fs \o PinnedTo(None), DOMAIN msgs)
      BY <1>6, <1>7, <1>8, <1>9, <2>1, ServesPinned
  <2>5. fs \o PinnedTo(None) \in Seq(Event) BY <1>7, <2>1, EventTypes
  <2> QED BY <1>9, <2>1, <2>2, <2>3, <2>4, <2>5
<1> HIDE DEF cleared
<1>16. /\ Serves(Now, [t EXCEPT !.msgs = @ \o new], cleared \o Announce(t.msgs, new), DOMAIN msgs \cup New(t.msgs, new))
       /\ cleared \o Announce(t.msgs, new) \in Seq(Event) /\ DOMAIN msgs \cup New(t.msgs, new) \in SUBSET Nat
  BY <1>1, <1>7, <1>10, <1>15, ServesLined
<1> DEFINE es == cleared \o Announce(ms, new)
           ids == DOMAIN msgs \cup New(ms, new)
<1>17. Serves(Now, Now', es, ids) /\ es \in Seq(Event) /\ ids \in SUBSET Nat BY <1>10, <1>11, <1>16
<1>18. Broadcast(es, ids) BY <1>1
<1> HIDE DEF es, ids
<1> QED BY <1>17, <1>18, BroadcastFed

\* A pin, and the line that tells of it; an unpin, that nothing tells of.
LEMMA PinFed ==
  ASSUME LogInv, ConnInv, FedInv, ChatUnpin \/ \E id \in DOMAIN msgs : ChatPin(id)
  PROVE  FedInv'
<1>1. /\ Now \in Table /\ Now.msgs = msgs /\ Now.untold = untold /\ Now.pinned = pinned
      /\ <<>> \in Seq(Event) /\ {} \in SUBSET Nat
  BY NowTable
<1>2. Serves(Now, Now, <<>>, {}) BY ServesQuietly
<1>3. ASSUME NEW p \in Pins
      PROVE  /\ Serves(Now, [Now EXCEPT !.pinned = p], PinnedTo(p), {})
             /\ [Now EXCEPT !.pinned = p] \in Table /\ PinnedTo(p) \in Seq(Event)
  <2>1. PinnedTo(p) \in Seq(Event) BY EventTypes
  <2>2. <<>> \o PinnedTo(p) = PinnedTo(p) BY <2>1
  <2>3. /\ Serves(Now, [Now EXCEPT !.pinned = p], <<>> \o PinnedTo(p), {})
        /\ [Now EXCEPT !.pinned = p] \in Table
      BY <1>1, <1>2, ServesPinned
  <2> QED BY <2>1, <2>2, <2>3
<1>4. ASSUME NEW id \in DOMAIN msgs, ChatPin(id) PROVE FedInv'
  <2> DEFINE p == Pin(msgs, id)
             s == [Now EXCEPT !.pinned = p]
  <2>1. PICK new \in LogLines(msgs) :
          msgs' = msgs \o new /\ Broadcast(PinnedTo(p) \o Announce(msgs, new), New(msgs, new))
      BY <1>4 DEF ChatPin
  <2>2. pinned' = p /\ untold' = untold BY <1>4 DEF ChatPin
  <2>3. p \in Pins BY PinType DEF LogInv, Pins
  <2> HIDE DEF p
  <2>4. Serves(Now, s, PinnedTo(p), {}) /\ s \in Table /\ PinnedTo(p) \in Seq(Event) BY <1>3, <2>3
  <2>5. s.msgs = msgs BY <1>1
  <2>6. Now' = [s EXCEPT !.msgs = @ \o new]
    <3> DEFINE ms == msgs \o new
    <3>1. Now' = [msgs |-> ms, untold |-> untold, pinned |-> p] BY <2>1, <2>2 DEF Now
    <3> HIDE DEF ms
    <3>2. s = [msgs |-> msgs, untold |-> untold, pinned |-> p] BY DEF Now
    <3> HIDE DEF s
    <3>3. [s EXCEPT !.msgs = ms] = [msgs |-> ms, untold |-> untold, pinned |-> p] BY <3>2
    <3> QED BY <2>5, <3>1, <3>3 DEF ms
  <2> DEFINE told == PinnedTo(p)
  <2> HIDE DEF s, told
  <2>7. /\ Serves(Now, [s EXCEPT !.msgs = @ \o new], told \o Announce(s.msgs, new), {} \cup New(s.msgs, new))
        /\ told \o Announce(s.msgs, new) \in Seq(Event) /\ {} \cup New(s.msgs, new) \in SUBSET Nat
    <3>1. told \in Seq(Event) /\ Serves(Now, s, told, {}) BY <2>4 DEF told
    <3> QED BY <1>1, <2>1, <2>4, <2>5, <3>1, ServesLined
  <2> DEFINE es == told \o Announce(msgs, new)
             ids == New(msgs, new)
  <2>8. {} \cup ids = ids OBVIOUS
  <2>9. Serves(Now, Now', es, ids) /\ es \in Seq(Event) /\ ids \in SUBSET Nat BY <2>5, <2>6, <2>7, <2>8
  <2>10. Broadcast(es, ids) BY <2>1 DEF told
  <2> HIDE DEF es, ids
  <2> QED BY <2>9, <2>10, BroadcastFed
<1>5. CASE ChatUnpin
  <2>1. pinned' = None /\ Broadcast(PinnedTo(None), {}) /\ UNCHANGED <<msgs, untold>> BY <1>5 DEF ChatUnpin
  <2>2. None \in Pins BY DEF Pins
  <2>3. Now' = [Now EXCEPT !.pinned = None] BY <2>1 DEF Now
  <2>4. Serves(Now, Now', PinnedTo(None), {}) /\ PinnedTo(None) \in Seq(Event) BY <1>3, <2>2, <2>3
  <2> QED BY <1>1, <2>1, <2>4, BroadcastFed
<1> QED BY <1>4, <1>5

\* Every step keeps the connections fed.
LEMMA FedStep == ASSUME LogInv, ConnInv, FedInv, [Next]_vars PROVE FedInv'
<1>1. LogInv' BY PinStep
<1>2. ASSUME UNCHANGED <<conn, msgs, pinned, untold>> PROVE FedInv' BY <1>2 DEF FedInv, Now
<1>3. ASSUME NEW u \in Users, SetMute(u) \/ DeleteMute(u) PROVE FedInv'
  BY <1>3, <1>2 DEF SetMute, DeleteMute
<1>9. ASSUME NEW t \in Tabs, FreshActor(t) \/ ChatRefused(t) PROVE FedInv'
  BY <1>9, <1>2 DEF FreshActor, ChatRefused
<1>4. ASSUME UNCHANGED vars PROVE FedInv' BY <1>4, <1>2 DEF vars
<1>5. ASSUME NEW id \in DOMAIN msgs, ChatDelete(id) \/ ChatPin(id) \/ PurgeMessagesBefore(id) PROVE FedInv'
  BY <1>1, <1>5, DeleteFed, PinFed, PurgeFed
<1>6. ASSUME NEW c \in Conns, \/ ReadBacklog(c) \/ Join(c) \/ Leave(c) \/ ReadEnds(c)
                              \/ Write(c) \/ WriteFails(c) \/ CloseFrame(c)
      PROVE  FedInv'
  BY <1>6, ReadBacklogFed, JoinFed, OwnFed
<1>7. ASSUME NEW u \in Users, Kick(u) PROVE FedInv' BY <1>7, OutFed
<1>10. ASSUME NEW t \in Tabs, \/ ChatSend(t) \/ React(t) \/ ChatTyping(t)
                              \/ \E id \in DOMAIN msgs : ChatEdit(t, id)
      PROVE  FedInv'
  BY <1>10, LinesFed, NoticesFed, EditFed
<1>8. ASSUME ChatClear \/ ChatUnpin \/ SendState \/ Log \/ EndSession \/ Restart \/ Unload PROVE FedInv'
  BY <1>8, ClearFed, PinFed, NoticesFed, LinesFed, OutFed, AloneFed
<1> QED BY <1>3, <1>4, <1>5, <1>6, <1>7, <1>8, <1>9, <1>10 DEF Next, Command

\* Nobody reads and nobody is a viewer.
LEMMA FedInit == ASSUME Init PROVE FedInv
BY DEF Init, FedInv, Fed, Blank

\* A viewer the room still feeds will show, once its queue has reached the
\* browser, exactly the room's messages in their order, with their latest
\* text, and the room's pin: however commands, purges and snapshots
\* interleaved with its backlog and its join (chat.go, every command;
\* presence.go Join; store/room.ts handle), except what it is excused.
THEOREM ViewersCatchUp == Spec => []CatchesUp
<1>1. Init => ConnInv /\ FedInv BY ConnInit, FedInit
<1>2. LogInv /\ (ConnInv /\ FedInv) /\ [Next]_vars => (ConnInv /\ FedInv)' BY ConnStep, FedStep
<1>3. LogInv /\ (ConnInv /\ FedInv) => CatchesUp BY FedCatchesUp
<1>4. Spec => []LogInv BY PinsExist
<1> QED BY <1>1, <1>2, <1>3, <1>4, PTL DEF Spec
=============================================================================
