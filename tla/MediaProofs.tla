----------------------------- MODULE MediaProofs -----------------------------
(***************************************************************************)
(* No room queues an item whose row is gone without a reason, the package  *)
(* of a ready media is there, and a blocked source reaches no further      *)
(* room, for every number of rooms, calls, rows, packages and handlers:    *)
(* MediaInv is inductive.                                                  *)
(***************************************************************************)
EXTENDS Media, TLAPS

-----------------------------------------------------------------------------
(***************************************************************************)
(* The inductive invariant                                                 *)
(***************************************************************************)

Copy == Status \cup {"none"}
Row == [id: Ids \cup {0}, status: Status, prefix: Nat]
Hold == [list: SUBSET Ids, hist: SUBSET Ids, media: [Ids -> Copy]]
Relay == [fresh: Nat \X Copy, all: BOOLEAN, todo: SUBSET Rooms]
Removal == [phase: {"idle", "block", "queued", "objects", "purge", "row", "tell", "reload"},
            id: Nat, prefix: Nat, rooms: SUBSET Rooms]

MediaTypes ==
    /\ row \in Row /\ last \in [id: Nat, prefix: Nat]
    /\ objects \in {"none", "whole", "torn"} /\ blocked \in BOOLEAN
    /\ queue \in SUBSET Rooms /\ played \in SUBSET Rooms
    /\ adding \in SUBSET (Calls \X Rooms) /\ late \in SUBSET (Calls \X Rooms)
    /\ held \in [Rooms -> Hold]
    /\ loading \in [Rooms -> SUBSET Hold]
    /\ relay \in [Relays -> Relay]
    /\ \A p \in Relays : relay[p].todo # {} => relay[p].fresh[2] \in Status
    /\ remover \in [Removers -> Removal]

\* The items go with the row.
Rooted == row.id = 0 => queue = {} /\ played = {}

\* A room that is being loaded is in nobody's hands.
Unread == \A r \in Rooms : ~Loaded(r) => held[r] = Empty

\* Every id in use was handed out.
Numbered == row.id <= last.id /\ \A p \in Removers : remover[p].id <= last.id

\* The evictor's removal knows the rooms that took in the media after it was
\* listed: when it was, no queue and no history had it.
Listed ==
    LET k == remover["evictor"]
    IN k.id = row.id /\ row.id # 0 => queue \cup played \subseteq k.rooms

\* A ready media has a package.
Published == row.status = "ready" => row.prefix # 0

\* Whoever is past Admit while the source is blocked was so before the block.
Barred == blocked => adding \subseteq late

MediaInv ==
    /\ MediaTypes
    /\ Rooted /\ Unread /\ Numbered /\ Listed /\ NoGhosts
    /\ Published /\ ReadyHasObjects
    /\ Barred

\* Ids start at 1: 0 names no row.
LEMMA NoZero == Ids \subseteq Nat \ {0}
  BY MediaAssumption DEF Ids

\* The invariant holds of an empty library.
LEMMA MediaInit == Init => MediaInv
<1> SUFFICES ASSUME Init PROVE MediaInv OBVIOUS
<1> USE DEF Init
<1>1. Empty \in Hold /\ Empty.list = {} BY DEF Empty, Hold, Copy
<1>2. Idle \in Relay /\ Idle.todo = {} BY DEF Idle, Relay, Copy
<1>3. Done \in Removal /\ Done.id = 0 BY DEF Done, Removal
<1>4. NoRow \in Row /\ NoRow.id = 0 /\ NoRow.status # "ready" BY DEF NoRow, Row, Status
<1>5. MediaTypes BY <1>1, <1>2, <1>3, <1>4 DEF MediaTypes
<1>6. Rooted /\ Unread BY DEF Rooted, Unread
<1>7. Numbered BY <1>3, <1>4 DEF Numbered
<1>8. Listed BY <1>4 DEF Listed
<1>9. NoGhosts BY <1>1 DEF NoGhosts
<1>10. Published /\ ReadyHasObjects BY <1>4 DEF Published, ReadyHasObjects
<1>11. Barred BY DEF Barred
<1> QED BY <1>5, <1>6, <1>7, <1>8, <1>9, <1>10, <1>11 DEF MediaInv

-----------------------------------------------------------------------------
(***************************************************************************)
(* What a step leaves alone                                                *)
(***************************************************************************)

\* The actions of a room, by what they change.
Adds(r) == \E c \in Calls : QueueAdd(c, r)
Asks(r) == \E c \in Calls : Admit(c, r) \/ QueueAddRefused(c, r)
Replays(r) == \E id \in Ids : QueueReplay(r, id)
Items(r) == \E id \in Ids : QueueRemove(r, id) \/ MarkPlayed(r, id)
Forgets(r) == \E id \in Ids : HistoryForgets(r, id)
History(r) == QueueClearPlayed(r) \/ PurgePlayed(r) \/ RequeuePlayed(r)
Loads(r) == LoadRead(r) \/ LoadDone(r)
Hears(r) == \E p \in Relays : Apply(p, r)
Reloads(r) == ReloadQueue(r) \/ ReloadQueueFails(r)

\* The actions of the server, by what they change.
Ingests == Publish \/ FailMedia
Begins == (\E p \in Removers : ListStale(p)) \/ \E first \in {"block", "queued"} : GetMedia(first)
Decides == MediaQueued \/ RequestFails
Empties(p) == DeletePrefix(p) \/ DeletePrefixFails(p) \/ DeleteMediaFails(p)
Bars == AdminBlock \/ AdminUnblock

\* A step is one of these.
LEMMA Steps ==
    ASSUME [Next]_vars
    PROVE  \/ \E r \in Rooms : Adds(r) \/ Asks(r) \/ Replays(r) \/ Items(r) \/ Forgets(r) \/ History(r)
           \/ \E r \in Rooms : QueueRetry(r) \/ Loads(r) \/ Hears(r) \/ Reloads(r)
           \/ Ingests \/ Connect \/ Disconnect \/ WaitForNotification \/ Tick
           \/ Begins \/ Decides \/ BlockSource \/ Bars \/ MediaDeleted
           \/ \E p \in Removers : Empties(p) \/ DeleteMedia(p)
           \/ UNCHANGED vars
  BY DEF Next, Adds, Asks, Replays, Items, Forgets, History, Loads, Hears, Reloads, Ingests,
     Begins, Decides, Empties, Bars

\* The row and its package.
LEMMA StoreFrame ==
    ASSUME [Next]_vars
    PROVE  \/ UNCHANGED store
           \/ \E r \in Rooms : Adds(r) \/ QueueRetry(r)
           \/ Ingests
           \/ \E p \in Removers : Empties(p) \/ DeleteMedia(p)
<1>1. ASSUME NEW r \in Rooms,
             Asks(r) \/ Replays(r) \/ Items(r) \/ Forgets(r) \/ History(r) \/ Loads(r) \/ Hears(r) \/ Reloads(r)
      PROVE  UNCHANGED store
  BY <1>1 DEF Asks, Replays, Items, Forgets, History, Loads, Hears, Reloads, Admit, QueueAddRefused,
     QueueReplay, QueueRemove, MarkPlayed, HistoryForgets, QueueClearPlayed, PurgePlayed, RequeuePlayed,
     LoadRead, LoadDone, Apply, ReloadQueue, ReloadQueueFails
<1>2. CASE \/ Connect \/ Disconnect \/ WaitForNotification \/ Tick
           \/ Begins \/ Decides \/ BlockSource \/ Bars \/ MediaDeleted \/ UNCHANGED vars
  BY <1>2 DEF Connect, Disconnect, WaitForNotification, Tick, Begins, Decides, Bars, ListStale, GetMedia,
     MediaQueued, RequestFails, BlockSource, AdminBlock, AdminUnblock, MediaDeleted, vars, store
<1> QED BY <1>1, <1>2, Steps

\* The removals.
LEMMA RemoverFrame ==
    ASSUME [Next]_vars
    PROVE  \/ UNCHANGED remover
           \/ \E r \in Rooms : Adds(r) \/ Replays(r) \/ Reloads(r)
           \/ Begins \/ Decides \/ BlockSource \/ MediaDeleted
           \/ \E p \in Removers : Empties(p) \/ DeleteMedia(p)
<1>1. ASSUME NEW r \in Rooms,
             Asks(r) \/ Items(r) \/ Forgets(r) \/ History(r) \/ QueueRetry(r) \/ Loads(r) \/ Hears(r)
      PROVE  UNCHANGED remover
  BY <1>1 DEF Asks, Items, Forgets, History, Loads, Hears, Admit, QueueAddRefused,
     QueueRemove, MarkPlayed, HistoryForgets, QueueClearPlayed, PurgePlayed, RequeuePlayed, QueueRetry,
     LoadRead, LoadDone, Apply
<1>2. CASE Ingests \/ Connect \/ Disconnect \/ WaitForNotification \/ Tick \/ Bars \/ UNCHANGED vars
  BY <1>2 DEF Ingests, Publish, FailMedia, Connect, Disconnect, WaitForNotification, Tick, Bars,
     AdminBlock, AdminUnblock, vars
<1> QED BY <1>1, <1>2, Steps

\* The rooms and their items.
LEMMA RoomsFrame ==
    ASSUME [Next]_vars
    PROVE  \/ UNCHANGED rooms
           \/ \E r \in Rooms : Adds(r) \/ Replays(r) \/ Items(r) \/ Forgets(r) \/ History(r)
           \/ \E r \in Rooms : QueueRetry(r) \/ Loads(r) \/ Hears(r) \/ Reloads(r)
           \/ MediaDeleted \/ \E p \in Removers : DeleteMedia(p)
<1>1. ASSUME NEW r \in Rooms, Asks(r) PROVE UNCHANGED rooms BY <1>1 DEF Asks, Admit, QueueAddRefused
<1>2. CASE \/ Ingests \/ Connect \/ Disconnect \/ WaitForNotification \/ Tick
           \/ Begins \/ Decides \/ BlockSource \/ Bars \/ UNCHANGED vars
  BY <1>2 DEF Ingests, Publish, FailMedia, Connect, Disconnect, WaitForNotification, Tick, Begins, Decides, Bars,
     ListStale, GetMedia, MediaQueued, RequestFails, BlockSource, AdminBlock, AdminUnblock, vars, rooms
<1>3. ASSUME NEW p \in Removers, Empties(p) PROVE UNCHANGED rooms
  BY <1>3 DEF Empties, DeletePrefix, DeletePrefixFails, DeleteMediaFails
<1> QED BY <1>1, <1>2, <1>3, Steps

\* The blocklist and who is past it.
LEMMA PeopleFrame ==
    ASSUME [Next]_vars
    PROVE  \/ UNCHANGED people
           \/ \E r \in Rooms : Asks(r) \/ Adds(r)
           \/ BlockSource \/ Bars
<1>1. ASSUME NEW r \in Rooms,
             \/ Replays(r) \/ Items(r) \/ Forgets(r) \/ History(r)
             \/ QueueRetry(r) \/ Loads(r) \/ Hears(r) \/ Reloads(r)
      PROVE  UNCHANGED people
  BY <1>1 DEF Replays, Items, Forgets, History, Loads, Hears, Reloads,
     QueueReplay, QueueRemove, MarkPlayed, HistoryForgets, QueueClearPlayed, PurgePlayed, RequeuePlayed,
     QueueRetry, LoadRead, LoadDone, Apply, ReloadQueue, ReloadQueueFails
<1>2. CASE \/ Ingests \/ Connect \/ Disconnect \/ WaitForNotification \/ Tick
           \/ Begins \/ Decides \/ MediaDeleted \/ UNCHANGED vars
  BY <1>2 DEF Ingests, Publish, FailMedia, Connect, Disconnect, WaitForNotification, Tick, Begins, Decides,
     ListStale, GetMedia, MediaQueued, RequestFails, MediaDeleted, vars, people
<1>3. ASSUME NEW p \in Removers, Empties(p) \/ DeleteMedia(p) PROVE UNCHANGED people
  BY <1>3 DEF Empties, DeletePrefix, DeletePrefixFails, DeleteMediaFails, DeleteMedia
<1> QED BY <1>1, <1>2, <1>3, Steps

\* The news.
LEMMA RelayFrame ==
    ASSUME [Next]_vars
    PROVE  \/ UNCHANGED relay
           \/ \E r \in Rooms : Hears(r)
           \/ Connect \/ WaitForNotification \/ Tick
           \/ \E p \in Removers : DeleteMedia(p)
<1> USE DEF news
<1>1. ASSUME NEW r \in Rooms,
             \/ Adds(r) \/ Asks(r) \/ Replays(r) \/ Items(r) \/ Forgets(r) \/ History(r)
             \/ QueueRetry(r) \/ Loads(r) \/ Reloads(r)
      PROVE  UNCHANGED relay
  BY <1>1 DEF Adds, Asks, Replays, Items, Forgets, History, Loads, Reloads, QueueAdd, Admit, QueueAddRefused,
     QueueReplay, QueueRemove, MarkPlayed, HistoryForgets, QueueClearPlayed, PurgePlayed, RequeuePlayed,
     QueueRetry, LoadRead, LoadDone, ReloadQueue, ReloadQueueFails
<1>2. CASE \/ Ingests \/ Disconnect \/ Begins \/ Decides \/ BlockSource \/ Bars \/ MediaDeleted \/ UNCHANGED vars
  BY <1>2 DEF Ingests, Publish, FailMedia, Disconnect, Begins, Decides, Bars, ListStale, GetMedia,
     MediaQueued, RequestFails, BlockSource, AdminBlock, AdminUnblock, MediaDeleted, vars
<1>3. ASSUME NEW p \in Removers, Empties(p) PROVE UNCHANGED relay
  BY <1>3 DEF Empties, DeletePrefix, DeletePrefixFails, DeleteMediaFails
<1> QED BY <1>1, <1>2, <1>3, Steps

-----------------------------------------------------------------------------
(***************************************************************************)
(* Types                                                                   *)
(***************************************************************************)

\* The parts of a row.
LEMMA RowParts ==
    ASSUME MediaTypes
    PROVE  row.id \in Nat /\ row.id \in Ids \cup {0} /\ row.status \in Status /\ row.prefix \in Nat
<1>1. row.id \in Ids \cup {0} /\ row.status \in Status /\ row.prefix \in Nat BY DEF MediaTypes, Row
<1>2. Ids \cup {0} \subseteq Nat BY NoZero
<1> QED BY <1>1, <1>2

\* A removal that begins, moves on or ends stays within its type.
LEMMA RemovalTypes ==
    ASSUME MediaTypes, NEW p \in Removers,
           NEW phase \in {"block", "queued", "objects", "purge", "row", "tell", "reload"},
           Starts(p, phase) \/ Goes(p, phase) \/ Ends(p)
    PROVE  remover' \in [Removers -> Removal]
<1>1. [phase |-> phase, id |-> row.id, prefix |-> row.prefix, rooms |-> {}] \in Removal
  BY RowParts DEF Removal
<1>2. [remover[p] EXCEPT !.phase = phase] \in Removal BY DEF MediaTypes, Removal
<1>3. Done \in Removal BY DEF Done, Removal
<1> QED BY <1>1, <1>2, <1>3 DEF Starts, Goes, Ends, MediaTypes

\* An item that is added is known to the evictor's removal of its media.
LEMMA AddedTypes ==
    ASSUME MediaTypes, NEW r \in Rooms, NEW id, AddQueueItem(r, id)
    PROVE  /\ remover' \in [Removers -> Removal]
           /\ remover'["admin"] = remover["admin"]
           /\ \A p \in Removers : /\ remover'[p].phase = remover[p].phase
                                  /\ remover'[p].id = remover[p].id
                                  /\ remover'[p].prefix = remover[p].prefix
           /\ remover["evictor"].rooms \subseteq remover'["evictor"].rooms
           /\ remover["evictor"].id = id => r \in remover'["evictor"].rooms
<1> DEFINE k == remover["evictor"]
           rs == IF k.id = id THEN k.rooms \cup {r} ELSE k.rooms
           k1 == [k EXCEPT !.rooms = rs]
<1>1. k \in Removal BY DEF MediaTypes, Removers
<1>2. rs \in SUBSET Rooms BY <1>1 DEF Removal
<1>3. k1 \in Removal /\ k1.rooms = rs /\ k1.phase = k.phase /\ k1.id = k.id /\ k1.prefix = k.prefix
  BY <1>1, <1>2 DEF Removal
<1>4. remover' = [remover EXCEPT !["evictor"] = k1] BY DEF AddQueueItem
<1>5. k.rooms \subseteq rs /\ (k.id = id => r \in rs) OBVIOUS
<1> HIDE DEF k1, rs
<1> QED BY <1>3, <1>4, <1>5 DEF MediaTypes, Removers

\* Telling a room.
LEMMA ToldType ==
    ASSUME MediaTypes, NEW r \in Rooms, Told(r)
    PROVE  remover' \in [Removers -> Removal]
<1> DEFINE k == remover["admin"]
           k1 == [k EXCEPT !.rooms = @ \ {r}]
<1>1. k \in Removal BY DEF MediaTypes, Removers
<1>2. k1 \in Removal BY <1>1 DEF Removal
<1>3. Done \in Removal BY DEF Done, Removal
<1>4. remover' = [remover EXCEPT !["admin"] = IF k.rooms = {r} THEN Done ELSE k1] BY DEF Told
<1> HIDE DEF k1, k
<1> QED BY <1>2, <1>3, <1>4 DEF MediaTypes

\* The removals keep their type.
LEMMA RemoverType ==
    ASSUME MediaTypes, [Next]_vars
    PROVE  remover' \in [Removers -> Removal]
<1> USE DEF Removers
<1>1. ASSUME NEW r \in Rooms, Adds(r) PROVE remover' \in [Removers -> Removal]
  BY <1>1, AddedTypes DEF Adds, QueueAdd
<1>2. ASSUME NEW r \in Rooms, Replays(r) PROVE remover' \in [Removers -> Removal]
  BY <1>2, AddedTypes DEF Replays, QueueReplay
<1>3. ASSUME NEW r \in Rooms, Reloads(r) PROVE remover' \in [Removers -> Removal]
  BY <1>3, ToldType DEF Reloads, ReloadQueue, ReloadQueueFails
<1>4. CASE Begins BY <1>4, RemovalTypes DEF Begins, ListStale, GetMedia
<1>5. CASE Decides \/ BlockSource BY <1>5, RemovalTypes DEF Decides, MediaQueued, RequestFails, BlockSource
<1>6. ASSUME NEW p \in Removers, Empties(p) PROVE remover' \in [Removers -> Removal]
  BY <1>6, RemovalTypes DEF Empties, DeletePrefix, DeletePrefixFails, DeleteMediaFails
<1>7. ASSUME NEW p \in Removers, DeleteMedia(p) PROVE remover' \in [Removers -> Removal]
  <2>1. [Done EXCEPT !.phase = "tell", !.id = remover[p].id] \in Removal BY DEF MediaTypes, Done, Removal
  <2>2. CASE Ends(p) BY <2>2, RemovalTypes
  <2> QED BY <1>7, <2>1, <2>2 DEF DeleteMedia, MediaTypes
<1>8. CASE MediaDeleted
  <2> DEFINE k == remover["admin"]
             k1 == [k EXCEPT !.phase = "reload", !.rooms = Holding(k.id)]
  <2>1. CASE Ends("admin") BY <2>1, RemovalTypes
  <2>2. CASE remover' = [remover EXCEPT !["admin"].phase = "reload", !["admin"].rooms = Holding(k.id)]
    <3>1. k \in Removal BY DEF MediaTypes
    <3>2. Holding(k.id) \in SUBSET Rooms BY DEF Holding
    <3>3. k1 \in Removal BY <3>1, <3>2 DEF Removal
    <3>4. remover' = [remover EXCEPT !["admin"] = k1] BY <2>2
    <3> HIDE DEF k, k1
    <3> QED BY <3>3, <3>4 DEF MediaTypes
  <2> QED BY <1>8, <2>1, <2>2 DEF MediaDeleted
<1>9. CASE UNCHANGED remover BY <1>9 DEF MediaTypes
<1> QED BY <1>1, <1>2, <1>3, <1>4, <1>5, <1>6, <1>7, <1>8, <1>9, RemoverFrame

\* The row and its package keep their types.
LEMMA StoreType ==
    ASSUME MediaTypes, [Next]_vars
    PROVE  row' \in Row /\ last' \in [id: Nat, prefix: Nat] /\ objects' \in {"none", "whole", "torn"}
<1> DEFINE Goal == row' \in Row /\ last' \in [id: Nat, prefix: Nat] /\ objects' \in {"none", "whole", "torn"}
<1> USE DEF MediaTypes
<1>1. CASE UNCHANGED store BY <1>1 DEF store
<1>2. ASSUME NEW r \in Rooms, Adds(r) PROVE Goal
  <2> DEFINE id == IF row.id = 0 THEN last.id + 1 ELSE row.id
  <2>1. id \in Ids BY <1>2 DEF Adds, QueueAdd
  <2>2. [NoRow EXCEPT !.id = id] \in Row BY <2>1 DEF NoRow, Row, Status
  <2>3. row' \in Row BY <1>2, <2>2 DEF Adds, QueueAdd
  <2>4. last' \in [id: Nat, prefix: Nat] BY <1>2, <2>1, NoZero DEF Adds, QueueAdd
  <2> QED BY <1>2, <2>3, <2>4 DEF Adds, QueueAdd
<1>3. ASSUME NEW r \in Rooms, QueueRetry(r) PROVE Goal BY <1>3 DEF QueueRetry, Row, Status
<1>4. CASE Publish
  <2>1. last.prefix + 1 \in Nat OBVIOUS
  <2>2. row' \in Row BY <1>4, <2>1 DEF Publish, Row, Status
  <2>3. last' \in [id: Nat, prefix: Nat] BY <1>4, <2>1 DEF Publish
  <2> QED BY <1>4, <2>2, <2>3 DEF Publish
<1>5. CASE FailMedia BY <1>5 DEF FailMedia, Row, Status
<1>6. ASSUME NEW p \in Removers, Empties(p) PROVE Goal
  BY <1>6 DEF Empties, DeletePrefix, DeletePrefixFails, DeleteMediaFails, Tears
<1>7. ASSUME NEW p \in Removers, DeleteMedia(p) PROVE Goal
  <2>1. NoRow \in Row BY DEF NoRow, Row, Status
  <2> QED BY <1>7, <2>1 DEF DeleteMedia
<1> QED BY <1>1, <1>2, <1>3, <1>4, <1>5, <1>6, <1>7, StoreFrame DEF Ingests

\* So do the blocklist and the calls past it.
LEMMA PeopleType ==
    ASSUME MediaTypes, [Next]_vars
    PROVE  blocked' \in BOOLEAN /\ adding' \in SUBSET (Calls \X Rooms) /\ late' \in SUBSET (Calls \X Rooms)
<1> USE DEF MediaTypes
<1>1. CASE UNCHANGED people BY <1>1 DEF people
<1>2. ASSUME NEW r \in Rooms, NEW c \in Calls, Admit(c, r) \/ QueueAddRefused(c, r) \/ QueueAdd(c, r)
      PROVE  blocked' \in BOOLEAN /\ adding' \in SUBSET (Calls \X Rooms) /\ late' \in SUBSET (Calls \X Rooms)
  BY <1>2 DEF Admit, QueueAddRefused, QueueAdd, Added
<1>3. CASE BlockSource \/ Bars BY <1>3 DEF BlockSource, Bars, AdminBlock, AdminUnblock, Blocks
<1> QED BY <1>1, <1>2, <1>3, PeopleFrame DEF Asks, Adds

\* News are of a row, with a status of its own.
LEMMA RelayType ==
    ASSUME MediaTypes, [Next]_vars
    PROVE  /\ relay' \in [Relays -> Relay]
           /\ \A p \in Relays : relay'[p].todo # {} => relay'[p].fresh[2] \in Status
<1> DEFINE Fits(k) == k \in Relay /\ (k.todo # {} => k.fresh[2] \in Status)
           Goal == /\ relay' \in [Relays -> Relay]
                   /\ \A p \in Relays : relay'[p].todo # {} => relay'[p].fresh[2] \in Status
<1>1. Fits(Idle) BY DEF Idle, Relay, Copy
<1>2. ASSUME NEW all \in BOOLEAN, NEW to \in SUBSET Rooms PROVE Fits(News(all, to))
  <2>1. [fresh |-> <<row.id, row.status>>, all |-> all, todo |-> to] \in Relay
    BY RowParts DEF Relay, Copy
  <2>2. row.status \in Status BY DEF MediaTypes, Row
  <2> QED BY <1>1, <2>1, <2>2 DEF News
<1>3. ASSUME NEW p \in Relays, NEW k, Fits(k), relay' = [relay EXCEPT ![p] = k] PROVE Goal
  BY <1>3 DEF MediaTypes
<1>4. Fits(Reconcile) BY <1>2 DEF Reconcile
<1>5. \A id : Fits(News(FALSE, Holding(id))) BY <1>2 DEF Holding
<1>6. ASSUME NEW r \in Rooms, Hears(r) PROVE Goal
  <2>0. PICK p \in Relays : Apply(p, r) BY <1>6 DEF Hears
  <2> DEFINE k == [relay[p] EXCEPT !.todo = relay[p].todo \ {r}]
  <2>1. Fits(k) /\ (k.todo = {} => Fits(Idle)) BY <1>1, <2>0 DEF MediaTypes, Relay, Apply
  <2>2. relay' = [relay EXCEPT ![p] = IF relay[p].todo \ {r} = {} THEN Idle ELSE k] BY <2>0 DEF Apply
  <2> HIDE DEF k
  <2> QED BY <1>1, <1>3, <2>1, <2>2
<1>7. CASE Connect BY <1>3, <1>4, <1>7 DEF Connect, Relays
<1>8. CASE WaitForNotification BY <1>3, <1>5, <1>8 DEF WaitForNotification, Relays
<1>9. CASE Tick BY <1>3, <1>4, <1>9 DEF Tick, Relays
<1>10. ASSUME NEW q \in Removers, DeleteMedia(q) PROVE Goal
  <2>1. \A p \in Relays : Fits(relay[p]) BY DEF MediaTypes
  <2>2. relay' = [s \in Relays |-> IF relay[s].fresh[1] = remover[q].id THEN Idle ELSE relay[s]]
    BY <1>10 DEF DeleteMedia
  <2> QED BY <1>1, <2>1, <2>2
<1>11. CASE UNCHANGED relay BY <1>11 DEF MediaTypes
<1> QED BY <1>6, <1>7, <1>8, <1>9, <1>10, <1>11, RelayFrame

\* What a room reads from the tables.
LEMMA FromDBType ==
    ASSUME MediaTypes, Rooted, NEW r \in Rooms
    PROVE  /\ Live(r) \in SUBSET Ids /\ Past(r) \in SUBSET Ids
           /\ \A list \in SUBSET Ids, hist \in SUBSET Ids : Reading(list, hist) \in Hold
           /\ FromDB(r) \in SUBSET Hold
           /\ \A read \in FromDB(r) : read.list = Live(r)
<1>1. row.id \in Ids \cup {0} /\ row.status \in Copy BY RowParts DEF Copy
<1>2. Live(r) \in SUBSET Ids /\ Past(r) \in SUBSET Ids BY <1>1 DEF Live, Past, Rooted
<1>3. ASSUME NEW list \in SUBSET Ids, NEW hist \in SUBSET Ids PROVE Reading(list, hist) \in Hold
  BY <1>1 DEF Reading, Hold, Copy
<1>4. ASSUME NEW hist \in SUBSET Past(r) PROVE Reading(Live(r), hist) \in Hold /\ Reading(Live(r), hist).list = Live(r)
  <2>1. hist \in SUBSET Ids BY <1>2
  <2> QED BY <1>2, <1>3, <2>1 DEF Reading
<1> QED BY <1>2, <1>3, <1>4 DEF FromDB

\* A room that drops an item keeps to its type.
LEMMA TrimType ==
    ASSUME NEW h \in Hold, NEW list \in SUBSET Ids, NEW hist \in SUBSET Ids
    PROVE  /\ Trim([h EXCEPT !.list = list]) \in Hold /\ Trim([h EXCEPT !.hist = hist]) \in Hold
           /\ Trim([h EXCEPT !.list = list]).list = list
           /\ Trim([h EXCEPT !.hist = hist]).list = h.list
<1>1. [h EXCEPT !.list = list] \in Hold /\ [h EXCEPT !.hist = hist] \in Hold BY DEF Hold
<1>2. ASSUME NEW g \in Hold PROVE Trim(g) \in Hold /\ Trim(g).list = g.list
  <2>1. [i \in Ids |-> IF i \in g.list \cup g.hist THEN g.media[i] ELSE "none"] \in [Ids -> Copy]
    BY DEF Hold, Copy
  <2> QED BY <2>1 DEF Trim, Hold
<1>3. [h EXCEPT !.list = list].list = list /\ [h EXCEPT !.hist = hist].list = h.list BY DEF Hold
<1> QED BY <1>1, <1>2, <1>3

\* A step of a room's items leaves the other rooms alone, keeps the room's
\* type and takes nothing else off its list.
Handles(r, h) == Loaded(r) /\ h \in Hold /\ held' = [held EXCEPT ![r] = h] /\ UNCHANGED loading

LEMMA AddHandles ==
    ASSUME MediaTypes, NEW r \in Rooms, NEW c \in Calls, QueueAdd(c, r)
    PROVE  \E h : Handles(r, h) /\ h.list = held[r].list \cup {row'.id}
<1> DEFINE id == IF row.id = 0 THEN last.id + 1 ELSE row.id
           h == [held[r] EXCEPT !.list = held[r].list \cup {id}, !.media[id] = row'.status]
<1>1. id \in Ids /\ row' = IF row.id = 0 THEN [NoRow EXCEPT !.id = id] ELSE row BY DEF QueueAdd
<1>2. row'.id = id BY <1>1 DEF NoRow
<1>3. row'.status \in Copy BY <1>1, RowParts DEF NoRow, Copy, Status
<1>4. held[r] \in Hold BY DEF MediaTypes
<1>5. h \in Hold /\ h.list = held[r].list \cup {id} BY <1>1, <1>3, <1>4 DEF Hold
<1>6. held' = [held EXCEPT ![r] = h]
  <2>1. held' = [held EXCEPT ![r].list = @ \cup {id}, ![r].media[id] = row'.status] BY DEF QueueAdd
  <2> HIDE DEF id
  <2>2. [held EXCEPT ![r].list = @ \cup {id}, ![r].media[id] = row'.status] = [held EXCEPT ![r] = h]
    BY DEF MediaTypes
  <2> QED BY <2>1, <2>2
<1>7. Loaded(r) /\ UNCHANGED loading BY DEF QueueAdd
<1> QED BY <1>2, <1>5, <1>6, <1>7 DEF Handles

LEMMA ReplayHandles ==
    ASSUME MediaTypes, NEW r \in Rooms, NEW id \in Ids, QueueReplay(r, id)
    PROVE  \E h : Handles(r, h) /\ h.list = held[r].list \cup {id}
<1>1. held[r] \in Hold BY DEF MediaTypes
<1> DEFINE h == [held[r] EXCEPT !.list = held[r].list \cup {id}]
<1>2. h \in Hold /\ h.list = held[r].list \cup {id} BY <1>1 DEF Hold
<1>3. held' = [held EXCEPT ![r] = h] BY DEF QueueReplay
<1>4. Loaded(r) /\ UNCHANGED loading BY DEF QueueReplay
<1> HIDE DEF h
<1> QED BY <1>2, <1>3, <1>4 DEF Handles

LEMMA RemoveHandles ==
    ASSUME MediaTypes, NEW r \in Rooms, NEW id \in Ids, QueueRemove(r, id)
    PROVE  \E h : Handles(r, h) /\ h.list = held[r].list \ {id}
<1>1. held[r] \in Hold /\ held[r].list \ {id} \in SUBSET Ids BY DEF MediaTypes, Hold
<1> DEFINE h == Trim([held[r] EXCEPT !.list = held[r].list \ {id}])
<1>2. held' = [held EXCEPT ![r] = h] BY DEF QueueRemove
<1>3. h \in Hold /\ h.list = held[r].list \ {id} BY <1>1, TrimType
<1>4. Loaded(r) /\ UNCHANGED loading BY DEF QueueRemove
<1> HIDE DEF h
<1> QED BY <1>2, <1>3, <1>4 DEF Handles

LEMMA PlayedHandles ==
    ASSUME MediaTypes, NEW r \in Rooms, NEW id \in Ids, MarkPlayed(r, id)
    PROVE  \E h : /\ Handles(r, h)
                  /\ \/ h.list = held[r].list /\ UNCHANGED <<queue, adrift>>
                     \/ /\ h.list = held[r].list \ {id}
                        /\ queue' = IF row.id = id THEN queue \ {r} ELSE queue
                        /\ adrift' = adrift \ {<<r, id>>}
<1> DEFINE hist == held[r].hist \cup ({id} \cap {row.id})
           h1 == [held[r] EXCEPT !.list = held[r].list \ {id}, !.hist = hist]
           h2 == [held[r] EXCEPT !.hist = hist]
<1>1. held[r] \in Hold BY DEF MediaTypes
<1>2. hist \in SUBSET Ids BY <1>1 DEF Hold
<1>3. h1 \in Hold /\ h1.list = held[r].list \ {id} BY <1>1, <1>2 DEF Hold
<1>4. h2 \in Hold /\ h2.list = held[r].list BY <1>1, <1>2 DEF Hold
<1>5. \/ /\ held' = [held EXCEPT ![r] = h1]
         /\ queue' = IF row.id = id THEN queue \ {r} ELSE queue
         /\ adrift' = adrift \ {<<r, id>>}
      \/ held' = [held EXCEPT ![r] = h2] /\ UNCHANGED <<queue, adrift>>
  BY DEF MarkPlayed
<1> HIDE DEF h1, h2
<1> QED BY <1>3, <1>4, <1>5 DEF MarkPlayed, Handles

LEMMA ForgetsHandles ==
    ASSUME MediaTypes, NEW r \in Rooms, Forgets(r) \/ QueueClearPlayed(r)
    PROVE  \E h : Handles(r, h) /\ h.list = held[r].list
<1>1. held[r] \in Hold BY DEF MediaTypes
<1>2. PICK hist : hist \in SUBSET Ids /\ held' = [held EXCEPT ![r] = Trim([held[r] EXCEPT !.hist = hist])]
  <2>1. CASE QueueClearPlayed(r)
    <3>1. held' = [held EXCEPT ![r] = Trim([held[r] EXCEPT !.hist = {}])] BY <2>1 DEF QueueClearPlayed
    <3> QED BY <3>1
  <2>2. ASSUME NEW id \in Ids, HistoryForgets(r, id)
        PROVE  held' = [held EXCEPT ![r] = Trim([held[r] EXCEPT !.hist = held[r].hist \ {id}])]
    BY <2>2 DEF HistoryForgets
  <2>3. \A id : held[r].hist \ {id} \in SUBSET Ids BY <1>1 DEF Hold
  <2> QED BY <2>1, <2>2, <2>3 DEF Forgets
<1>3. Loaded(r) /\ UNCHANGED loading BY DEF Forgets, HistoryForgets, QueueClearPlayed
<1> QED BY <1>1, <1>2, <1>3, TrimType DEF Handles

\* The loop: what the room lists after it is what its rows are.
LEMMA LoopHandles ==
    ASSUME MediaTypes, Rooted, NEW r \in Rooms, RequeuePlayed(r)
    PROVE  \E h : Handles(r, h) /\ h.list \subseteq Live(r)'
<1> DEFINE h1 == Reading(Live(r) \cup Past(r), {})
           h2 == [held[r] EXCEPT !.list = {}, !.hist = held[r].hist \cup held[r].list]
<1>1. held[r] \in Hold BY DEF MediaTypes
<1>2. h1 \in Hold /\ h1.list = Live(r) \cup Past(r) BY FromDBType DEF Reading
<1>3. h2 \in Hold /\ h2.list = {} BY <1>1 DEF Hold
<1>4. held' = [held EXCEPT ![r] = h1] \/ held' = [held EXCEPT ![r] = h2] BY DEF RequeuePlayed
<1>5. queue' = queue \cup ({r} \cap played) /\ row' = row /\ Loaded(r) /\ UNCHANGED loading
  BY DEF RequeuePlayed, store
<1>6. Live(r) \cup Past(r) \subseteq Live(r)' BY <1>5 DEF Live, Past
<1> HIDE DEF h1, h2
<1> QED BY <1>2, <1>3, <1>4, <1>5, <1>6 DEF Handles

\* The rooms keep their type, and a room that is being loaded holds nothing.
LEMMA HeldType ==
    ASSUME MediaTypes, Rooted, Unread, [Next]_vars
    PROVE  held' \in [Rooms -> Hold] /\ loading' \in [Rooms -> SUBSET Hold] /\ Unread'
<1> DEFINE Goal == held' \in [Rooms -> Hold] /\ loading' \in [Rooms -> SUBSET Hold] /\ Unread'
<1>0. Empty \in Hold /\ Empty.hist = {} /\ \A i \in Ids : Empty.media[i] = "none" BY DEF Empty, Hold, Copy
<1>1. ASSUME NEW r \in Rooms, NEW h, Handles(r, h) PROVE Goal
  BY <1>1 DEF Handles, MediaTypes, Unread, Loaded
<1>2. ASSUME UNCHANGED <<held, loading>> PROVE Goal BY <1>2 DEF MediaTypes, Unread, Loaded
<1>3. ASSUME NEW r \in Rooms, Adds(r) PROVE Goal BY <1>1, <1>3, AddHandles DEF Adds
<1>4. ASSUME NEW r \in Rooms, Replays(r) PROVE Goal BY <1>1, <1>4, ReplayHandles DEF Replays
<1>5. ASSUME NEW r \in Rooms, Items(r) PROVE Goal BY <1>1, <1>5, RemoveHandles, PlayedHandles DEF Items
<1>6. ASSUME NEW r \in Rooms, Forgets(r) PROVE Goal BY <1>1, <1>6, ForgetsHandles
<1>7. ASSUME NEW r \in Rooms, History(r) PROVE Goal
  BY <1>1, <1>2, <1>7, ForgetsHandles, LoopHandles DEF History, PurgePlayed
<1>8. ASSUME NEW r \in Rooms, QueueRetry(r) PROVE Goal
  <2> DEFINE Pends(s) == [held[s] EXCEPT !.media[row.id] = "pending"]
  <2>1. PICK some \in SUBSET {s \in Rooms : row.id \in Ids /\ held[s].media[row.id] = "failed"} :
          held' = [s \in Rooms |-> IF s \in some \cup {r} THEN Pends(s) ELSE held[s]]
    BY <1>8 DEF QueueRetry
  <2>2. \A s \in Rooms : Pends(s) \in Hold BY DEF MediaTypes, Hold, Copy, Status
  <2>3. \A s \in some \cup {r} : Loaded(s)
    <3>1. \A s \in some \cup {r} : s \in Rooms /\ row.id \in Ids /\ held[s].media[row.id] = "failed"
      BY <1>8, <2>1 DEF QueueRetry
    <3> QED BY <1>0, <3>1 DEF Unread
  <2>4. loading' = loading BY <1>8 DEF QueueRetry
  <2> HIDE DEF Pends
  <2>5. held' \in [Rooms -> Hold] BY <2>1, <2>2 DEF MediaTypes
  <2>6. Unread' BY <2>1, <2>3, <2>4 DEF Unread, Loaded
  <2> QED BY <2>4, <2>5, <2>6 DEF MediaTypes
<1>9. ASSUME NEW r \in Rooms, LoadRead(r) PROVE Goal
  <2>1. PICK read \in FromDB(r) : loading' = [loading EXCEPT ![r] = {read}] BY <1>9 DEF LoadRead
  <2>2. read \in Hold BY FromDBType
  <2>3. held' = [held EXCEPT ![r] = Empty] BY <1>9 DEF LoadRead
  <2> QED BY <1>0, <2>1, <2>2, <2>3 DEF MediaTypes, Unread, Loaded
<1>10. ASSUME NEW r \in Rooms, LoadDone(r) PROVE Goal
  <2>1. PICK read \in loading[r] : held' = [held EXCEPT ![r] = read] /\ loading' = [loading EXCEPT ![r] = {}]
    BY <1>10 DEF LoadDone
  <2> QED BY <2>1 DEF MediaTypes, Unread, Loaded
<1>11. ASSUME NEW r \in Rooms, Hears(r) PROVE Goal
  <2>0. PICK p \in Relays : Apply(p, r) BY <1>11 DEF Hears
  <2> DEFINE id == relay[p].fresh[1]
             h == [held[r] EXCEPT !.media[id] = relay[p].fresh[2]]
  <2>1. relay[p].fresh[2] \in Copy BY <2>0 DEF Apply, MediaTypes, Copy
  <2>2. h \in Hold BY <2>1 DEF MediaTypes, Hold
  <2>3. CASE Takes(r, relay[p])
    <3>1. held' = [held EXCEPT ![r] = h] BY <2>0, <2>3 DEF Apply
    <3>2. Loaded(r) /\ UNCHANGED loading BY <2>0, <2>3 DEF Apply, Takes
    <3> HIDE DEF h
    <3> QED BY <1>1, <2>2, <3>1, <3>2 DEF Handles
  <2>4. CASE ~Takes(r, relay[p]) BY <1>2, <2>0, <2>4 DEF Apply
  <2> QED BY <2>3, <2>4
<1>12. ASSUME NEW r \in Rooms, Reloads(r) PROVE Goal
  <2>1. ASSUME ReloadQueue(r), Loaded(r) PROVE \E h : Handles(r, h)
    <3>1. PICK read \in FromDB(r) : held' = [held EXCEPT ![r] = read] BY <2>1 DEF ReloadQueue
    <3>2. read \in Hold BY FromDBType
    <3> QED BY <2>1, <3>1, <3>2 DEF Handles, ReloadQueue
  <2>2. ASSUME ReloadQueueFails(r) \/ (ReloadQueue(r) /\ ~Loaded(r)) PROVE UNCHANGED <<held, loading>>
    BY <2>2 DEF ReloadQueueFails, ReloadQueue
  <2> QED BY <1>1, <1>2, <1>12, <2>1, <2>2 DEF Reloads
<1>13. ASSUME NEW id, \/ held' = Forgotten(id)
                      \/ held' = [r \in Rooms |-> [held[r] EXCEPT !.media[id] = "none"]],
              UNCHANGED loading
       PROVE  Goal
  <2> DEFINE f(r) == [held[r] EXCEPT !.hist = @ \ {id}, !.media[id] = "none"]
             g(r) == [held[r] EXCEPT !.media[id] = "none"]
  <2>1. \A r \in Rooms : f(r) \in Hold /\ g(r) \in Hold BY DEF MediaTypes, Hold, Copy
  <2>2. \A r \in Rooms : held[r] = Empty => f(r) = Empty /\ g(r) = Empty
    <3>1. [Empty.media EXCEPT ![id] = "none"] = Empty.media BY DEF Empty
    <3>2. [Empty EXCEPT !.media = Empty.media] = Empty /\ [Empty EXCEPT !.hist = {}] = Empty BY DEF Empty
    <3>3. Empty.hist \ {id} = {} BY DEF Empty
    <3>4. [Empty EXCEPT !.media[id] = "none"] = [Empty EXCEPT !.media = [Empty.media EXCEPT ![id] = "none"]]
      BY DEF Empty
    <3>5. [Empty EXCEPT !.hist = @ \ {id}, !.media[id] = "none"]
          = [[Empty EXCEPT !.hist = Empty.hist \ {id}] EXCEPT !.media[id] = "none"]
      BY DEF Empty
    <3> QED BY <3>1, <3>2, <3>3, <3>4, <3>5
  <2>3. \/ held' = [r \in Rooms |-> f(r)]
        \/ held' = [r \in Rooms |-> g(r)]
    BY <1>13 DEF Forgotten
  <2> HIDE DEF f, g
  <2> QED BY <1>13, <2>1, <2>2, <2>3 DEF MediaTypes, Unread, Loaded
<1>14. CASE MediaDeleted BY <1>13, <1>14 DEF MediaDeleted
<1>15. ASSUME NEW p \in Removers, DeleteMedia(p) PROVE Goal BY <1>13, <1>15 DEF DeleteMedia
<1>16. CASE UNCHANGED rooms BY <1>2, <1>16 DEF rooms
<1> QED BY <1>3, <1>4, <1>5, <1>6, <1>7, <1>8, <1>9, <1>10, <1>11, <1>12, <1>14, <1>15, <1>16,
        RoomsFrame DEF Loads

\* The tables keep their type, and no item is there without its row.
LEMMA TablesType ==
    ASSUME MediaTypes, Rooted, [Next]_vars
    PROVE  queue' \in SUBSET Rooms /\ played' \in SUBSET Rooms /\ Rooted'
<1> DEFINE Goal == queue' \in SUBSET Rooms /\ played' \in SUBSET Rooms /\ Rooted'
<1> USE DEF MediaTypes, Rooted
<1>1. ASSUME queue' \cup played' \subseteq queue \cup played, row'.id = 0 => row.id = 0 PROVE Goal BY <1>1
<1>2. ASSUME NEW r \in Rooms, Adds(r) PROVE Goal
  <2>1. row'.id \in Ids BY <1>2 DEF Adds, QueueAdd, NoRow
  <2>2. queue' = queue \cup {r} /\ played' = played BY <1>2 DEF Adds, QueueAdd, AddQueueItem
  <2> QED BY <2>1, <2>2, NoZero
<1>3. ASSUME NEW r \in Rooms, Replays(r) PROVE Goal
  <2>1. row'.id \in Ids BY <1>3 DEF Replays, QueueReplay, store
  <2>2. queue' = queue \cup {r} /\ played' = played BY <1>3 DEF Replays, QueueReplay, AddQueueItem
  <2> QED BY <2>1, <2>2, NoZero
<1>4. ASSUME NEW r \in Rooms, Items(r) \/ Forgets(r) \/ History(r) PROVE Goal
  <2>1. row' = row BY <1>4 DEF Items, Forgets, History, QueueRemove, MarkPlayed, HistoryForgets,
          QueueClearPlayed, PurgePlayed, RequeuePlayed, store
  <2>2. queue' \cup played' \subseteq queue \cup played
    BY <1>4 DEF Items, Forgets, History, QueueRemove, MarkPlayed, HistoryForgets,
       QueueClearPlayed, PurgePlayed, RequeuePlayed, items
  <2> QED BY <1>1, <2>1, <2>2
<1>5. ASSUME NEW r \in Rooms, QueueRetry(r) PROVE Goal
  BY <1>1, <1>5 DEF QueueRetry, items, Row
<1>6. ASSUME NEW r \in Rooms, Loads(r) \/ Hears(r) \/ Reloads(r) PROVE Goal
  BY <1>1, <1>6 DEF Loads, Hears, Reloads, LoadRead, LoadDone, Apply, ReloadQueue, ReloadQueueFails, items, store
<1>7. CASE MediaDeleted BY <1>1, <1>7 DEF MediaDeleted, items, store
<1>8. ASSUME NEW p \in Removers, DeleteMedia(p) PROVE Goal BY <1>8 DEF DeleteMedia
<1>9. CASE UNCHANGED rooms
  <2>1. CASE UNCHANGED store BY <1>1, <1>9, <2>1 DEF rooms, store
  <2>2. CASE Ingests BY <1>1, <1>9, <2>2 DEF rooms, Ingests, Publish, FailMedia, Row
  <2>3. ASSUME NEW p \in Removers, Empties(p) PROVE Goal
    BY <1>1, <1>9, <2>3 DEF rooms, Empties, DeletePrefix, DeletePrefixFails, DeleteMediaFails
  <2> QED BY <1>2, <1>5, <1>8, <2>1, <2>2, <2>3, StoreFrame
<1> QED BY <1>2, <1>3, <1>4, <1>5, <1>6, <1>7, <1>8, <1>9, RoomsFrame

-----------------------------------------------------------------------------
(***************************************************************************)
(* Packages and the blocklist                                              *)
(***************************************************************************)

\* A row is ready after a step when it was, or was just published.
LEMMA RowSteps ==
    ASSUME MediaTypes, [Next]_vars
    PROVE  \/ UNCHANGED row
           \/ row'.status # "ready"
           \/ Publish
<1>1. CASE UNCHANGED store BY <1>1 DEF store
<1>2. ASSUME NEW r \in Rooms, Adds(r) PROVE UNCHANGED row \/ row'.status # "ready"
  BY <1>2 DEF Adds, QueueAdd, NoRow
<1>3. ASSUME NEW r \in Rooms, QueueRetry(r) PROVE row'.status # "ready"
  BY <1>3 DEF QueueRetry, MediaTypes, Row
<1>4. CASE FailMedia BY <1>4 DEF FailMedia, MediaTypes, Row
<1>5. ASSUME NEW p \in Removers, DeleteMedia(p) PROVE row'.status # "ready"
  BY <1>5 DEF DeleteMedia, NoRow
<1>6. ASSUME NEW p \in Removers, Empties(p) PROVE UNCHANGED row
  BY <1>6 DEF Empties, DeletePrefix, DeletePrefixFails, DeleteMediaFails
<1> QED BY <1>1, <1>2, <1>3, <1>4, <1>5, <1>6, StoreFrame DEF Ingests

\* A ready media is published with its package.
LEMMA PublishedStep == ASSUME MediaTypes, Published, [Next]_vars PROVE Published'
<1>1. CASE Publish
  <2>1. row' = [row EXCEPT !.status = "ready", !.prefix = last.prefix + 1] BY <1>1 DEF Publish
  <2>2. row'.prefix = last.prefix + 1 BY <2>1 DEF MediaTypes, Row
  <2>3. last.prefix + 1 # 0 BY DEF MediaTypes
  <2> QED BY <2>2, <2>3 DEF Published
<1> QED BY <1>1, RowSteps DEF Published

\* A removal is between the objects and the row.
Between(p) == remover[p].phase = "row" /\ remover[p].prefix = row.prefix

\* While the row stays as it is, a step leaves the package in the store, or
\* records who emptied it.
LEMMA PackageSteps ==
    ASSUME MediaTypes, Published, [Next]_vars, UNCHANGED row, row.status = "ready"
    PROVE  /\ objects # "none" => objects' # "none" \/ \E p \in Removers : Between(p)'
           /\ \A p \in Removers : Between(p) => objects' # "none" \/ Between(p)'
<1> DEFINE Goal == /\ objects # "none" => objects' # "none" \/ \E p \in Removers : Between(p)'
                   /\ \A p \in Removers : Between(p) => objects' # "none" \/ Between(p)'
<1>1. ASSUME NEW p \in Removers, remover[p].phase # "row", UNCHANGED objects,
             \A q \in Removers \ {p} : remover'[q] = remover[q]
      PROVE  Goal
  BY <1>1 DEF Between
<1>2. ASSUME NEW r \in Rooms, NEW id, AddQueueItem(r, id), UNCHANGED objects PROVE Goal
  BY <1>2, AddedTypes DEF Between
<1>3. ASSUME NEW r \in Rooms, Adds(r) \/ Replays(r) PROVE Goal
  BY <1>2, <1>3 DEF Adds, QueueAdd, Replays, QueueReplay, store
<1>4. ASSUME NEW r \in Rooms, Reloads(r) PROVE Goal
  <2>1. /\ remover["admin"].phase # "row" /\ UNCHANGED objects
        /\ \A q \in Removers \ {"admin"} : remover'[q] = remover[q]
    BY <1>4 DEF Reloads, ReloadQueue, ReloadQueueFails, Told, MediaTypes, Removers, store
  <2> QED BY <1>1, <2>1 DEF Removers
<1>5. CASE Begins
  <2>1. ASSUME NEW p \in Removers, ListStale(p) PROVE Goal
    BY <1>1, <2>1 DEF ListStale, Starts, Done, MediaTypes, store
  <2>2. ASSUME NEW first, GetMedia(first) PROVE Goal
    <3>1. /\ remover["admin"].phase # "row" /\ UNCHANGED objects
          /\ \A q \in Removers \ {"admin"} : remover'[q] = remover[q]
      BY <2>2 DEF GetMedia, Starts, Done, MediaTypes, store
    <3> QED BY <1>1, <3>1 DEF Removers
  <2> QED BY <1>5, <2>1, <2>2 DEF Begins
<1>6. CASE Decides \/ BlockSource \/ MediaDeleted
  <2>1. /\ remover["admin"].phase # "row" /\ UNCHANGED objects
        /\ \A q \in Removers \ {"admin"} : remover'[q] = remover[q]
    BY <1>6 DEF Decides, MediaQueued, RequestFails, BlockSource, MediaDeleted, Goes, Ends, MediaTypes, store
  <2> QED BY <1>1, <2>1 DEF Removers
<1>7. ASSUME NEW p \in Removers, Empties(p) PROVE Goal
  <2>1. CASE DeletePrefix(p)
    <3>1. /\ remover'[p].phase = "row" /\ remover'[p].prefix = remover[p].prefix
          /\ \A q \in Removers \ {p} : remover'[q] = remover[q]
          /\ remover[p].phase # "row"
          /\ objects' = objects \/ remover[p].prefix = row.prefix
      BY <2>1 DEF DeletePrefix, Deleting, Goes, MediaTypes, Removal
    <3> QED BY <3>1 DEF Between
  <2>2. CASE DeletePrefixFails(p)
    <3>1. /\ \A q \in Removers \ {p} : remover'[q] = remover[q]
          /\ remover[p].phase # "row" /\ objects' \in {objects, "torn"}
      BY <2>2 DEF DeletePrefixFails, Deleting, Tears, Goes, Ends, MediaTypes
    <3> QED BY <3>1 DEF Between
  <2>3. CASE DeleteMediaFails(p)
    <3>1. /\ \A q \in Removers \ {p} : remover'[q] = remover[q]
          /\ objects' \in {objects, "torn"} /\ (Between(p) => objects' = "torn")
      BY <2>3 DEF DeleteMediaFails, Tears, Ends, MediaTypes, Between, Published
    <3> QED BY <3>1 DEF Between
  <2> QED BY <1>7, <2>1, <2>2, <2>3 DEF Empties
<1>8. ASSUME NEW p \in Removers, DeleteMedia(p) PROVE Goal
  BY <1>8 DEF DeleteMedia, NoRow
<1>9. ASSUME UNCHANGED remover PROVE Goal
  <2>1. CASE UNCHANGED store BY <1>9, <2>1 DEF store, Between
  <2>2. ASSUME NEW r \in Rooms, QueueRetry(r) PROVE Goal BY <1>9, <2>2 DEF QueueRetry, Between
  <2>3. CASE Publish BY <2>3 DEF Publish
  <2>4. CASE FailMedia BY <2>4 DEF FailMedia
  <2> QED BY <1>3, <1>7, <1>8, <2>1, <2>2, <2>3, <2>4, StoreFrame DEF Ingests
<1> QED BY <1>3, <1>4, <1>5, <1>6, <1>7, <1>8, <1>9, RemoverFrame

\* A ready media keeps its objects.
LEMMA ReadyStep ==
    ASSUME MediaTypes, Published, ReadyHasObjects, [Next]_vars
    PROVE  ReadyHasObjects'
<1>1. CASE UNCHANGED row /\ row.status = "ready"
  BY <1>1, PackageSteps DEF ReadyHasObjects, Between
<1>2. CASE Publish BY <1>2 DEF Publish, ReadyHasObjects
<1> QED BY <1>1, <1>2, RowSteps DEF ReadyHasObjects

\* Nobody gets past Admit while the source is blocked.
LEMMA BarredStep == ASSUME Barred, [Next]_vars PROVE Barred'
<1> USE DEF Barred
<1>1. CASE UNCHANGED people BY <1>1 DEF people
<1>2. ASSUME NEW r \in Rooms, NEW c \in Calls, Admit(c, r) \/ QueueAddRefused(c, r) \/ QueueAdd(c, r)
      PROVE  Barred'
  BY <1>2 DEF Admit, QueueAddRefused, QueueAdd, Added
<1>3. CASE BlockSource \/ Bars BY <1>3 DEF BlockSource, Bars, AdminBlock, AdminUnblock, Blocks
<1> QED BY <1>1, <1>2, <1>3, PeopleFrame DEF Asks, Adds

\* A room gets its first item in the tables from a call past Admit, or adds
\* one of its history again.
LEMMA QueueGrows ==
    ASSUME [Next]_vars, NEW r \in queue' \cup played'
    PROVE  Keeps(r) \/ \E c \in Calls : <<c, r>> \in adding
<1> DEFINE Goal == Keeps(r) \/ \E c \in Calls : <<c, r>> \in adding
<1> USE DEF Keeps
<1>1. ASSUME queue' \cup played' \subseteq queue \cup played PROVE Goal BY <1>1
<1>2. ASSUME NEW s \in Rooms, Adds(s) PROVE Goal
  BY <1>2 DEF Adds, QueueAdd, AddQueueItem, Added
<1>3. ASSUME NEW s \in Rooms, Replays(s) PROVE Goal
  BY <1>3 DEF Replays, QueueReplay, AddQueueItem
<1>4. ASSUME NEW s \in Rooms, Items(s) \/ Forgets(s) \/ History(s) PROVE Goal
  BY <1>1, <1>4 DEF Items, Forgets, History, QueueRemove, MarkPlayed, HistoryForgets,
     QueueClearPlayed, PurgePlayed, RequeuePlayed, items
<1>5. ASSUME NEW s \in Rooms, QueueRetry(s) \/ Loads(s) \/ Hears(s) \/ Reloads(s) PROVE Goal
  BY <1>1, <1>5 DEF QueueRetry, Loads, Hears, Reloads, LoadRead, LoadDone, Apply, ReloadQueue,
     ReloadQueueFails, items
<1>6. CASE MediaDeleted BY <1>1, <1>6 DEF MediaDeleted, items
<1>7. ASSUME NEW p \in Removers, DeleteMedia(p) PROVE Goal BY <1>7 DEF DeleteMedia
<1>8. CASE UNCHANGED rooms BY <1>1, <1>8 DEF rooms
<1> QED BY <1>2, <1>3, <1>4, <1>5, <1>6, <1>7, <1>8, RoomsFrame

-----------------------------------------------------------------------------
(***************************************************************************)
(* Items without a row                                                     *)
(***************************************************************************)

\* A removal keeps its number while it runs, and takes that of the row when
\* it starts.
LEMMA RemovalIds ==
    ASSUME MediaTypes, [Next]_vars, NEW p \in Removers
    PROVE  remover'[p].id \in {remover[p].id, row.id, 0}
<1> DEFINE Goal == remover'[p].id \in {remover[p].id, row.id, 0}
<1>0. remover \in [Removers -> Removal] BY DEF MediaTypes
<1>1. CASE UNCHANGED remover BY <1>1
<1>2. ASSUME NEW q \in Removers, Ends(q) PROVE Goal BY <1>0, <1>2 DEF Ends, Done
<1>3. ASSUME NEW q \in Removers, NEW phase, Goes(q, phase) PROVE Goal BY <1>0, <1>3 DEF Goes, Removal
<1>4. ASSUME NEW q \in Removers, NEW phase, Starts(q, phase) PROVE Goal BY <1>0, <1>4 DEF Starts
<1>5. ASSUME NEW r \in Rooms, Adds(r) \/ Replays(r) PROVE Goal
  BY <1>5, AddedTypes DEF Adds, QueueAdd, Replays, QueueReplay
<1>6. ASSUME NEW r \in Rooms, Reloads(r) PROVE Goal
  BY <1>0, <1>6 DEF Reloads, ReloadQueue, ReloadQueueFails, Told, Done, Removal
<1>7. CASE MediaDeleted
  <2>1. CASE Ends("admin") BY <1>2, <2>1 DEF Removers
  <2>2. ASSUME NEW s, remover' = [remover EXCEPT !["admin"].phase = "reload", !["admin"].rooms = s]
        PROVE  Goal
    BY <1>0, <2>2 DEF Removal
  <2> QED BY <1>7, <2>1, <2>2 DEF MediaDeleted
<1>8. CASE Begins BY <1>4, <1>8 DEF Begins, ListStale, GetMedia, Removers
<1>9. CASE Decides \/ BlockSource
  BY <1>2, <1>3, <1>9 DEF Decides, MediaQueued, RequestFails, BlockSource, Removers
<1>10. ASSUME NEW q \in Removers, Empties(q) PROVE Goal
  BY <1>2, <1>3, <1>10 DEF Empties, DeletePrefix, DeletePrefixFails, DeleteMediaFails
<1>11. ASSUME NEW q \in Removers, DeleteMedia(q) PROVE Goal
  <2>1. [Done EXCEPT !.phase = "tell", !.id = remover[q].id].id = remover[q].id BY DEF Done
  <2> QED BY <1>0, <1>2, <1>11, <2>1 DEF DeleteMedia
<1> QED BY <1>1, <1>5, <1>6, <1>7, <1>8, <1>9, <1>10, <1>11, RemoverFrame

\* A row keeps its id, is created with the next one, or goes.
LEMMA RowIds ==
    ASSUME MediaTypes, [Next]_vars
    PROVE  \/ row'.id = row.id /\ last'.id = last.id
           \/ row.id = 0 /\ row'.id = last.id + 1 /\ last'.id = last.id + 1
              /\ \E r \in Rooms : Adds(r)
           \/ row'.id = 0 /\ last'.id = last.id
<1> DEFINE Goal == \/ row'.id = row.id /\ last'.id = last.id
                   \/ row.id = 0 /\ row'.id = last.id + 1 /\ last'.id = last.id + 1
                      /\ \E r \in Rooms : Adds(r)
                   \/ row'.id = 0 /\ last'.id = last.id
<1>1. CASE UNCHANGED store BY <1>1 DEF store
<1>2. ASSUME NEW r \in Rooms, NEW c \in Calls, QueueAdd(c, r) PROVE Goal
  <2>1. CASE row.id = 0
    <3>1. /\ row' = [NoRow EXCEPT !.id = last.id + 1]
          /\ last' = [last EXCEPT !.id = last.id + 1]
      BY <1>2, <2>1 DEF QueueAdd
    <3>2. row'.id = last.id + 1 BY <3>1 DEF NoRow
    <3>3. last'.id = last.id + 1 BY <3>1 DEF MediaTypes
    <3> QED BY <1>2, <2>1, <3>2, <3>3 DEF Adds
  <2>2. CASE row.id # 0
    <3>1. row' = row /\ last' = [last EXCEPT !.id = @] BY <1>2, <2>2 DEF QueueAdd
    <3> QED BY <3>1 DEF MediaTypes
  <2> QED BY <2>1, <2>2
<1>3. ASSUME NEW r \in Rooms, QueueRetry(r) PROVE Goal BY <1>3 DEF QueueRetry, MediaTypes, Row
<1>4. CASE FailMedia BY <1>4 DEF FailMedia, MediaTypes, Row
<1>5. CASE Publish BY <1>5 DEF Publish, MediaTypes, Row
<1>6. ASSUME NEW p \in Removers, DeleteMedia(p) PROVE Goal BY <1>6 DEF DeleteMedia, NoRow
<1>7. ASSUME NEW p \in Removers, Empties(p) PROVE Goal
  BY <1>7 DEF Empties, DeletePrefix, DeletePrefixFails, DeleteMediaFails
<1> QED BY <1>1, <1>2, <1>3, <1>4, <1>5, <1>6, <1>7, StoreFrame DEF Ingests, Adds

\* Numbers only grow.
LEMMA NumberedStep == ASSUME MediaTypes, Numbered, [Next]_vars PROVE Numbered'
<1>1. row.id \in Nat /\ last.id \in Nat /\ \A p \in Removers : remover[p].id \in Nat
  BY RowParts DEF MediaTypes, Removal
<1>2. last.id <= last'.id /\ row'.id <= last'.id BY <1>1, RowIds DEF Numbered
<1>3. last'.id \in Nat BY <1>1, RowIds
<1>4. ASSUME NEW p \in Removers PROVE remover'[p].id <= last'.id
  BY <1>1, <1>2, <1>3, RemovalIds DEF Numbered
<1> QED BY <1>2, <1>4 DEF Numbered

\* A room gets into the tables under the evictor's eyes.
LEMMA ListedStep ==
    ASSUME MediaTypes, Rooted, Numbered, Listed, [Next]_vars
    PROVE  Listed'
<1> DEFINE k == remover["evictor"]
<1> USE DEF Listed
<1>1. row.id \in Nat /\ last.id \in Nat /\ k.id \in Nat /\ k.id <= last.id
  BY RowParts DEF MediaTypes, Removal, Numbered, Removers
<1>2. ASSUME NEW r \in Rooms, AddQueueItem(r, row'.id), UNCHANGED played,
             row'.id = row.id \/ (row.id = 0 /\ row'.id = last.id + 1)
      PROVE  Listed'
  <2>1. /\ remover'["evictor"].id = k.id /\ k.rooms \subseteq remover'["evictor"].rooms
        /\ k.id = row'.id => r \in remover'["evictor"].rooms
    BY <1>2, AddedTypes DEF Removers
  <2>2. queue' = queue \cup {r} BY <1>2 DEF AddQueueItem
  <2>3. row'.id = k.id => row.id = k.id BY <1>1, <1>2
  <2> QED BY <1>2, <2>1, <2>2, <2>3
<1>3. ASSUME NEW r \in Rooms, Adds(r) PROVE Listed'
  <2>1. row'.id = IF row.id = 0 THEN last.id + 1 ELSE row.id BY <1>3 DEF Adds, QueueAdd, NoRow
  <2>2. AddQueueItem(r, row'.id) /\ UNCHANGED played BY <1>3, <2>1 DEF Adds, QueueAdd
  <2> QED BY <1>2, <2>1, <2>2
<1>4. ASSUME NEW r \in Rooms, Replays(r) PROVE Listed'
  BY <1>2, <1>4 DEF Replays, QueueReplay, store
<1>5. ASSUME remover'["evictor"] = k, queue' \cup played' \subseteq queue \cup played, row'.id \in {row.id, 0}
      PROVE  Listed'
  BY <1>5
<1>6. ASSUME NEW r \in Rooms, Items(r) \/ Forgets(r) \/ History(r) PROVE Listed'
  <2>1. row' = row /\ remover' = remover
    BY <1>6 DEF Items, Forgets, History, QueueRemove, MarkPlayed, HistoryForgets,
       QueueClearPlayed, PurgePlayed, RequeuePlayed, store
  <2>2. queue' \cup played' \subseteq queue \cup played
    BY <1>6 DEF Items, Forgets, History, QueueRemove, MarkPlayed, HistoryForgets,
       QueueClearPlayed, PurgePlayed, RequeuePlayed, items
  <2> QED BY <1>5, <2>1, <2>2
<1>7. ASSUME NEW r \in Rooms, QueueRetry(r) PROVE Listed'
  BY <1>5, <1>7 DEF QueueRetry, MediaTypes, Row, items
<1>8. ASSUME NEW r \in Rooms, Loads(r) \/ Hears(r) PROVE Listed'
  BY <1>5, <1>8 DEF Loads, LoadRead, LoadDone, Hears, Apply, items, store
<1>9. ASSUME NEW r \in Rooms, Reloads(r) PROVE Listed'
  BY <1>5, <1>9 DEF Reloads, ReloadQueue, ReloadQueueFails, Told, MediaTypes, Removers, items, store
<1>10. CASE MediaDeleted
  BY <1>5, <1>10 DEF MediaDeleted, Ends, MediaTypes, Removers, items, store
<1>11. ASSUME NEW p \in Removers, DeleteMedia(p) PROVE Listed'
  BY <1>11 DEF DeleteMedia, NoRow
<1>12. ASSUME UNCHANGED <<row, queue, played>>, Decides \/ BlockSource \/ \E first : GetMedia(first)
       PROVE  Listed'
  BY <1>5, <1>12 DEF Decides, MediaQueued, RequestFails, BlockSource, GetMedia, Goes, Ends, Starts, MediaTypes,
     Removers
<1>13. ASSUME NEW p \in Removers, ListStale(p), UNCHANGED <<row, queue, played>> PROVE Listed'
  <2>1. CASE p = "evictor" BY <1>13, <2>1 DEF ListStale, ListEvictableMedia, Queued
  <2>2. CASE p = "admin" BY <1>5, <1>13, <2>2 DEF ListStale, Starts, MediaTypes, Removers
  <2> QED BY <2>1, <2>2 DEF Removers
<1>14. ASSUME NEW p \in Removers, Empties(p), UNCHANGED <<row, queue, played>> PROVE Listed'
  <2>1. CASE p = "admin"
    BY <1>5, <1>14, <2>1 DEF Empties, DeletePrefix, DeletePrefixFails, DeleteMediaFails, Goes, Ends, MediaTypes,
       Removers
  <2>2. CASE p = "evictor"
    <3>1. \/ remover'["evictor"] = Done
          \/ remover'["evictor"].id = k.id /\ remover'["evictor"].rooms = k.rooms
      BY <1>14, <2>2 DEF Empties, DeletePrefix, DeletePrefixFails, DeleteMediaFails, Goes, Ends, MediaTypes,
         Removers, Removal
    <3> QED BY <1>14, <3>1 DEF Done
  <2> QED BY <2>1, <2>2 DEF Removers
<1>15. CASE UNCHANGED rooms
  <2>1. UNCHANGED <<queue, played>> BY <1>15 DEF rooms
  <2>2. CASE UNCHANGED store
    <3>1. UNCHANGED row BY <2>2 DEF store
    <3>2. CASE UNCHANGED remover BY <1>5, <2>1, <3>1, <3>2
    <3> QED BY <1>3, <1>4, <1>9, <1>10, <1>11, <1>12, <1>13, <1>14, <2>1, <3>1, <3>2, RemoverFrame DEF Begins
  <2>3. CASE Ingests
    BY <1>5, <2>1, <2>3 DEF Ingests, Publish, FailMedia, MediaTypes, Row
  <2>4. ASSUME NEW p \in Removers, Empties(p) PROVE Listed'
    <3>1. UNCHANGED row BY <2>4 DEF Empties, DeletePrefix, DeletePrefixFails, DeleteMediaFails
    <3> QED BY <1>14, <2>1, <2>4, <3>1
  <2> QED BY <1>3, <1>7, <1>11, <2>2, <2>3, <2>4, StoreFrame
<1> QED BY <1>3, <1>4, <1>6, <1>7, <1>8, <1>9, <1>10, <1>11, <1>15, RoomsFrame

\* The administrator's deletion of this item's row has yet to tell the room.
Telling(r, id) ==
    LET k == remover["admin"] IN k.id = id /\ (k.phase = "tell" \/ (k.phase = "reload" /\ r \in k.rooms))

\* Why a room may queue an item.
Excuse(r, id) == (row.id = id /\ r \in queue) \/ <<r, id>> \in adrift \/ Telling(r, id)

\* NoGhosts, item by item.
LEMMA GhostsAre == NoGhosts <=> \A r \in Rooms : \A id \in held[r].list : Excuse(r, id)
  BY DEF NoGhosts, Excuse, Telling

\* The steps that leave the administrator's deletion alone.
LEMMA TellingKept ==
    ASSUME MediaTypes, NEW r, NEW id, Telling(r, id), [Next]_vars,
           ~MediaDeleted, \A s \in Rooms : ~Reloads(s)
    PROVE  Telling(r, id)'
<1>1. CASE remover'["admin"] = remover["admin"] BY <1>1 DEF Telling
<1>2. remover["admin"].phase \in {"tell", "reload"} /\ Done.phase = "idle" BY DEF Telling, Done
<1>3. ASSUME NEW s \in Rooms, Adds(s) \/ Replays(s) PROVE remover'["admin"] = remover["admin"]
  BY <1>3, AddedTypes DEF Adds, QueueAdd, Replays, QueueReplay
<1>4. ASSUME NEW p \in Removers, ListStale(p) \/ Empties(p) \/ DeleteMedia(p)
      PROVE  remover'["admin"] = remover["admin"]
  BY <1>2, <1>4 DEF ListStale, Empties, DeletePrefix, DeletePrefixFails, DeleteMedia, DeleteMediaFails,
     Starts, Goes, Ends, Deleting, MediaTypes, Removers
<1>5. ~Decides /\ ~BlockSource /\ \A first : ~GetMedia(first)
  BY <1>2 DEF Decides, MediaQueued, RequestFails, BlockSource, GetMedia
<1>6. CASE UNCHANGED remover BY <1>1, <1>6
<1> QED BY <1>1, <1>3, <1>4, <1>5, <1>6, RemoverFrame DEF Begins

\* Every step finds an excuse for what a room queues after it.
LEMMA GhostStep ==
    ASSUME MediaTypes, Rooted, Unread, Numbered, Listed, NoGhosts, [Next]_vars
    PROVE  NoGhosts'
<1> DEFINE Excused == \A s \in Rooms : \A i \in held'[s].list : Excuse(s, i)'
<1>0. \A s \in Rooms : \A i \in held[s].list : Excuse(s, i) BY GhostsAre
<1>1. SUFFICES Excused BY DEF NoGhosts, Excuse, Telling
<1>2. \A s \in Rooms : \A i \in held[s].list : i \in Ids /\ i # 0
  BY NoZero DEF MediaTypes, Hold
<1>3. \A s \in Rooms : \A i \in held[s].list : Loaded(s) BY DEF Unread, Empty
<1>4. ASSUME UNCHANGED <<queue, adrift>>, row'.id = row.id,
             \A s \in Rooms : held'[s].list \subseteq held[s].list,
             \A s \in Rooms : \A i \in held[s].list : Telling(s, i) => Telling(s, i)'
      PROVE  Excused
  BY <1>0, <1>4 DEF Excuse
<1>5. ASSUME NEW r \in Rooms, NEW h, Handles(r, h) PROVE held'[r] = h /\ \A s \in Rooms \ {r} : held'[s] = held[s]
  BY <1>5 DEF Handles, MediaTypes
<1>6. ASSUME NEW r \in Rooms, AddQueueItem(r, row'.id), UNCHANGED adrift,
             row'.id = row.id \/ row.id = 0,
             \E h : Handles(r, h) /\ h.list = held[r].list \cup {row'.id}
      PROVE  Excused
  <2>1. \A s, i : Telling(s, i) => Telling(s, i)' BY <1>6, AddedTypes DEF Telling
  <2>2. queue' = queue \cup {r} BY <1>6 DEF AddQueueItem
  <2>3. \A s \in Rooms : \A i \in held'[s].list : i \in held[s].list \/ (s = r /\ i = row'.id)
    BY <1>5, <1>6
  <2>4. ASSUME NEW s \in Rooms, NEW i \in held'[s].list PROVE Excuse(s, i)'
    <3>1. CASE s = r /\ i = row'.id BY <2>2, <3>1 DEF Excuse
    <3>2. CASE i \in held[s].list
      <4>1. Excuse(s, i) /\ i # 0 BY <1>0, <1>2, <3>2
      <4>2. row.id = i => row'.id = i BY <1>6, <4>1
      <4> QED BY <1>6, <2>1, <2>2, <4>1, <4>2 DEF Excuse
    <3> QED BY <2>3, <3>1, <3>2
  <2> QED BY <2>4
<1>7. ASSUME NEW r \in Rooms, Adds(r) PROVE Excused
  <2>1. PICK c \in Calls : QueueAdd(c, r) BY <1>7 DEF Adds
  <2>2. row'.id = IF row.id = 0 THEN last.id + 1 ELSE row.id BY <2>1 DEF QueueAdd, NoRow
  <2>3. AddQueueItem(r, row'.id) /\ UNCHANGED adrift BY <2>1, <2>2 DEF QueueAdd
  <2> QED BY <1>6, <2>1, <2>2, <2>3, AddHandles
<1>8. ASSUME NEW r \in Rooms, Replays(r) PROVE Excused
  <2>1. PICK id \in Ids : QueueReplay(r, id) BY <1>8 DEF Replays
  <2>2. row'.id = row.id /\ row.id = id /\ AddQueueItem(r, id) /\ UNCHANGED adrift BY <2>1 DEF QueueReplay, store
  <2> QED BY <1>6, <2>1, <2>2, ReplayHandles
<1>9. ASSUME NEW r \in Rooms, NEW id \in Ids, UNCHANGED <<row, remover>>,
             \E h : Handles(r, h) /\ h.list = held[r].list \ {id},
             queue' = IF row.id = id THEN queue \ {r} ELSE queue, adrift' = adrift \ {<<r, id>>}
      PROVE  Excused
  <2>1. \A s \in Rooms : \A i \in held'[s].list : i \in held[s].list /\ <<s, i>> # <<r, id>>
    BY <1>5, <1>9
  <2>2. \A s, i : Telling(s, i)' <=> Telling(s, i) BY <1>9 DEF Telling
  <2> QED BY <1>0, <1>9, <2>1, <2>2 DEF Excuse
<1>10. ASSUME NEW r \in Rooms, UNCHANGED <<row, remover, queue, adrift>>,
              \E h : Handles(r, h) /\ h.list = held[r].list
       PROVE  Excused
  <2>1. \A s \in Rooms : held'[s].list = held[s].list BY <1>5, <1>10
  <2> QED BY <1>4, <1>10, <2>1 DEF Telling
<1>11. ASSUME NEW r \in Rooms, Items(r) PROVE Excused
  <2>1. ASSUME NEW id \in Ids, QueueRemove(r, id) PROVE Excused
    <3>1. UNCHANGED <<row, remover>> BY <2>1 DEF QueueRemove, store
    <3>2. /\ queue' = IF row.id = id THEN queue \ {r} ELSE queue
          /\ adrift' = adrift \ {<<r, id>>}
      BY <2>1 DEF QueueRemove
    <3> QED BY <1>9, <2>1, <3>1, <3>2, RemoveHandles
  <2>2. ASSUME NEW id \in Ids, MarkPlayed(r, id) PROVE Excused
    <3>1. UNCHANGED <<row, remover>> BY <2>2 DEF MarkPlayed, store
    <3> QED BY <1>9, <1>10, <2>2, <3>1, PlayedHandles
  <2> QED BY <1>11, <2>1, <2>2 DEF Items
<1>12. ASSUME NEW r \in Rooms, Forgets(r) \/ QueueClearPlayed(r) PROVE Excused
  <2>1. UNCHANGED <<row, remover, queue, adrift>>
    BY <1>12 DEF Forgets, HistoryForgets, QueueClearPlayed, store, items
  <2> QED BY <1>10, <1>12, <2>1, ForgetsHandles
<1>13. ASSUME NEW r \in Rooms, PurgePlayed(r) PROVE Excused
  BY <1>4, <1>13 DEF PurgePlayed, Telling, store
<1>14. ASSUME NEW r \in Rooms, UNCHANGED <<row, queue>>, adrift' = Docked(r),
              \A s \in Rooms \ {r} : held'[s] = held[s],
              \A i \in held'[r].list : row.id = i /\ r \in queue,
              \A s \in Rooms \ {r} : \A i : Telling(s, i) => Telling(s, i)'
       PROVE  Excused
  <2>1. ASSUME NEW s \in Rooms \ {r}, NEW i \in held'[s].list PROVE Excuse(s, i)'
    <3>1. Excuse(s, i) BY <1>0, <1>14, <2>1
    <3>2. <<s, i>> \in adrift => <<s, i>> \in adrift' BY <1>14, <2>1 DEF Docked
    <3> QED BY <1>14, <2>1, <3>1, <3>2 DEF Excuse
  <2>2. \A i \in held'[r].list : Excuse(r, i)' BY <1>14 DEF Excuse
  <2> QED BY <2>1, <2>2
<1>15. ASSUME NEW r \in Rooms, RequeuePlayed(r) PROVE Excused
  <2>1. PICK h : Handles(r, h) /\ h.list \subseteq Live(r)' BY <1>15, LoopHandles
  <2>2. UNCHANGED <<row, remover>> /\ adrift' = Docked(r) /\ queue \subseteq queue'
    BY <1>15 DEF RequeuePlayed, store
  <2>3. \A i \in held'[r].list : (row.id = i /\ r \in queue)' BY <1>5, <2>1 DEF Live
  <2>4. ASSUME NEW s \in Rooms \ {r}, NEW i \in held'[s].list PROVE Excuse(s, i)'
    <3>1. Excuse(s, i) BY <1>0, <1>5, <2>1, <2>4
    <3>2. <<s, i>> \in adrift => <<s, i>> \in adrift' BY <2>2, <2>4 DEF Docked
    <3> QED BY <2>2, <2>4, <3>1, <3>2 DEF Excuse, Telling
  <2>5. \A i \in held'[r].list : Excuse(r, i)' BY <2>3 DEF Excuse
  <2> QED BY <2>4, <2>5
<1>16. ASSUME NEW r \in Rooms, LoadRead(r) PROVE Excused
  <2>1. held'[r].list = {} /\ \A s \in Rooms \ {r} : held'[s] = held[s]
    BY <1>16 DEF LoadRead, MediaTypes, Empty
  <2>2. UNCHANGED <<row, queue, remover>> /\ adrift' = Docked(r) BY <1>16 DEF LoadRead, store, items
  <2> QED BY <1>14, <2>1, <2>2 DEF Telling
<1>17. ASSUME NEW r \in Rooms, LoadDone(r) PROVE Excused
  <2>1. PICK read \in loading[r] :
          held' = [held EXCEPT ![r] = read] /\ adrift' = adrift \cup ({r} \X (read.list \ Live(r)))
    BY <1>17 DEF LoadDone
  <2>2. UNCHANGED <<row, queue, remover>> BY <1>17 DEF LoadDone, store, items
  <2>3. held'[r] = read /\ \A s \in Rooms \ {r} : held'[s] = held[s] BY <2>1 DEF MediaTypes
  <2>4. ASSUME NEW i \in read.list PROVE Excuse(r, i)'
    <3>1. CASE i \in Live(r) BY <2>2, <3>1 DEF Live, Excuse
    <3>2. CASE i \notin Live(r) BY <2>1, <2>4, <3>2 DEF Excuse
    <3> QED BY <3>1, <3>2
  <2>5. ASSUME NEW s \in Rooms \ {r}, NEW i \in held'[s].list PROVE Excuse(s, i)'
    <3>1. Excuse(s, i) BY <1>0, <2>3, <2>5
    <3> QED BY <2>1, <2>2, <3>1 DEF Excuse, Telling
  <2> QED BY <2>3, <2>4, <2>5
<1>18. ASSUME NEW r \in Rooms, QueueRetry(r) PROVE Excused
  <2>1. \A s \in Rooms : held'[s].list = held[s].list
    <3>1. \A s \in Rooms : held'[s] = held[s] \/ held'[s] = [held[s] EXCEPT !.media[row.id] = "pending"]
      BY <1>18 DEF QueueRetry
    <3> QED BY <3>1 DEF MediaTypes, Hold
  <2>2. row'.id = row.id /\ UNCHANGED <<queue, adrift, remover>> BY <1>18 DEF QueueRetry, MediaTypes, Row, items
  <2> QED BY <1>4, <2>1, <2>2 DEF Telling
<1>19. ASSUME NEW r \in Rooms, Hears(r) PROVE Excused
  <2>0. PICK p \in Relays : Apply(p, r) BY <1>19 DEF Hears
  <2>1. \A s \in Rooms : held'[s].list = held[s].list
    BY <2>0 DEF Apply, MediaTypes, Hold
  <2>2. UNCHANGED <<row, queue, adrift, remover>> BY <2>0 DEF Apply, items, store
  <2> QED BY <1>4, <2>1, <2>2 DEF Telling
<1>20. ASSUME NEW p \in Removers, DeleteMedia(p) PROVE Excused
  <2> DEFINE k == remover[p]
             unaware == IF p = "evictor" THEN k.rooms ELSE Rooms
             lost == {<<s, k.id>> : s \in {z \in unaware : k.id \in held[z].list}}
  <2>0. k.phase = "row" /\ row.id = k.id BY <1>20 DEF DeleteMedia
  <2>1. \A s \in Rooms : held'[s].list = held[s].list
    <3>1. CASE held' = [s \in Rooms |-> [held[s] EXCEPT !.media[k.id] = "none"]] BY <3>1 DEF MediaTypes, Hold
    <3>2. CASE held' = Forgotten(k.id) BY <3>2 DEF Forgotten, MediaTypes, Hold
    <3> QED BY <1>20, <3>1, <3>2 DEF DeleteMedia
  <2>2. p = "admin" => \A s, i : ~Telling(s, i) BY <2>0 DEF Telling
  <2>3. CASE p = "admin" /\ UNCHANGED adrift /\ remover' = [remover EXCEPT ![p] = [Done EXCEPT !.phase = "tell", !.id = k.id]]
    <3>1. remover'["admin"].phase = "tell" /\ remover'["admin"].id = k.id BY <2>3 DEF Done, MediaTypes, Removers
    <3> QED BY <1>0, <2>0, <2>1, <2>2, <2>3, <3>1 DEF Excuse, Telling
  <2>4. CASE Ends(p) /\ adrift' = adrift \cup lost
    <3>1. ASSUME NEW s \in Rooms, NEW i \in held'[s].list PROVE Excuse(s, i)'
      <4>1. i \in held[s].list /\ i # 0 /\ Excuse(s, i) BY <1>0, <1>2, <2>1, <3>1
      <4>2. CASE row.id = i /\ s \in queue
        <5>1. s \in unaware BY <2>0, <4>1, <4>2 DEF Listed
        <5>2. <<s, i>> \in lost BY <2>0, <4>1, <4>2, <5>1
        <5> QED BY <2>4, <5>2 DEF Excuse
      <4>3. CASE <<s, i>> \in adrift BY <2>4, <4>3 DEF Excuse
      <4>4. CASE Telling(s, i)
        <5>1. p = "evictor" BY <2>2, <4>4 DEF Removers
        <5>2. remover'["admin"] = remover["admin"] BY <2>4, <5>1 DEF Ends, MediaTypes, Removers
        <5> QED BY <4>4, <5>2 DEF Excuse, Telling
      <4> QED BY <4>1, <4>2, <4>3, <4>4 DEF Excuse
    <3> QED BY <3>1
  <2> QED BY <1>20, <2>3, <2>4 DEF DeleteMedia
<1>21. CASE MediaDeleted
  <2> DEFINE k == remover["admin"]
  <2>0. k.phase = "tell" /\ held' = Forgotten(k.id) /\ UNCHANGED <<row, queue, adrift>>
    BY <1>21 DEF MediaDeleted, store, items
  <2>1. \A s \in Rooms : held'[s].list = held[s].list BY <2>0 DEF Forgotten, MediaTypes, Hold
  <2>2. ASSUME NEW s \in Rooms, NEW i \in held[s].list, Telling(s, i) PROVE Telling(s, i)'
    <3>1. i = k.id /\ s \in Holding(k.id) BY <1>3, <2>0, <2>2 DEF Telling, Holding
    <3>2. remover' = [remover EXCEPT !["admin"].phase = "reload", !["admin"].rooms = Holding(k.id)]
      BY <1>21, <3>1 DEF MediaDeleted
    <3>3. remover'["admin"].id = k.id /\ remover'["admin"].phase = "reload" /\ remover'["admin"].rooms = Holding(k.id)
      BY <3>2 DEF MediaTypes, Removers, Removal
    <3> QED BY <3>1, <3>3 DEF Telling
  <2> QED BY <1>4, <2>0, <2>1, <2>2
<1>22. ASSUME NEW r \in Rooms, Reloads(r) PROVE Excused
  <2> DEFINE k == remover["admin"]
  <2>0. Told(r) /\ UNCHANGED <<row, queue>> BY <1>22 DEF Reloads, ReloadQueue, ReloadQueueFails, store, items
  <2>1. ASSUME NEW s \in Rooms \ {r}, NEW i, Telling(s, i) PROVE Telling(s, i)'
    <3>1. k.phase = "reload" /\ k.id = i /\ s \in k.rooms BY <2>0, <2>1 DEF Told, Telling
    <3>2. k.rooms # {r} BY <2>1, <3>1
    <3>3. remover'["admin"] = [k EXCEPT !.rooms = @ \ {r}] BY <2>0, <3>2 DEF Told, MediaTypes, Removers
    <3>4. remover'["admin"].phase = "reload" /\ remover'["admin"].id = i /\ s \in remover'["admin"].rooms
      BY <2>1, <3>1, <3>3 DEF MediaTypes, Removers, Removal
    <3> QED BY <3>4 DEF Telling
  <2>2. CASE Loaded(r) /\ adrift' = Docked(r) /\ \E read \in FromDB(r) : held' = [held EXCEPT ![r] = read]
    <3>1. PICK read \in FromDB(r) : held' = [held EXCEPT ![r] = read] BY <2>2
    <3>2. read.list = Live(r) BY DEF FromDB, Reading
    <3>3. held'[r] = read /\ \A s \in Rooms \ {r} : held'[s] = held[s] BY <3>1 DEF MediaTypes
    <3>4. \A i \in held'[r].list : row.id = i /\ r \in queue BY <3>2, <3>3 DEF Live
    <3> QED BY <1>14, <2>0, <2>1, <2>2, <3>3, <3>4
  <2>3. CASE ~Loaded(r) /\ UNCHANGED <<held, adrift>>
    <3>1. held[r].list = {} BY <2>3 DEF Unread, Empty
    <3>2. ASSUME NEW s \in Rooms, NEW i \in held[s].list, Telling(s, i) PROVE Telling(s, i)'
      BY <2>1, <3>1, <3>2
    <3> QED BY <1>4, <2>0, <2>3, <3>2
  <2>4. CASE UNCHANGED held /\ adrift' = adrift \cup {<<r, i>> : i \in held[r].list \cap {k.id}}
    <3>1. ASSUME NEW s \in Rooms, NEW i \in held[s].list PROVE Excuse(s, i)'
      <4>1. Excuse(s, i) BY <1>0
      <4>2. CASE Telling(s, i) /\ s = r
        <5>1. i \in held[r].list \cap {k.id} BY <3>1, <4>2 DEF Telling
        <5> QED BY <2>4, <4>2, <5>1 DEF Excuse
      <4>3. CASE Telling(s, i) /\ s # r BY <2>1, <4>3 DEF Excuse
      <4>4. CASE ~Telling(s, i) BY <2>0, <2>4, <4>1, <4>4 DEF Excuse
      <4> QED BY <4>2, <4>3, <4>4
    <3> QED BY <2>4, <3>1
  <2> QED BY <1>22, <2>2, <2>3, <2>4 DEF Reloads, ReloadQueue, ReloadQueueFails
<1>23. CASE UNCHANGED rooms
  <2>1. UNCHANGED <<queue, held, adrift>> BY <1>23 DEF rooms
  <2>2. CASE row'.id = row.id
    <3>1. CASE MediaDeleted \/ \E s \in Rooms : Reloads(s) BY <1>21, <1>22, <3>1
    <3>2. CASE ~MediaDeleted /\ \A s \in Rooms : ~Reloads(s)
      <4>1. \A s, i : Telling(s, i) => Telling(s, i)' BY <3>2, TellingKept
      <4> QED BY <1>4, <2>1, <2>2, <4>1
    <3> QED BY <3>1, <3>2
  <2>3. CASE UNCHANGED store BY <2>2, <2>3 DEF store
  <2>4. CASE Ingests BY <2>2, <2>4 DEF Ingests, Publish, FailMedia, MediaTypes, Row
  <2>5. ASSUME NEW p \in Removers, Empties(p) PROVE Excused
    BY <2>2, <2>5 DEF Empties, DeletePrefix, DeletePrefixFails, DeleteMediaFails
  <2> QED BY <1>7, <1>18, <1>20, <2>3, <2>4, <2>5, StoreFrame
<1>24. ASSUME NEW r \in Rooms, History(r) \/ Loads(r) PROVE Excused
  BY <1>12, <1>13, <1>15, <1>16, <1>17, <1>24 DEF History, Loads
<1> QED
  BY <1>7, <1>8, <1>11, <1>12, <1>18, <1>19, <1>20, <1>21, <1>22, <1>23, <1>24, RoomsFrame

-----------------------------------------------------------------------------
(***************************************************************************)
(* The theorems                                                            *)
(***************************************************************************)

\* Every step keeps the invariant.
LEMMA MediaStep == MediaInv /\ [Next]_vars => MediaInv'
<1> SUFFICES ASSUME MediaInv, [Next]_vars PROVE MediaInv' OBVIOUS
<1> USE DEF MediaInv
<1>1. /\ row' \in Row /\ last' \in [id: Nat, prefix: Nat] /\ objects' \in {"none", "whole", "torn"}
      /\ remover' \in [Removers -> Removal]
  BY StoreType, RemoverType
<1>2. blocked' \in BOOLEAN /\ adding' \in SUBSET (Calls \X Rooms) /\ late' \in SUBSET (Calls \X Rooms)
  BY PeopleType
<1>3. queue' \in SUBSET Rooms /\ played' \in SUBSET Rooms /\ Rooted' BY TablesType
<1>4. held' \in [Rooms -> Hold] /\ loading' \in [Rooms -> SUBSET Hold] /\ Unread' BY HeldType
<1>5. /\ relay' \in [Relays -> Relay]
      /\ \A p \in Relays : relay'[p].todo # {} => relay'[p].fresh[2] \in Status
  BY RelayType
<1>6. MediaTypes' BY <1>1, <1>2, <1>3, <1>4, <1>5 DEF MediaTypes
<1>7. Numbered' /\ Listed' /\ NoGhosts' BY NumberedStep, ListedStep, GhostStep
<1>8. Published' /\ ReadyHasObjects' BY PublishedStep, ReadyStep
<1>9. Barred' BY BarredStep
<1> QED BY <1>3, <1>4, <1>6, <1>7, <1>8, <1>9

\* The invariant of every reachable state.
THEOREM MediaInvariant == Spec => []MediaInv
  BY MediaInit, MediaStep, PTL DEF Spec

\* No room queues an item whose row is gone, but for a deletion about to tell
\* it or cut off before that, an item the evictor could not know of, and a
\* read of the queue that failed or came too early.
THEOREM NoGhostItems == Spec => []NoGhosts
<1>1. MediaInv => NoGhosts BY DEF MediaInv
<1> QED BY <1>1, MediaInvariant, PTL

\* The package of a ready media is in the object store unless a removal is
\* between the objects and the row or failed there.
THEOREM ReadyMediaPlays == Spec => []ReadyHasObjects
<1>1. MediaInv => ReadyHasObjects BY DEF MediaInv
<1> QED BY <1>1, MediaInvariant, PTL

\* While a source is blocked, the only rooms with an item of it are those that
\* had one before, in the queue or the history they replay and loop, and those
\* of calls that were past the blocklist when the block was written.
THEOREM BlockHolds == Spec => BlockedStays
<1>1. ASSUME MediaInv, [Next]_vars, blocked, NEW r \in queue' \cup played'
      PROVE  Keeps(r) \/ \E c \in Calls : <<c, r>> \in late
  BY <1>1, QueueGrows DEF MediaInv, Barred
<1>2. MediaInv /\ [Next]_vars
        => [blocked /\ blocked' =>
              \A r \in queue' \cup played' : Keeps(r) \/ \E c \in Calls : <<c, r>> \in late]_vars
  BY <1>1
<1> QED BY <1>2, MediaInvariant, PTL DEF Spec, BlockedStays

=============================================================================
