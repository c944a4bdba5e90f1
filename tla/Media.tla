------------------------------- MODULE Media --------------------------------
(***************************************************************************)
(* One source across the server: how a room takes it in                    *)
(* (ingest.Service.Admit and Create, room/queue.go), how rooms hear of its *)
(* ingest (jobs/listen.go, room/manager.go: notifications that may be      *)
(* lost, and the reconciliation that makes up for it), and how it goes     *)
(* (mediastore/evict.go, apihttp/admin.go: the evictor, an administrator   *)
(* who deletes and blocks it, and one who evicts it).                      *)
(*                                                                         *)
(* The source key names at most one row of the media table.  A row that    *)
(* was removed and created again is a new media with an id of its own; a   *)
(* package uploaded by an ingest has a prefix of its own.  Every query,    *)
(* every call to the object store and every section under a room's mutex   *)
(* is one step; the steps of the web handlers, the evictor, the listener   *)
(* and the reconciliation interleave.  The ingest itself is the module     *)
(* Ingest; here it only moves the status.  A room may have several items   *)
(* of the media, in its queue and in its history: what is followed is      *)
(* where it has at least one, so a step that takes one of several away     *)
(* changes nothing here.                                                   *)
(***************************************************************************)
EXTENDS Naturals, FiniteSets

CONSTANTS
    Rooms,
    Calls,          \* the QueueAdd calls of the viewers
    MaxId,          \* bound on the rows created for the source
    MaxPackages,    \* bound on the packages published for it
    MaxBusy,        \* bound on the handlers and goroutines in the middle of something
    Casts           \* bound on who overlaps with whom: sets of relays and removers

ASSUME MediaAssumption == MaxId \in Nat \ {0} /\ MaxPackages \in Nat \ {0} /\ MaxBusy \in Nat \ {0}

Ids == 1..MaxId

\* Every step of the ingest before its end is pending here.
Status == {"pending", "ready", "failed"}

\* The two goroutines that bring rooms up to date, and who removes the source.
Relays == {"listener", "ticker"}
Removers == {"evictor", "admin"}

VARIABLES
    row,        \* the media row of the source: id (0: none), status and prefix
    last,       \* the last id and the last prefix used
    objects,    \* the package the row names, in the object store: "none", "whole",
                \* or "torn" when a removal emptied it, at least in part, and failed
    blocked,    \* the source is in media_blocklist
    queue,      \* table queue_items: the rooms with an item of the row to play
    played,     \* the same: the rooms with an item of the row in their history
    held,       \* Room.queue, Room.played and Room.media of each room
    adding,     \* the calls past Admit, each with its room
    loading,    \* rooms being loaded, and what they read
    up,         \* the listener has a connection
    relay,      \* mediaChanged or reconcileMedia, in each goroutine
    remover,    \* a removal under way
    adrift,     \* items of a room that lost their row in a race the code allows
    late,       \* the calls that were past Admit when the source was blocked
    cast        \* the relays and removers of this behaviour

vars == <<row, last, objects, blocked, queue, played, held, adding, loading, up, relay, remover, adrift, late, cast>>
store == <<row, last, objects>>
items == <<queue, played>>
rooms == <<queue, played, held, loading, adrift>>
people == <<blocked, adding, late>>
news == <<up, relay>>

NoRow == [id |-> 0, status |-> "pending", prefix |-> 0]

\* What a room holds: the media it queues, those in its history, and the
\* status of its copy of each ("none": no copy).
Empty == [list |-> {}, hist |-> {}, media |-> [i \in Ids |-> "none"]]
\* The copy of a media a room has no item of any more is never used: an item
\* that is added later brings a new one.
Trim(h) == [h EXCEPT !.media = [i \in Ids |-> IF i \in h.list \cup h.hist THEN @[i] ELSE "none"]]
Idle == [fresh |-> <<0, "none">>, all |-> FALSE, todo |-> {}]
Done == [phase |-> "idle", id |-> 0, prefix |-> 0, rooms |-> {}]

Init ==
    /\ row = NoRow /\ last = [id |-> 0, prefix |-> 0] /\ objects = "none"
    /\ blocked = FALSE /\ adding = {} /\ late = {}
    /\ queue = {} /\ played = {} /\ held = [r \in Rooms |-> Empty]
    /\ loading = [r \in Rooms |-> {}] /\ adrift = {}
    /\ up = FALSE /\ relay = [p \in Relays |-> Idle]
    /\ cast \in Casts
    /\ remover = [p \in Removers |-> Done]

Loaded(r) == loading[r] = {}

\* At least one item of the row.
Queued == queue \cup played # {}

\* The room's live items lose their reason to be adrift with themselves.
Docked(r) == {a \in adrift : a[1] # r}

\* The bound on what goes on at once.  The ticker does not count, so that the
\* reconciliation never waits for the others.
NotBusy == Cardinality(adding) + Cardinality({r \in Rooms : ~Loaded(r)}) + Cardinality({p \in Removers : remover[p] # Done})
            + (IF relay["listener"] # Idle THEN 1 ELSE 0) < MaxBusy

-----------------------------------------------------------------------------
(***************************************************************************)
(* A room takes the source in                                              *)
(***************************************************************************)

\* Mutated: the blocklist is not read.
Admit_Unchecked(c, r) ==
    /\ Loaded(r) /\ (\A s \in Rooms : <<c, s>> \notin adding) /\ NotBusy
    /\ adding' = adding \cup {<<c, r>>}
    /\ UNCHANGED <<store, rooms, blocked, news, remover, late>>

\* QueueAdd up to Admit, without the room's mutex: the blocklist is read.
Admit(c, r) ==
    /\ Loaded(r) /\ (\A s \in Rooms : <<c, s>> \notin adding) /\ NotBusy
    /\ ~blocked
    /\ adding' = adding \cup {<<c, r>>}
    /\ UNCHANGED <<store, rooms, blocked, news, remover, late>>

Added(c, r) ==
    /\ <<c, r>> \in adding
    /\ adding' = adding \ {<<c, r>>} /\ late' = late \ {<<c, r>>}

\* AddQueueItem, and the evictor's removal of the media if it is listed.
AddQueueItem(r, id) ==
    /\ queue' = queue \cup {r}
    /\ remover' = [remover EXCEPT !["evictor"].rooms = IF remover["evictor"].id = id THEN @ \cup {r} ELSE @]

\* The rest of QueueAdd, under the mutex: one transaction finds or creates
\* the row (and its job) and adds the item.
QueueAdd(c, r) ==
    LET fresh == row.id = 0
        id == IF fresh THEN last.id + 1 ELSE row.id
        kept == IF fresh THEN [NoRow EXCEPT !.id = id] ELSE row
    IN /\ Added(c, r) /\ Loaded(r) /\ id \in Ids
       /\ row' = kept /\ last' = [last EXCEPT !.id = IF fresh THEN id ELSE @]
       /\ AddQueueItem(r, id)
       /\ held' = [held EXCEPT ![r].list = @ \cup {id}, ![r].media[id] = kept.status]
       /\ UNCHANGED <<objects, blocked, played, loading, adrift, news>>

\* Not added: a duplicate, or the room refuses or the transaction fails.
QueueAddRefused(c, r) ==
    /\ Added(c, r)
    /\ UNCHANGED <<store, rooms, blocked, news, remover>>

\* QueueReplay: an item of the room's history is added again.  Nobody asks
\* the blocklist.  An item whose media is gone cannot be inserted.
QueueReplay(r, id) ==
    /\ Loaded(r) /\ id \in held[r].hist /\ row.id = id
    /\ AddQueueItem(r, id)
    /\ held' = [held EXCEPT ![r].list = @ \cup {id}]
    /\ UNCHANGED <<store, people, played, loading, adrift, news>>

\* QueueRemove, QueueClear take the last item to play.
QueueRemove(r, id) ==
    /\ Loaded(r) /\ id \in held[r].list
    /\ queue' = IF row.id = id THEN queue \ {r} ELSE queue
    /\ held' = [held EXCEPT ![r] = Trim([held[r] EXCEPT !.list = @ \ {id}])]
    /\ adrift' = adrift \ {<<r, id>>}
    /\ UNCHANGED <<store, people, played, loading, news, remover>>

\* markPlayedLocked (the next item, a jump, the end of the session), of one
\* item or of the last.  It does not mind that the row is gone.
MarkPlayed(r, id) ==
    /\ Loaded(r) /\ id \in held[r].list
    /\ \/ /\ queue' = IF row.id = id THEN queue \ {r} ELSE queue
          /\ held' = [held EXCEPT ![r].list = @ \ {id}, ![r].hist = @ \cup ({id} \cap {row.id})]
          /\ adrift' = adrift \ {<<r, id>>}
       \/ /\ held' = [held EXCEPT ![r].hist = @ \cup ({id} \cap {row.id})]
          /\ UNCHANGED <<queue, adrift>>
    /\ played' = IF row.id = id THEN played \cup ({r} \cap queue) ELSE played
    /\ UNCHANGED <<store, people, loading, news, remover>>

\* markPlayedLocked of other items: the history in memory is a short one.
HistoryForgets(r, id) ==
    /\ Loaded(r) /\ id \in held[r].hist
    /\ held' = [held EXCEPT ![r] = Trim([held[r] EXCEPT !.hist = @ \ {id}])]
    /\ UNCHANGED <<store, people, items, loading, adrift, news, remover>>

QueueClearPlayed(r) ==
    /\ Loaded(r)
    /\ played' = played \ {r}
    /\ held' = [held EXCEPT ![r] = Trim([held[r] EXCEPT !.hist = {}])]
    /\ UNCHANGED <<store, people, queue, loading, adrift, news, remover>>

\* PurgePlayed, of old rows; no room is told.
PurgePlayed(r) ==
    /\ r \in played
    /\ played' = played \ {r}
    /\ UNCHANGED <<store, people, queue, held, loading, adrift, news, remover>>

\* QueueRetry believes the room's copy; Retry queues the row again.  Rooms
\* told by one notification share the copy (mediaChanged).
QueueRetry(r) ==
    LET failed == {s \in Rooms : row.id \in Ids /\ held[s].media[row.id] = "failed"}
    IN /\ Loaded(r) /\ row.id \in held[r].list /\ r \in failed
       /\ row' = [row EXCEPT !.status = "pending"]
       /\ \E sharing \in SUBSET failed :
            held' = [s \in Rooms |-> IF s \in sharing \cup {r} THEN [held[s] EXCEPT !.media[row.id] = "pending"] ELSE held[s]]
       /\ UNCHANGED <<last, objects, people, items, loading, adrift, news, remover>>

\* reloadQueue: what a room holds after it read its queue, the newest of its
\* history and their media.
Reading(list, hist) ==
    [list |-> list, hist |-> hist,
     media |-> [i \in Ids |-> IF i \in list \cup hist THEN row.status ELSE "none"]]
Live(r) == IF r \in queue THEN {row.id} ELSE {}
Past(r) == IF r \in played THEN {row.id} ELSE {}
FromDB(r) == {Reading(Live(r), hist) : hist \in SUBSET Past(r)}

\* The loop of nextLocked, in a queue that ran out with what the room plays:
\* RequeuePlayed makes the history the queue again, whatever is blocked, and
\* the room reads it.  When that fails the room has only played its items.
RequeuePlayed(r) ==
    /\ Loaded(r)
    /\ queue' = queue \cup ({r} \cap played) /\ played' = played \ {r}
    /\ \/ held' = [held EXCEPT ![r] = Reading(Live(r) \cup Past(r), {})]
       \/ held' = [held EXCEPT ![r].list = {}, ![r].hist = @ \cup held[r].list]
    /\ adrift' = Docked(r)
    /\ UNCHANGED <<store, people, loading, news, remover>>

\* An idle room is unloaded and later loaded again (Manager.Get): it is not
\* in the manager's map before the load ends.
LoadRead(r) ==
    /\ Loaded(r) /\ (\A c \in Calls : <<c, r>> \notin adding) /\ NotBusy
    /\ \E read \in FromDB(r) : loading' = [loading EXCEPT ![r] = {read}]
    /\ held' = [held EXCEPT ![r] = Empty]
    /\ adrift' = Docked(r)
    /\ UNCHANGED <<store, people, items, news, remover>>

LoadDone(r) ==
    \E read \in loading[r] :
        /\ held' = [held EXCEPT ![r] = read]
        /\ loading' = [loading EXCEPT ![r] = {}]
        /\ adrift' = adrift \cup ({r} \X (read.list \ Live(r)))
        /\ UNCHANGED <<store, people, items, news, remover>>

-----------------------------------------------------------------------------
(***************************************************************************)
(* The ingest, seen from here                                              *)
(***************************************************************************)

FailMedia ==
    /\ row.id # 0 /\ row.status = "pending"
    /\ row' = [row EXCEPT !.status = "failed"]
    /\ UNCHANGED <<last, objects, people, rooms, news, remover>>

\* PublishMedia, of a package that was uploaded.
Publish ==
    LET prefix == last.prefix + 1 IN
    /\ row.id # 0 /\ row.status = "pending" /\ prefix <= MaxPackages
    /\ row' = [row EXCEPT !.status = "ready", !.prefix = prefix]
    /\ last' = [last EXCEPT !.prefix = prefix]
    /\ objects' = "whole"
    /\ UNCHANGED <<people, rooms, news, remover>>

-----------------------------------------------------------------------------
(***************************************************************************)
(* The news                                                                *)
(***************************************************************************)

\* holding: also rooms that only have the media in their history.
Holding(id) == {r \in Rooms : Loaded(r) /\ id \in held[r].list \cup held[r].hist}

\* Mutated: a failed media counts as settled.
Unsettled_NotFailed == {id \in Ids : \E r \in Rooms : Loaded(r) /\ held[r].media[id] = "pending"}

\* unsettledMedia of every room: ready is settled, failed is not.
Unsettled == {id \in Ids : \E r \in Rooms : Loaded(r) /\ held[r].media[id] \in {"pending", "failed"}}

\* The rooms a row that was read is for.  They are found (holding, loaded)
\* just before the query; a room that takes the media in between has itself
\* just read the row.
News(all, to) == IF to = {} THEN Idle ELSE [fresh |-> <<row.id, row.status>>, all |-> all, todo |-> to]

\* reconcileMedia: GetMediaBatch of the media some room still waits for.
Reconcile == News(TRUE, IF row.id \in Unsettled THEN {r \in Rooms : Loaded(r)} ELSE {})

\* listenOnce: LISTEN goes through, and connected reconciles.
Connect ==
    /\ "listener" \in cast /\ ~up /\ relay["listener"] = Idle /\ NotBusy
    /\ up' = TRUE
    /\ relay' = [relay EXCEPT !["listener"] = Reconcile]
    /\ UNCHANGED <<store, people, rooms, remover>>

\* The connection is lost, with the notifications it had not delivered.
Disconnect ==
    /\ up /\ relay["listener"] = Idle
    /\ up' = FALSE
    /\ UNCHANGED <<store, people, rooms, relay, remover>>

\* mediaChanged: GetMedia, for the rooms that hold it.  A notification comes
\* with every fenced write of the ingest, names the media and no more, and may
\* be lost or late: at any time one may be there, or never.  One whose
\* GetMedia fails, like a reconciliation that fails, changes nothing.
WaitForNotification ==
    /\ up /\ relay["listener"] = Idle /\ NotBusy
    /\ relay' = [relay EXCEPT !["listener"] = News(FALSE, Holding(row.id))]
    /\ UNCHANGED <<store, people, rooms, up, remover>>

\* Manager.Run: the ticker of ReconcileEvery, with a query that succeeds.
Tick ==
    /\ "ticker" \in cast /\ relay["ticker"] = Idle /\ Reconcile # Idle
    /\ relay' = [relay EXCEPT !["ticker"] = Reconcile]
    /\ UNCHANGED <<store, people, rooms, up, remover>>

\* MediaUpdated takes any row of a media the room holds, ReconcileMedia only
\* one that moved on from a copy that is not ready.
Takes(r, k) ==
    /\ Loaded(r) /\ held[r].media[k.fresh[1]] \in Status
    /\ k.all => held[r].media[k.fresh[1]] \notin {"ready", k.fresh[2]}

Apply(p, r) ==
    LET k == relay[p]
        rest == k.todo \ {r}
    IN /\ r \in k.todo
       /\ relay' = [relay EXCEPT ![p] = IF rest = {} THEN Idle ELSE [k EXCEPT !.todo = rest]]
       /\ held' = IF Takes(r, k) THEN [held EXCEPT ![r].media[k.fresh[1]] = k.fresh[2]] ELSE held
       /\ UNCHANGED <<store, people, items, loading, adrift, up, remover>>

-----------------------------------------------------------------------------
(***************************************************************************)
(* The source goes                                                         *)
(***************************************************************************)

Starts(p, phase) ==
    remover' = [remover EXCEPT ![p] = [phase |-> phase, id |-> row.id, prefix |-> row.prefix, rooms |-> {}]]
\* About to delete the package; who blocked the source goes on if that fails.
Deleting == {"objects", "purge"}
Goes(p, phase) == remover' = [remover EXCEPT ![p].phase = phase]
Ends(p) == remover' = [remover EXCEPT ![p] = Done]

\* Mutated: the queues are not asked.
ListEvictableMedia_Any == row.id # 0 /\ row.status = "ready"

\* ListEvictableMedia has the row: ready, in no queue and no history.
ListEvictableMedia == row.id # 0 /\ row.status = "ready" /\ ~Queued

\* Evictor.Run, over its budget, lists a media that was not watched
\* lately (how long is left open); so
\* does handleAdminEvictStale, in whose place an administrator acts.
ListStale(p) ==
    /\ p \in cast /\ remover[p] = Done /\ NotBusy
    /\ ListEvictableMedia
    /\ Starts(p, "objects")
    /\ UNCHANGED <<store, people, rooms, news>>

\* handleAdminDeleteMedia, which first blocks the source, and
\* handleAdminEvictMedia, which asks first whether it is queued: GetMedia.
GetMedia(first) ==
    /\ "admin" \in cast /\ remover["admin"] = Done /\ NotBusy
    /\ row.id # 0
    /\ Starts("admin", first)
    /\ UNCHANGED <<store, people, rooms, news>>

\* MediaQueued: a queued media, or one in a history, is not evicted.
MediaQueued ==
    /\ remover["admin"].phase = "queued"
    /\ IF row.id = remover["admin"].id /\ Queued THEN Ends("admin") ELSE Goes("admin", "objects")
    /\ UNCHANGED <<store, people, rooms, news>>

Blocks == blocked' = TRUE /\ late' = IF blocked THEN late ELSE adding

\* BlockSource in handleAdminDeleteMedia; when its answer is lost with the
\* request, that is the end of it.
BlockSource ==
    /\ remover["admin"].phase = "block"
    /\ Blocks
    /\ Goes("admin", "purge") \/ Ends("admin")
    /\ UNCHANGED <<store, rooms, adding, news>>

\* The request is over before anything was done.
RequestFails ==
    /\ remover["admin"].phase \in {"block", "queued"}
    /\ Ends("admin")
    /\ UNCHANGED <<store, people, rooms, news>>

\* handleAdminBlock
AdminBlock ==
    /\ ~blocked
    /\ Blocks
    /\ UNCHANGED <<store, rooms, adding, news, remover>>

\* handleAdminUnblock, UnblockSource
AdminUnblock ==
    /\ blocked
    /\ blocked' = FALSE /\ late' = {}
    /\ UNCHANGED <<store, rooms, adding, news, remover>>

\* Mutated: the prefix of the source, which its next media shares.
DeletePrefix_Shared(p) ==
    /\ remover[p].phase \in Deleting
    /\ objects' = "none"
    /\ Goes(p, "row")
    /\ UNCHANGED <<row, last, people, rooms, news>>

\* DeletePrefix of the package the removal read; a media that was not ready
\* had none.
DeletePrefix(p) ==
    /\ remover[p].phase \in Deleting
    /\ objects' = IF objects = "whole" /\ remover[p].prefix = row.prefix THEN "none" ELSE objects
    /\ Goes(p, "row")
    /\ UNCHANGED <<row, last, people, rooms, news>>

Tears(p) == objects' = IF row.prefix # 0 /\ remover[p].prefix = row.prefix THEN "torn" ELSE objects

\* It fails with some objects left or gone: handleAdminDeleteMedia goes on.
DeletePrefixFails(p) ==
    /\ remover[p].phase \in Deleting /\ remover[p].prefix # 0
    /\ Tears(p)
    /\ IF remover[p].phase = "purge" THEN Goes(p, "row") ELSE Ends(p)
    /\ UNCHANGED <<row, last, people, rooms, news>>

\* An item of a history cannot be added again once the row is gone; it still
\* counts while an administrator is to tell the rooms.
Forgotten(id) == [r \in Rooms |-> [held[r] EXCEPT !.hist = @ \ {id}, !.media[id] = "none"]]

\* DeleteMedia: the queue items go with the row, and nothing takes the news
\* about it that are on their way any more.  The evictor tells no room;
\* neither does an administrator whose request is cancelled while the row
\* goes, so that the deletion takes effect and reports an error.
DeleteMedia(p) ==
    LET k == remover[p]
        unaware == IF p = "evictor" THEN k.rooms ELSE Rooms
    IN /\ k.phase = "row" /\ row.id = k.id
       /\ row' = NoRow /\ objects' = "none"
       /\ queue' = {} /\ played' = {}
       /\ \/ /\ p = "admin" /\ UNCHANGED adrift
             /\ remover' = [remover EXCEPT ![p] = [Done EXCEPT !.phase = "tell", !.id = k.id]]
             /\ held' = [r \in Rooms |-> [held[r] EXCEPT !.media[k.id] = "none"]]
          \/ /\ Ends(p) /\ held' = Forgotten(k.id)
             /\ adrift' = adrift \cup {<<r, k.id>> : r \in {s \in unaware : k.id \in held[s].list}}
       /\ relay' = [s \in Relays |-> IF relay[s].fresh[1] = k.id THEN Idle ELSE relay[s]]
       /\ UNCHANGED <<last, people, loading, up>>

\* It fails without effect, or the row is gone already.
DeleteMediaFails(p) ==
    /\ remover[p].phase = "row"
    /\ Tears(p)
    /\ Ends(p)
    /\ UNCHANGED <<row, last, people, rooms, news>>

\* OnMediaDeleted, Manager.MediaDeleted: the loaded rooms that hold it.
MediaDeleted ==
    LET k == remover["admin"] IN
    /\ k.phase = "tell"
    /\ IF Holding(k.id) = {} THEN Ends("admin")
       ELSE remover' = [remover EXCEPT !["admin"].phase = "reload", !["admin"].rooms = Holding(k.id)]
    /\ held' = Forgotten(k.id)
    /\ UNCHANGED <<store, people, items, loading, adrift, news>>

Told(r) ==
    LET k == remover["admin"] IN
    /\ k.phase = "reload" /\ r \in k.rooms
    /\ remover' = [remover EXCEPT !["admin"] = IF k.rooms = {r} THEN Done ELSE [k EXCEPT !.rooms = @ \ {r}]]

\* A room that was unloaded meanwhile reads for nobody.
ReloadQueue(r) ==
    /\ Told(r)
    /\ \/ /\ Loaded(r) /\ adrift' = Docked(r)
          /\ \E read \in FromDB(r) : held' = [held EXCEPT ![r] = read]
       \/ ~Loaded(r) /\ UNCHANGED <<held, adrift>>
    /\ UNCHANGED <<store, people, items, loading, news>>

ReloadQueueFails(r) ==
    /\ Told(r)
    /\ adrift' = adrift \cup {<<r, i>> : i \in held[r].list \cap {remover["admin"].id}}
    /\ UNCHANGED <<store, people, items, held, loading, news>>

-----------------------------------------------------------------------------

Next ==
    /\ UNCHANGED cast
    /\ \/ \E r \in Rooms :
            \/ QueueRetry(r) \/ QueueClearPlayed(r) \/ PurgePlayed(r) \/ RequeuePlayed(r)
            \/ LoadRead(r) \/ LoadDone(r) \/ ReloadQueue(r) \/ ReloadQueueFails(r)
            \/ \E c \in Calls : Admit(c, r) \/ QueueAdd(c, r) \/ QueueAddRefused(c, r)
            \/ \E id \in Ids : QueueReplay(r, id) \/ QueueRemove(r, id) \/ MarkPlayed(r, id) \/ HistoryForgets(r, id)
            \/ \E p \in Relays : Apply(p, r)
       \/ Publish \/ FailMedia
       \/ Connect \/ Disconnect \/ WaitForNotification \/ Tick
       \/ \E first \in {"block", "queued"} : GetMedia(first)
       \/ MediaQueued \/ BlockSource \/ RequestFails \/ AdminBlock \/ AdminUnblock \/ MediaDeleted
       \/ \E p \in Removers : ListStale(p) \/ DeletePrefix(p) \/ DeletePrefixFails(p) \/ DeleteMedia(p) \/ DeleteMediaFails(p)

\* Manager.Run comes back to its ticker, the database answers it again and
\* again, if not every time, and it finishes what it started.
Fairness ==
    /\ SF_vars(Tick /\ UNCHANGED cast)
    /\ \A r \in Rooms : WF_vars(Apply("ticker", r) /\ UNCHANGED cast)

Spec == Init /\ [][Next]_vars /\ Fairness

-----------------------------------------------------------------------------
(***************************************************************************)
(* Properties                                                              *)
(***************************************************************************)

\* A room that waits for a video that is ready does not wait for good, even
\* when every notification is lost or is applied late: its copy becomes
\* ready, unless the item or the video goes first (reconcileMedia).
HearsOfIt ==
    \A r \in Rooms :
        LET waits == "ticker" \in cast /\ Loaded(r) /\ row.id \in held[r].list /\ row.status = "ready" /\ held[r].media[row.id] # "ready"
        IN waits ~> ~waits

\* A loaded room queues no item whose row is gone, but for an administrator's
\* deletion that is about to tell it or whose request was cancelled, an item
\* added after the evictor had listed the media, and a reload that failed or
\* a load that had read the queue before (ListEvictableMedia, DeleteMedia,
\* MediaDeleted, QueueReplay, RequeuePlayed).
NoGhosts ==
    \A r \in Rooms : \A id \in held[r].list :
        \/ row.id = id /\ r \in queue
        \/ <<r, id>> \in adrift
        \/ LET k == remover["admin"] IN k.id = id /\ (k.phase = "tell" \/ (k.phase = "reload" /\ r \in k.rooms))

\* The package of a ready media is in the object store, unless a removal is
\* between the objects and the row or failed there: nothing else deletes the
\* package a row names (evictMedia, Evictor.Run, PublishMedia).
ReadyHasObjects ==
    row.status = "ready" =>
        \/ objects # "none"
        \/ \E p \in Removers : remover[p].phase = "row" /\ remover[p].prefix = row.prefix

\* The room has the source: an item in the tables, or a copy of one in its
\* history that it may add again.
Keeps(r) == r \in queue \cup played \/ row.id \in held[r].hist

\* A block ends nothing a room already has: QueueReplay and the loop add an
\* item of a blocked source again without a look at the blocklist.  But a
\* blocked source reaches no further room, and once its row is deleted it
\* comes back to none, unless by a call that was past the blocklist when the
\* block was written (Admit, Create, BlockSource, QueueReplay, nextLocked).
BlockedStays ==
    [][blocked /\ blocked' =>
          \A r \in queue' \cup played' : Keeps(r) \/ \E c \in Calls : <<c, r>> \in late]_vars

=============================================================================
