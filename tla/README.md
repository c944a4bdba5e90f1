# couchcast: TLA+ models and proofs

couchcast is a self-hosted watch party server: people meet in a *room*, queue
links, and a server-side clock keeps every viewer's player at the same place.
A separate worker process downloads, packages and uploads each link's video.
This directory models the parts of that program whose correctness depends on
the order in which things happen, checks them with TLC and proves the most
important facts with TLAPS.

`PROJECT.json` lists the same material for tools: components, runs, the source
lines behind every definition (`map`), mutations every property is shown to
catch, findings, hazards and theorems.

## 1. Inventory of the system

| component | state it keeps | operations | interacts with |
|---|---|---|---|
| job queue (`internal/jobs`) | `jobs` rows: status, attempts, lease, lease expiry | Enqueue, Claim, Renew, Fenced, Complete, Fail, RecoverStale | worker goroutines, several processes, Postgres |
| ingest pipeline (`internal/ingest`) | `media` rows: status, published prefix, probed fields | Create, Retry, the handler's steps | queue leases, object store, rooms (progress) |
| cleaner (`internal/mediastore/attempts.go`) | what it listed and decided to remove | list, check, delete | object store against `media` and `jobs` |
| removal of media (`internal/mediastore/evict.go`, `apihttp/admin.go`) | what it listed or loaded, the blocklist | evict, delete and block, unblock | object store, `media`, loaded rooms |
| progress (`internal/jobs/listen.go`, `room/manager.go`) | a listening connection, what a reconciliation read | NOTIFY, LISTEN, reconcile | ingest to rooms |
| room (`internal/room`) | clock, queue, history, copies of media rows, viewers, votes, settings, five timers | about thirty commands, timer callbacks, Tick | database, hub, manager, ingest news |
| chat (`room/chat.go`, `apihttp/mutes.go`) | `messages`, the pin, mutes | send, edit, delete, clear, pin, react, mute, retention | hub, browser |
| room manager (`internal/room/manager.go`) | map of loaded rooms, loads in flight | Get, Warm, tick, Refresh, Unload, kicks, shutdown | hub, HTTP API, janitor |
| hub (`internal/hub`) | a connection's send queue and close reason, its actor | Serve, Send, Close, reader and writer, freshActor | room (Join, commands, Leave), access |
| rooms API, access (`apihttp/rooms.go`, `invite_links.go`, `internal/access`) | members, owner, bans, invites, invite links | the REST handlers | repository, hooks into the manager |
| accounts (`internal/auth`, `apihttp/auth.go`) | password, role, site ban, sessions | login, resolve, touch, revocations, ban | API middleware, hub |
| rate limits, reminders, web push | limiters, claimed reminders | refuse, remind | API |
| web client (`web/src`) | messages and pin shown, clock offset, player | the event reducer, sync, reconnect | hub |

What is hard in it:

* **Leases that outlive their holder.** Several workers may believe they own a
  job: a stalled one whose lease ran out, and the one that claimed the job
  since. Every write that shows a result must be conditional on the lease, and
  the cleaner must tell an abandoned upload from one in progress.
* **A crash between two statements.** Rooms write rows one by one; nothing
  rolls the room back when the second fails.
* **Timers.** A `time.AfterFunc` that has fired cannot be stopped: its callback
  waits for the room's mutex and runs later, in a room that moved on.
* **Rooms that come and go.** Load, eviction, deletion and shutdown race with
  requests and with connections that already hold a room.
* **Stale copies.** A room holds copies of media rows; a retry or a start is
  decided on them. News of a change is a notification that may be lost, late or
  out of order.
* **Checks that are not transactions.** An HTTP request reads the room, the
  caller's role and the target, and then writes: another request, or the
  target's own connection, runs in between. Only single statements are atomic.
* **Queues of a connection.** The room never waits for a client: it puts events
  into a bounded queue and closes the connection when it is full, while the
  writer, the reader and the room each do their part of ending it.

What makes each part correct is stated with the modules below; the points where
it can go wrong, line by line, are the `hazards` of `PROJECT.json`.

## 2. Modules

| module | models | state | notes |
|---|---|---|---|
| `Ingest` | jobs, ingest, cleaner, `repository/media.go` | `media`, `jobs`, `att` (one per lease token), `objects`, `view` (a room's copy of a status), `retrying`, `cleaner` | no fixed number of workers: an attempt is a lease |
| `Library` | what the pipeline promises to a viewer | `status`, `package` | abstract; `Ingest` implements it |
| `RoomCore` | what the room's locked helpers compute | none | clock, queue, timers as functions of the room record |
| `Room` | `room/*.go` and its rows | `room`, `db`, `deleted` | EXTENDS `RoomCore`; one action per command or callback |
| `Manager` | `manager.go`, `room.go`, the hub's use of them | `mapped`, `load`, `inst`, `conn`, `ticker`, `unload`, `row`, `version` | one room; each lock section is an action |
| `Members` | `apihttp/rooms.go`, `invite_links.go`, `access`, the hub's handshake and freshActor | `owner`, `role`, `bans`, `invite`, `link`, `req`, `conn` and the room's row | one room; a request is a sequence of statements |
| `Accounts` | `auth`, `apihttp/auth.go`, the site bans of `admin.go` | `password`, `admin`, `banned`, `session`, `req`, `conn`, `slips` (who got past their session before a kick) | one account |
| `Chat` | `room/chat.go`, the hub's connection, `mutes.go`, the reducer `web/src/store/room.ts` | `msgs`, `saved`, `pinned`, `untold`, `muted`, `speaking`, `slips` (per connection), `conn`, `ended` | composes room, hub and browser |
| `Media` | admission, news and removal of one source across the server | `row`, `objects`, `blocked`, `queue`, `played`, `held` (a room's memory), `adding`, `loading`, `relay`, `remover`, `adrift`, `late` | composes rooms, listener, evictor and administrators |
| `Slices` | the loops that keep some elements of a slice | none | `Only` and `Without`, used by `RoomCore`, `Room` and `Chat` |
| `IngestProofs`, `RoomProofs`, `ManagerProofs`, `MembersProofs`, `AccountsProofs`, `ChatProofs`, `MediaProofs` | | | theorems |
| `SlicesProofs` | | | lemmas about `Slices` and about sequences |
| `MCIngest`, `MCRoom`, `MCManager`, `MCMembers`, `MCAccounts`, `MCChat`, `MCMedia` | | | instances for TLC |

An operator called `Name_Bug` stands before `Name` and is a wrong version of
it; no specification uses it.

### Ingest

A media row goes from `queued` over `probing`, `downloading`, `packaging` and
`uploading` to `ready` or `failed`. An attempt (`att[l]`, where `l` is the token that
`Claim` wrote into the row) walks the handler: `Load`, `SetStatus`, `Work`,
`BeginUpload`, `FinishUpload`, `Publish`, then `Complete`, or `FailMedia` and
`RecordFail`. `Owned(l)` is the condition `id = $1 AND lease = $2 AND status =
'running'`, which `Fenced` and the statements of the queue put on their writes.
`Probed` writes without it, as the code does. A write may go through and its answer be
lost (`Answered`): the watchdog or SIGTERM cancels the context while the commit is
under way, and the attempt goes on as if the write had failed. After `Publish` that
means that `FailMedia`, which runs on a context of its own and is still fenced by a
lease the attempt still holds, marks the media failed that was just published.
`Expire` lets a lease run out at any moment, `Watchdog` is the worker's own reaction,
`RecoverStale` the janitor's, `Crash` ends an attempt anywhere. A stale attempt goes
on until one of its conditional writes matches nothing, so up to `MaxAttempts`
attempts run at once. The cleaner lists prefixes (the listing may show any part of the
store), asks the database which are unused, and deletes them one by one, with anything
in between. A retry from a room is the code's three parts: the decision on the room's
copy, the status, the new job. The retry of the command line
(`cmd/couchcast/media.go`) does what a room's does. `Queue.Retry` has no caller
outside the tests and is left out.

### Library

`Library` is the pipeline as a viewer sees it: a status (none, pending, ready or
failed) and the package that requests are served from. `Ingest` refines it with the
mapping `Shown` (every step in progress is pending) and `Served` (the prefix of the
row; a prefix whose objects are not all there maps to a value that is not a package).
`Retries` is whether some room may retry: without it a ready media stays ready, with
one exception. A media whose publisher was not told so is `unheard` (a viewer sees
ready): it may still become failed, until the publisher has done something else
(`Settle`). Its package is served all the same. With retries, `Work` may start from
ready, which is what a retry decided on a stale copy does.

### RoomCore and Room

Positions in a video are `start`, `mid` and `end`: the code compares a position
only with 0 and with the duration. The clock is `base` (the stored position)
and `here` (where it has run to). Each of the four re-armable timers is a slot,
`nil`, `run` or `fired` (its callback waits for the mutex); `stray` holds kinds
whose stopped timer had fired already, so that its callback is still to come.
The advance timer remembers the item and whether the clock's sequence number is
still the one it was armed for (`fresh`), which is what its callback compares.

A command is one action: the code holds the mutex from the first check to the
last write. Inside it, `Faults` decides whether statements may fail
(`"store"`): `Abort(r, d)` is the early return with what was done so far in
place. `"crash"` lets the process die between two statements
(`RestartMidway`), and `"delete"` lets an administrator delete media; the room
hears of it in a later step.

A move, "play next" and a batch are placed as the code places them; which permutation
votes and fair turns give is a choice among those their rules allow, and whether a
vote is the one that passes the threshold is a choice. Late callbacks of one kind
count as one. A ready media is assumed to have a duration.

### Errors that are not the truth

A statement whose context is cancelled while it commits may take effect and report an
error. `Ingest`, `Members`, `Accounts` and `Media` have this where a caller decides
something on the error: an attempt's writes (`Answered`), a committed write of a
request that skips the hook or the second statement after it (`ThenHook`,
`SetUserPassword`, `BanUser`, `DeleteMedia`, `BlockSource`). `Room`, `Manager` and
`Chat`, and the statements of `Media` under a room's mutex, assume that a statement
that reports an error had no effect. Their contexts end only after seconds (15 for a
command, 5 for a save) or with the process; a command whose context ends in the middle
of a commit is outside these models.

### Manager

One room id, several `Room` values over time. A request (`conn`) goes through
`Get` (served from the map, or waiting for the one load of
this room), `Join`, commands and `Leave`. The load reads the row and then
registers under the manager's lock. The ticker lists,
asks a room whether it is idle, removes it from the map and shuts it down, each
as its own step; `DeleteRoom`, `Unload` and `UnloadClose` are the handler that
deletes the room; `ShutdownAll` ends the process. `row.version` is which
command's effect the database has.

### Members

A request goes through `Load` (the room's row, the caller's membership and ban; or the
invite or link it names), `Target` (what it asks about the other person), one action
per write, and `Hook` (the kick, the refresh or the unload that `serve.go` wires to
it). Each is one statement, or one transaction where the code opens one (`Transfer`,
`InsertMember`, `Charge`). What `Load` read is kept in the request, as in the handler,
and used later. The creation of a room inserts the room, then the invites one by one.
A connection reads the same rows at its handshake, joins later, and reads them again
for every command (`FreshActor`; `ResolveFails` when the query fails, which ends the
command and nothing else). The handlers in `Unheeding` take any error of `GetBan` and
`GetMember` for there being no ban and no membership, so their `Target` may pass
whatever the rows say. When the answer of a committed write is lost its hook is not
run.

### Accounts

A request resolves its session (`Resolve`: session and user in one statement), writes
the sliding expiry (`Touch`) and does what it came for. `Issue`, a password change and
a ban are two or three statements, and each of them may fail; the first write of a
password change or a ban may also go through unheard (`Fails`). `Issue` and `Resolve`
ignore the error of the deletion they begin or end with, and so do `IssueForget` and
`ResolveBanned`. `slips` holds the requests and the connection that were past their
session when a ban's kick looked for connections. A session remembers the password it
was made under (`born`, for the properties only). A token is used once.

### Chat

A command is one action, under the room's lock, its statements included; what happens
outside the lock is a step of its own: `FreshActor` before a command, `ReadBacklog`
before a `Join`, the retention `PurgeMessagesBefore`, and the connection's `Write`,
`CloseFrame` and `ReadEnds`. The hub runs one command at a time on each connection and
not of each user, so `speaking` holds connections (`Tabs`), of which `UserOf` tells
the member. `Conns` are those whose delivery is followed. `Send` puts an event into
the queue of a connection or closes it as slow. `See` is the browser's reducer and
`Reads` a run of it; `Caught(c)` is the store after what was delivered and what is
still queued, so the properties compare the room with what a viewer will have seen. A
message is its number, its text the number of its edits.

### Media

One source: its row may be removed and made anew with another id, its package
likewise. `Admit` (the blocklist check) and `QueueAdd` are separate steps, as are the
two halves of a load, of an application of news (what `Connect`, `WaitForNotification`
or `Tick` read, then `Apply` room by room), and of a removal (`DeletePrefix`,
`DeleteMedia`, `MediaDeleted`, `ReloadQueue` room by room). Items move to the history
(`MarkPlayed`), and back: `QueueReplay` and the loop (`RequeuePlayed`) ask neither the
blocklist nor the admission. What is in the tables (`queue`, `played`) and what a room
remembers (`held`) are apart, because a purge and a short memory make them differ. A
notification is there at any time or never, which is what losing, delaying and
repeating it amount to. Rooms told by one notification share one copy of the row, so a
retry in one may change that of others (`QueueRetry`). A deletion or a block may take
effect and report an error to its handler, which then does nothing more. `adrift` and
`late` record that one of the races the code leaves open took place; the properties
say that nothing else goes wrong.

## 3. Properties and runs

### Runs that hold

| run | instance | shows |
|---|---|---|
| `ingest` | 1 media, 1 job, 2 leases, 2 attempts, fair | `PackagePresent` (a published package is whole), `ServesLibrary` (the refinement, without retries: ready stays ready unless unheard), `JobsSettle`, `AbandonedRemoved` |
| `ingest_retry` | 2 jobs, 2 leases, 1 room that retries | `StaleAttemptSilent` (the fence), `ServesLibrary` with retries |
| `room` | 3 items of 2 videos, no faults | `AdvanceArmed`, `CurrentQueued` (the current item is queued, and the room is never idle over a queue), `Recoverable`, `LoopFromTop`, `AdvanceAtEnd` |
| `room_presence` | 1 item, a signed-in viewer and a guest, fair | `EmptyPauseArmed`, `WaitEnds` (waits and countdowns end), `WaitsForSomeone`, `StuckNoticed`, `StartsWhenReady` |
| `room_faults` | 2 items, votes, failing statements, crashes, deletions | `ItemOnce` |
| `room_warm` | any playing room of up to 3 items, unattended, media deleted behind its back, fair | `ComesToRest` |
| `manager` | 2 requests, 2 instances, 2 versions, fair | `MappedOpen`, `Accounted`, `GetReturns`, `DroppedCloses` |
| `members` | 3 people, 1 connection, 2 requests, a link for 1 use, fair | `OwnerHolds`, `LinkWithinLimit`, `InviteAnswered`, `BannedOut`, `KickedOut` |
| `accounts` | 2 tokens, 3 requests, fair | `OldSessionsOut`, `RevokedForGood`, `BanKeepsOut`, `BanDisconnects` |
| `chat` | 1 member with 2 tabs, one of them followed, queue of 2, backlog of 1, 2 messages, 1 edit, fair | `CatchesUp`, `KickedLearns`, `MuteHolds`, `PinSaved`, `ClosedEnds` |
| `media` | 1 room, 2 rows, 2 packages, 2 actors at work at a time, in three casts, fair | `HearsOfIt`, `NoGhosts`, `ReadyHasObjects`, `BlockedStays` |

### The run that shows a disagreement

`ingest_stuck` checks `IngestSettles`, and TLC finds the behaviour of the code
that violates it: a job fails before (or without) the handler, and its media
stays in progress with no job, which no room can retry.

### Exceptions the passing properties spell out

Some properties hold of the code with an exception, which the property names.
Each exception is something the code does and a reader may not expect:

| property | exception | where |
|---|---|---|
| `StaleAttemptSilent` | `SetMediaProbed` writes title, duration, chapters and poster outside the fence | `ingest/worker.go:221` |
| `ServesLibrary` | an attempt that published and lost the answer of its commit marks the media failed while it owns the job (its package stays, and the job runs again while attempts are left) | `jobs/queue.go:195`, `ingest/worker.go:83` |
| `ServesLibrary` | a retry decided on a stale copy moves a ready media back to queued (its package stays) | `ingest/ingest.go:256` |
| `LoopFromTop` | in vote mode the requeued history is sorted while the clock still names the item that ended, which stays first; the head is taken without asking whether its ingest failed | `room/playback.go:200`, `:205` |
| `StartsWhenReady` | queuing the current link again, or reading the queue again after a deletion, takes over a ready row without starting it | `room/queue.go:181`, `:28` |
| `WaitsForSomeone` | `Kick` does not look at who the room waits for; the wait then lasts until `maxWait` | `room/presence.go:135` |
| `StuckNoticed` | a viewer who was buffering before playback started, or before the setting was turned on, is not waited for | `room/playback.go:37` |
| `AdvanceArmed` | needs the statements of `nextLocked` to succeed: after a failed one the callback arms nothing | `room/playback.go:88` |
| `CurrentQueued` | media deleted while it plays and a restart before the room hears of it, or a crash between marking an item played and saving the clock, load a room that plays nothing over its queue; a statement that fails while several items are marked played leaves a current item that is not queued | `room/room.go:231` |
| `WaitEnds` | the late callback of a cancelled countdown may end the next one early | `room/playback.go:311` |
| `MappedOpen` | a load that began before a deletion may register the deleted room afterwards; a viewer who joins between the ticker's decision and the removal stays in a closed instance, whose last save may overwrite its successor's | `room/manager.go:219`, `:309`, `:312` |
| `OwnerHolds` | says nothing of other rows: two transfers at once leave two people whose membership says owner | `repository/rooms.go:182` |
| `LinkWithinLimit` | one person who joins twice at once is charged twice | `repository/invite_links.go:85` |
| `BannedOut` | a handshake that raced the ban stays connected until its next command | `hub/hub.go:228` |
| `KickedOut` | somebody removed whose handshake raced the removal goes on watching a private room | `apihttp/rooms.go`, handleWS |
| `BannedOut`, `KickedOut` | a ban or a removal that went through while its request was cancelled runs no hook: whoever is banned stays connected until their next command, whoever was removed goes on watching | `apihttp/rooms.go`, handleBan, handleRemoveMember |
| `OldSessionsOut` | when the sessions cannot be deleted they stay, and the caller gets an error; a login that verified the old password may finish after the change | `apihttp/auth.go:256`, `auth/session.go:64` |
| `BanKeepsOut` | a WebSocket that was past its session when the kick went through the rooms comes in and stays; a ban whose request was cut off, or whose answer was lost, kicks nobody | `room/manager.go:188`, `apihttp/admin.go:203` |
| `RevokedForGood` | concerns sign-outs; a touch may revive a session that only expired | `repository/sessions.go:50` |
| `CatchesUp` | a message written between the backlog's read and the join is missed, one deleted then is shown; an edit whose row cannot be read back is not announced | `room/presence.go:23`, `room/chat.go` ChatEdit |
| `PinSaved` | a load that fails to read the pin leaves the room without it, and `ChatUnpin` then does nothing; a purged message stays pinned in memory | `room/chat.go:428`, `:398` |
| `KickedLearns` | a client whose queue is full is closed as slow, whatever the kick's reason | `hub/hub.go:109` |
| `ClosedEnds` | a connection closed as slow stays a viewer until its queue is found empty | `hub/hub.go:182` |
| `NoGhosts` | an item added after the evictor listed its media, a deletion that went through while its request was cancelled, a reload that failed, and a load that had read the queue keep an item whose row is gone; if it is not the current one, it leaves only by being played or by a reload | `mediastore/evict.go:36`, `room/manager.go:201` |
| `ReadyHasObjects` | a removal that fails between objects and row leaves a ready row without its package | `apihttp/admin.go:602` |
| `BlockedStays` | an admission past the check when the block is written makes the source again; a room that has the source, in its queue or its history, replays and loops it while its row is there | `ingest/ingest.go:144`, `room/queue.go:423`, `room/playback.go:194` |
| `MuteHolds` | one command on each connection of the muted user, past freshActor when the mute is set, is still served | `hub/hub.go:201`, `:228` |

### Bounds, and why they are enough

* `ingest`: the properties are about who holds a lease. Two attempts of one job
  give an owner and a stale attempt, and exhaust the budget; the theorems cover
  any number. Two jobs of one media only arise from a retry, which
  `ingest_retry` has. Media rows do not interact, so one is enough.
* `room`: three items give a head, a middle and a tail, and a queue that
  differs from the history in order; two videos let one be ready and one not.
  `PlayedKept = 2` makes the trimmed history (`playedKept` = 20 in the code) matter. The
  run has no faults: what a crash between two writes leaves is `room_faults`' question.
* `room_presence`: one viewer the room waits for, and one (a guest) it never
  waits for; the two settings that matter are on or off together.
* `room_faults`: two items of one video, and a history of one, so that every
  write can fail halfway and trimming happens.
* `manager`: two requests are one that loads and one that waits for that load or
  comes after; two instances are one on its way out and its successor.
  `MaxVersion` bounds the number of commands. TLC may run out of instances or
  versions, which is why deadlock is not checked there.
* `members`: owner, moderator and one more person are the roles a request can
  come from and be about; two requests are the one that checked and the one that
  wrote in between. The initial states are a room with a link and a stranger, a
  room with a member or an invite, and no room yet.
* `accounts`: a session that exists and one that is issued; three requests are a
  login, a password change or ban, and one more. A fourth request is out of TLC's reach; the
  safety properties are theorems for any number.
* `chat`: a queue of two is full after one unwritten message and one event, a backlog
  of one is shorter than the history of two, and two tabs of one member are two
  commands past the same mute.
* `media`: a row, its successor under a new id, and two packages, so that one may be
  replaced; one room is enough because rooms meet only in the row, and in a copy they
  may share, on which no property depends. `MaxBusy` bounds how many of the handlers
  and goroutines are in the middle of something, two being a race. `Casts` lists which
  of listener, ticker, evictor and administrator take part in one behaviour: the two
  relays, a relay and a remover, the two removers. The theorems have all of them.
* Deadlock is not checked in `ingest*` either: all jobs done and nothing left to
  clean is a normal end; nor in `room_warm`, which ends at rest, nor in
  `members` and `accounts`, where the requests run out.

### Fairness

* `Ingest`: workers poll for jobs, a running attempt takes its next step, the
  lease of a dead attempt runs out, `RecoverStale` runs on a ticker, a cleaning
  pass ends (weak fairness). A pass that lists everything, checks it and deletes
  is strongly fair step by step: the janitor starts one on every tick, and any
  of them may be cut short by an error, though not all at the same place.
* `Room`: the runtime fires timers and Go's mutex is starvation free, so each
  callback gets in. `FairSpec` assumes this of the two timers that end a wait
  and a countdown, `WarmSpec` of all, and that time passes. No command is
  assumed to happen.
* `Manager`: a load, once begun, ends (with a room or an error), and the ticker and
  the deletion finish what they began. Nobody has to join, leave or delete.
* `Members`, `Accounts`: a request that came in runs to its end, as does a
  command, and a connection that was closed is dropped. No request has to come. In `Members`
  the database answers whoever gives commands again and again, if not every time (strong
  fairness of `FreshActor`).
* `Chat`: the writer, the reader and the clean-up of a connection take their
  next step; nobody has to write, join or close.
* `Media`: the reconciliation ticker begins again and again (strong fairness,
  because a query may fail) and applies what it read. Nothing is assumed of
  the listener, of the ingest or of the removers.

## 4. Proofs

Everything in the `Proofs` modules holds for every value of the constants: any
number of media, jobs, attempts, items, viewers, rooms, requests, instances,
people and connections, any settings, limits and kinds of fault. The assumptions
are the named `ASSUME`s of the models (`IngestAssumption`, `RoomAssumption`,
`FaultsAssumption`, `ManagerAssumption`, `MembersAssumption`, `AccountsAssumption`,
`ChatAssumption`, `MediaAssumption`):
the bounds are numbers (the attempt budget, the link's limit and the length of the
history not 0), the sets are what their comments say, and the "none" values are not
members of the sets they stand beside. TLC evaluates them on every run.

| theorem | statement | argument |
|---|---|---|
| `TypeCorrect` | `Spec => []TypeOK` | `BudgetInv` (`TypeOK` and `AttemptLeft`) is inductive |
| `Budget` | `Spec => []AttemptLeft` | the same: `Claim` may only add an attempt to a row below the budget, and it is `AttemptLeft` that says so of every waiting row |
| `PackageSafe` | `Spec => []PackagePresent` | `PackageInv` is inductive |
| `FenceHolds` | `Spec => StaleAttemptSilent` | every action leaves the rows or the attempts alone, is fenced, or is the probe's, which writes other fields |
| `Implements` | `Spec => ServesLibrary` | with `PackageInv`, `KnownInv` and `OnceInv` every step of the pipeline maps to a step of the library or to none |
| `HandsOutOpen` | `Spec => []MappedOpen` | `ManagerInv` is inductive |
| `NoneEscapes` | `Spec => []Accounted` | the same |
| `MembersInvariant` | `Spec => []MembersInv` | types, `ReqInv` (a request in flight knows its caller and its target), `OwnerHolds` and `LinkWithinLimit` together are inductive |
| `OwnerStays` | `Spec => []OwnerHolds` | from `MembersInvariant`: no write but a transfer touches the row of the owner, because each statement says so itself and not the check before it |
| `LinkLimited` | `Spec => []LinkWithinLimit` | from `MembersInvariant`: the limit is a condition of the charging statement |
| `AnswersStand` | `Spec => InviteAnswered` | an answer is written only over a pending invite |
| `PasswordSignsOut` | `Spec => []OldSessionsOut` | `AccountsInv` is inductive |
| `SignedOutForGood` | `Spec => RevokedForGood` | a step leaves the sessions alone, deletes some, renews or expires one that is there, or makes an unused one |
| `BannedStayOut` | `Spec => []BanKeepsOut` | `KeptOut` is inductive: once no ban is pending, whoever is on the way in was so when the kick was done, because a later request resolves session and ban in one statement |
| `MediaInvariant` | `Spec => []MediaInv` | nine parts, inductive together |
| `NoGhostItems` | `Spec => []NoGhosts` | the part of it that needs `Listed`, `Numbered` and `Rooted` |
| `ReadyMediaPlays` | `Spec => []ReadyHasObjects` | the part of it that needs `Published` |
| `BlockHolds` | `Spec => BlockedStays` | `Barred` for who adds it, and action by action that every other way into a queue starts from the same room's item or history |
| `MutedFallSilent` | `Spec => []MuteHolds` | `MuteInv` is inductive: a connection that has slipped is past no freshActor any more |
| `PinsExist` | `Spec => []LogInv` | inductive |
| `PinStaysSaved` | `Spec => PinSaved` | from `PinsExist`, action by action |
| `KickedAreTold` | `Spec => []KickedLearns` | `ConnInv` is inductive |
| `ViewersCatchUp` | `Spec => []CatchesUp` | `FedInv` is inductive beside `LogInv` and `ConnInv`; one lemma per kind of event |
| `RoomInvariant` | `Spec => []Inv` | one lemma per action, over lemmas about each locked helper |
| `RoomTypes`, `ItemsInOnePlace` | `Spec => []TypeOK`, `Spec => []ItemOnce` | `Apart` in `RoomInvariant` |
| `EmptyRoomsPause` | `Spec => []EmptyPauseArmed` | `EmptyArmed` in `RoomInvariant`; for instances with viewers |
| `AdvancesAtEnd` | `Spec => AdvanceAtEnd` | `AtEnd` in `RoomInvariant`: a fired timer of the present clock has seen the end |
| `WaitHasReason` | `Spec => WaitsForSomeone` | every action but `Kick` is followed by a look at who is stuck, or ends the wait |
| `AdvanceStaysArmed` | `Spec /\ [][Attends]_vars => []AdvanceArmed`, where `"store" \notin Faults` | `Fits` is inductive beside `Inv` |
| `StuckAreNoticed` | `Spec /\ [][Attends]_vars => StuckNoticed`, where `"store" \notin Faults` | `Watches` action by action, and `Fits` |
| `ReadyStarts` | `Spec => StartsWhenReady`, where `"store" \notin Faults` | `Starts` action by action |
| `CurrentStaysQueued` | `Spec => []CurrentQueued`, where `Faults = {}` | `Sync` is inductive beside `Inv` |
| `RestartsRecover` | `Spec => []Recoverable`, where `Faults = {}` | the same, and what `Loaded` reads (`LoadedFacts`) |
| `LoopsFromTop` | `Spec => LoopFromTop`, where `Faults = {}` | `Sync`, and what `nextLocked` leaves behind (`Continued`, `Looped`) |

`PackagePresent` alone is not inductive: the cleaner deletes on a decision it
took earlier. `PackageInv` says why that decision stays right. A prefix that is
neither published nor under a live lease can never be published (`LeaseInv`:
lease tokens are used once; `FreshInv`: an unused token has uploaded nothing;
`UploadInv`: an attempt about to publish has a whole upload; `CleanerInv`: what
the cleaner will delete is neither leased nor published). The proof separates
the *routine* actions, which do not touch objects, grant leases or publish
(`RoutineStep`), from the five that do.

The refinement maps what is served to the package a row names, as long as it is whole,
and a status to what a viewer is told of it. `PackageInv` says that nothing served
disappears. Two more invariants are inductive. `KnownInv`: a job, a room's copy and a
retry under way have a row behind them, so a status never goes back to none.
`OnceInv`: where no room retries, a media has one job and the attempt that owns it
sees the status it left, so nobody else has published; and what the owner marks failed
while it is ready, it published itself and did not hear of. The proof sorts the
actions into the quiet ones (`QuietActions`), those that write a row under the lease
(`OwnerWrites`), and those that begin something, and maps each kind once.

`MappedOpen` needs to know what the ticker's and the deletion's remembered
instance can be. `TickerInv` says that what the ticker is about to drop is what
is mapped unless the room was deleted meanwhile, in which case no load can
register again; `UnloadInv` says the same of the deletion.

`OldSessionsOut` speaks of live sessions and is not inductive: a request that resolved
its session before it expired may still renew it. `AccountsInv` has the expired rows
too, which the deletion takes along, and a request that owes the deletion goes on
owing it until everything is deleted or its caller is told of an error. The proofs use
the types of the rows, `RowTypes`: `Accounts!TypeOK`, which also bounds the number of
passwords, is not needed by any property.

`BanKeepsOut` speaks of connections, and `KeptOut` of what may still become one: a
request that is past its session and not yet joined (`OnTheWay`). The kick finds what
is connected and notes the rest in `slips`; a request that resolves its session later
finds the ban, with any session that is left.

`NoGhosts` depends on what the removers know. `MediaInv` adds that every number in use
was handed out (`Numbered`, so a row that is gone never comes back under its number),
that the items of a row go with it (`Rooted`), that a room whose queue has a media the
evictor listed took it in after the listing (`Listed`), that a room being loaded is in
nobody's hands (`Unread`), that a ready media has a package (`Published`), and that
whoever is past the blocklist while the source is blocked was so before (`Barred`).

`KickedLearns` follows a frame through a bounded queue that overflows, is flushed
and is closed from both ends. `ConnInv` says that a kicked connection whose client
is there was told or has the frame in its queue with the writer still running, and
that the writer ends only after a close. What a send does to many connections is a
recursive function (`SendAll`).

`CatchesUp` compares two sequences, what a store will hold after the events in its
queue and what the table has, outside of what the viewer is excused. It is not
inductive: it says nothing of a newcomer between its backlog and its join, nor of a
line that is excused today (its edit failed half-way) and is edited again tomorrow.
`FedInv` has both. It says, for a viewer of the store its queue leads to, and for a
newcomer of its backlog, that it `Follows` the table: its lines are in the order of
their numbers; each of them names a message, which is shown and has its latest text
unless it is excused; and every message shown, from the first line on, has one. An
order without repetition is determined by its members (`OrderedSame`, which does the
work of an induction), so who follows the table shows it (`FedCatchesUp`). `Serves(r,
s, es, ids)` says what an announcement has to do: whoever shows the table `r` and
reads `es` shows `s`, and a newcomer excused `ids` follows `s` without reading
anything. There is a lemma for each kind of event (`ServesPin`, `ServesNew`,
`ServesEdit`, `ServesDelete`, `ServesClear`) and for the changes that nobody is told
of (`ServesUntold`, `ServesPurge`), `ServesBoth` chains them, and a command is the
chain of its calls. The order of the calls matters there: a clearing announces its own
line last, and the chain breaks if it does not. What a queue may refuse is covered by
`SendAllOpen`: an open connection has all of the announcement, in order, or it is
closed and is owed nothing.

The room has some forty actions but few helpers, all called under one mutex, so the
proof follows the helpers. Each has a lemma that says what the record it returns has
in common with the one it got (`SetTo`: the clock was set anew; `Calm`: a wait or a
countdown ended; `Chosen`: another item became current; `Looked`: it was checked who
is stuck; `Quiet`: only queue, history and media differ) and why it keeps `Sound`. An
action lemma (`...Good`) then follows its calls. `Sound` is more than the properties:
`Apart` (the queue and the history have no item twice and none in common, for the room
and for the tables separately, because a failed statement or a crash lets them
differ), `Held` (a timer at the end of an item names one, so `NextLocked` is never
entered without an item), `AtEnd` and `EmptyArmed`. `Viewers # {}` in
`EmptyRoomsPause` leaves out the instances without presence, in which commands come
from nobody.

`AdvanceArmed` is not inductive, because a room that waits or counts down will start
without looking whether its item can be played (`endWaitLocked`), and a room that is
loaded trusts the saved clock. `Fits` says why that is right. `Fit(room)`: what plays
can be played and has its timer; a room never waits and counts down at once; what it
will start after either can be played; it does neither while it plays. `Kin(room,
db)`: what the room believes of a media that is done is so in its row, or the row is
gone. `Rooted(db)`: every item's media has a row, a ready one for the item that was
saved as playing. Two conditions are needed. Statements that fail stop `nextLocked`
half-way, with its timer spent (section 3). And `Attends`: the commands that go on to
the next item come while somebody is here. A next command of a viewer who was kicked
while the room waited for them, in a loop that starts anew with nobody here, stops at
the top with the wait still open, and the end of the wait then starts an item nobody
looked at. In instances without viewers `Attends` always holds.

`CurrentQueued`, `Recoverable` and `LoopFromTop` rest on one relation between the
room and its rows. `Sync` says that the room is `Anchored` (what is current is
queued, and without a current item nothing is queued and nothing plays), that it
`Agree`s with its rows (the same queue in the same order, the same clock, no save
owed) and that no deletion is unannounced. None of the three properties is
inductive without it: an advance picks what follows from the room's queue and writes the
rows of the table, so the room can only stay anchored after a restart if both were the same
before. Every action lemma therefore proves `Keeps` (`Sync` is handed on) beside
`Sound`. A handler that only moves the clock is `Steady`: it leaves the queue and
the current item alone and saves what it changed. Those that change the queue
apply the same operator to both sides, or write ranks that determine the order
(`AppliedOrder`). `Faults = {}` is what the run `room` assumes too, and it is
needed: each of the three kinds of fault breaks `CurrentQueued` (section 3), a
failed save is owed until the next tick, and a command cut off in the middle
leaves its first statements behind.

The queue's operators are recursive (`Only`, `Without`) or defined by a choice
(`IndexOf`, `SetToSeqs`). What `Only` keeps is proved by induction on the first place
where it could go wrong (the least element of a set of numbers, which the library
gives as a theorem without an operator parameter), in `SlicesProofs`.

Only model-checked: every liveness property, because temporal reasoning under fairness
is outside the prover's reach (`JobsSettle`, `AbandonedRemoved`, `GetReturns`,
`DroppedCloses`, `WaitEnds`, `ComesToRest`, `ClosedEnds`, `HearsOfIt`, `BannedOut`,
`KickedOut`, `BanDisconnects`). Every other property of a passing run is a theorem.

## 5. What is not modelled

* Text and bytes: source extraction, packaging, subtitles, storyboards, tokens,
  the wire protocol; the outcome of each external program is a choice.
* Snapshots (a projection of the room's state), metrics, configuration, wiring.
* In the room: the counting of votes, the comparison functions behind vote order
  and fair turns, rejoin grace, the Refresh of metadata and of the roles
  shown (which no rule is decided by), and a settings change sent by a
  connection that is being kicked at the same moment.
* In the chat: quotes, mentions, and the rate limits of a user (a refusal is
  there, why is not).
* Rate limits (a token bucket that only refuses), reminders (one
  `UPDATE ... RETURNING`) and the delivery of web pushes.
* HTTP handlers that only read: lists, the directory, statistics, probes; stars,
  reports and the audit log, which nothing else reads.
* The browser's player and clock estimate, which are numeric.

## 6. Plan

Done, in this order: `Ingest` with its proofs, `RoomCore` and `Room`, `Manager`
with its proofs, `Members` and `Accounts` with their proofs, `Chat`, `Media`, the
refinement of `Library` by `Ingest` with its proof, and the proofs of `Media`, `Chat`
and `Room`. Next:

1. `RoomRefresh`: the refresh of a room's metadata against a settings change and
   another refresh, and the role shown of a viewer against the one it has.
2. `Votes`: skip and item votes, their threshold as viewers come and go; vote
   order and fair turns as functions checked against a declarative reference.
3. `ClientSync`: the browser's clock offset and player correction.
4. Theorems about the modules above, and what of the room's agreement with its
   rows survives each kind of fault on its own.
