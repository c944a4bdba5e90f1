------------------------------- MODULE Members -------------------------------
(***************************************************************************)
(* Who may do what in a room: membership, ownership, bans, invites and the *)
(* invite link of one room, and the connections of its viewers.            *)
(*                                                                         *)
(* An HTTP request (internal/apihttp) is a sequence of statements of the   *)
(* database with nothing that holds them together: it reads the room, the  *)
(* caller's membership and the caller's ban, reads what it needs of the    *)
(* person it is about, writes, and calls the hook that tells the live      *)
(* room.  A step is one of these; the requests in flight interleave.       *)
(* A WebSocket handshake makes the same reads before it joins, and so does *)
(* every command of a connection (internal/hub: freshActor).               *)
(* The copies a loaded room keeps to show - of its row, which              *)
(* OnRoomChanged has it read again, and of its viewers' roles, which       *)
(* UpdateRole corrects - decide nothing here and are left out.             *)
(***************************************************************************)
EXTENDS Naturals, FiniteSets

CONSTANTS
    Users,       \* people with an account
    Admins,      \* those with the site's admin role
    Conns,       \* WebSocket connections
    Viewer,      \* whose connection it is
    MaxUses,     \* max_uses of the invite link
    MaxRequests, \* bound on the requests made
    Nobody

ASSUME MembersAssumption ==
    /\ Admins \subseteq Users
    /\ Viewer \in [Conns -> Users]
    /\ MaxUses \in Nat \ {0}
    /\ MaxRequests \in Nat
    /\ Nobody \notin Users

VARIABLES
    exists,  \* the row of rooms is there
    owner,   \* rooms.owner_id; Nobody before the room is created
    public,  \* rooms.visibility
    role,    \* room_members
    bans,    \* room_bans
    invite,  \* invites.status of each invitee
    link,    \* room_invite_links
    req,     \* the requests, numbered as they come in
    conn     \* the connections

db == <<exists, owner, public, role, bans, invite, link>>
vars == <<db, req, conn>>

-----------------------------------------------------------------------------
Role == {"none", "member", "moderator", "owner"}
IsModerator(r) == r \in {"moderator", "owner"}

Ops == {"update", "delete", "promote", "demote", "remove", "leave", "transfer", "ban", "unban",
        "invite", "accept", "decline", "mint", "revoke", "join"}

\* The operations whose handler does not call loadRoom.
ByInvitation == {"accept", "decline", "join"}

\* The operations that are about nobody but the caller.
Alone == {"update", "delete", "leave", "mint", "revoke"}

Reqs == 1..MaxRequests

\* to come; the target is next; the write; the hook; the invites of a room
\* just created; answered
ReqPhase == {"new", "target", "write", "hook", "invites", "done"}

\* role and public are what loadRoom read, for the steps that use them.
Request == [phase: ReqPhase, op: Ops \cup {"create", "none"}, by: Users \cup {Nobody}, on: Users \cup {Nobody},
            role: Role, public: BOOLEAN]

\* cleared: handleWS let the person in; open: joined; sent: a command was
\* read; acting: its actor was resolved
ConnPhase == {"out", "cleared", "open", "sent", "acting"}

TypeOK ==
    /\ exists \in BOOLEAN
    /\ owner \in Users \cup {Nobody}
    /\ public \in BOOLEAN
    /\ role \in [Users -> Role]
    /\ bans \in SUBSET Users
    /\ invite \in [Users -> {"none", "pending", "accepted", "declined"}]
    /\ link \in [state: {"none", "live", "revoked", "expired"}, uses: Nat]
    /\ req \in [Reqs -> Request]
    /\ conn \in [Conns -> [phase: ConnPhase, closed: {"no", "asked", "shut"}]]

Blank(phase) == [phase |-> phase, op |-> "none", by |-> Nobody, on |-> Nobody,
                 role |-> "none", public |-> FALSE]
Out == [phase |-> "out", closed |-> "no"]

NoLink == [state |-> "none", uses |-> 0]

\* The room is still to be created; or it was, some time ago, and others have
\* joined and have roles, or are invited.
Init ==
    /\ owner \in Users \cup {Nobody}
    /\ exists = (owner # Nobody)
    /\ public \in BOOLEAN
    /\ role \in [Users -> Role]
    /\ \A u \in Users : (role[u] = "owner" <=> u = owner) /\ (~exists => role[u] = "none")
    /\ bans = {}
    /\ invite = [u \in Users |-> IF exists /\ role[u] = "none" THEN "pending" ELSE "none"]
    /\ link \in {[state |-> "live", uses |-> 0], NoLink}
    /\ ~exists => link = NoLink
    /\ req = [q \in Reqs |-> Blank("new")]
    /\ conn = [c \in Conns |-> Out]

-----------------------------------------------------------------------------
(***************************************************************************)
(* Access rules                                                            *)
(***************************************************************************)

\* GetBan finds a row.
Banned(u) == u \in bans

\* Can, with the action each operation asks for; leaving asks for none, so
\* that banned people may leave too.
Can(u, r, op) ==
    CASE op = "leave" -> TRUE
      [] Banned(u) -> FALSE
      [] op \in {"promote", "demote", "update", "transfer"} -> r = "owner"
      [] op = "delete" -> r = "owner" \/ u \in Admins
      [] op \in {"remove", "ban", "unban", "invite", "mint", "revoke"} ->
           IsModerator(r)
      [] OTHER -> TRUE

\* Moderators act on plain members, only the owner on moderators, nobody on
\* the owner.
CanTarget(r, target) == target # "owner" /\ (target = "moderator" => r = "owner")

CanView(u) == ~Banned(u) /\ (public \/ role[u] # "none" \/ u \in Admins)

Usable == link.state = "live" /\ link.uses < MaxUses

-----------------------------------------------------------------------------
(***************************************************************************)
(* A request up to its write                                               *)
(***************************************************************************)
Answer(q) == req' = [req EXCEPT ![q] = Blank("done")]
Proceed(q, phase) == req' = [req EXCEPT ![q].phase = phase]

ComesIn(q) == req[q].phase = "new" /\ (q > 1 => req[q - 1].phase # "new")

\* loadRoom reads the room and the caller's membership and ban.  One whom the rules
\* do not let is refused, which changes nothing: the others are followed.
\* An update writes the visibility it asks for, or the one that was read.
Load(q, op, u, t) ==
    /\ ComesIn(q) /\ exists
    /\ op \notin ByInvitation /\ Can(u, role[u], op)
    /\ CASE op \in Alone -> t = u
         [] op \in {"remove", "ban", "transfer"} -> t # u
         [] op = "promote" -> t # owner
         [] OTHER -> TRUE
    /\ \E v \in IF op = "update" THEN BOOLEAN ELSE {public} :
         req' = [req EXCEPT ![q] = [phase |-> "target", op |-> op, by |-> u, on |-> t,
                                    role |-> role[u], public |-> v]]
    /\ UNCHANGED <<db, conn>>

\* The administrators' way to delete a room asks for the site's role only.
AdminDelete(q, u) ==
    /\ ComesIn(q) /\ exists /\ u \in Admins
    /\ req' = [req EXCEPT ![q] = [Blank("write") EXCEPT !.op = "delete", !.by = u, !.on = u]]
    /\ UNCHANGED <<db, conn>>

\* The caller's own invite, whatever its status, and the link of the token,
\* whose use handleJoin decides on the row read here (Usable):
\* neither asks for the room.
LoadOwnInvite(u) == exists /\ invite[u] # "none"
LoadLink == exists /\ Usable

LoadInvitation(q, op, u) ==
    /\ ComesIn(q)
    /\ IF op = "join" THEN LoadLink ELSE LoadOwnInvite(u)
    /\ req' = [req EXCEPT ![q] = [Blank("target") EXCEPT !.op = op, !.by = u, !.on = u]]
    /\ UNCHANGED <<db, conn>>

\* What the handler asks of the person the request is about.
TargetOK(r) ==
    CASE r.op = "promote" -> ~Banned(r.on)
      [] r.op = "demote" -> role[r.on] = "moderator"
      [] r.op = "remove" -> role[r.on] # "none" /\ CanTarget(r.role, role[r.on])
      [] r.op = "leave" -> role[r.on] \notin {"none", "owner"}
      [] r.op = "ban" -> CanTarget(r.role, role[r.on])
      [] r.op = "invite" -> ~Banned(r.on) /\ role[r.on] = "none"
      [] r.op = "join" -> ~Banned(r.on) /\ role[r.on] = "none"
      [] r.op = "accept" -> ~Banned(r.on)
      [] OTHER -> TRUE

\* The handlers that take every error of GetBan and GetMember for there being
\* no ban and no membership.
Unheeding == {"promote", "invite", "accept", "join"}

Target(q) ==
    /\ req[q].phase = "target"
    /\ \/ /\ TargetOK(req[q]) \/ req[q].op \in Unheeding
          /\ req' = [req EXCEPT ![q] = [@ EXCEPT !.phase = "write", !.role = "none"]]
       \/ Answer(q)
    /\ UNCHANGED <<db, conn>>

-----------------------------------------------------------------------------
(***************************************************************************)
(* The writes: one statement or one transaction each.  Without the room's  *)
(* row they find nothing or break a foreign key, and the request fails.    *)
(* One that takes effect may lose its answer with the request: no hook     *)
(* follows.                                                                *)
(***************************************************************************)
Writes(q, op) == req[q].phase = "write" /\ req[q].op = op /\ exists
Done(q) == Answer(q) /\ UNCHANGED conn
ThenHook(q) == (Proceed(q, "hook") \/ Answer(q)) /\ UNCHANGED conn

WriteFails(q) ==
    /\ req[q].phase = "write"
    /\ Done(q)
    /\ UNCHANGED db

\* UpsertMember never touches the owner's row, but makes one that is gone.
UpsertMember(u, r) == role' = IF role[u] = "owner" THEN role ELSE [role EXCEPT ![u] = r]

AddModerator(q) ==
    /\ Writes(q, "promote")
    /\ UpsertMember(req[q].on, "moderator")
    /\ Done(q)
    /\ UNCHANGED <<exists, owner, public, bans, invite, link>>

RemoveModerator(q) ==
    /\ Writes(q, "demote")
    /\ UpsertMember(req[q].on, "member")
    /\ Done(q)
    /\ UNCHANGED <<exists, owner, public, bans, invite, link>>

\* Mutated: the statement has no "role <> 'owner'".
Removable_Any(u) == role[u] # "none"

\* The rows the DELETE may find: the owner cannot be removed.
Removable(u) == role[u] \notin {"none", "owner"}

\* One removed from a public room stays to watch.
DeleteMember(q) ==
    /\ Writes(q, "remove") \/ Writes(q, "leave")
    /\ LET u == req[q].on
       IN IF Removable(u)
            THEN /\ role' = [role EXCEPT ![u] = "none"]
                 /\ IF req[q].op = "remove" /\ req[q].public THEN Done(q) ELSE ThenHook(q)
            ELSE Done(q) /\ UNCHANGED role
    /\ UNCHANGED <<exists, owner, public, bans, invite, link>>

\* One transaction promotes the one, demotes the other and sets owner_id, or
\* finds that the new owner is no member; nothing asks whether the caller is
\* still the owner.
Transfer(from, to) ==
    IF role[to] # "none"
      THEN /\ role' = [role EXCEPT ![from] = IF role[from] = "none" THEN "none" ELSE "moderator",
                                   ![to] = "owner"]
           /\ owner' = to
      ELSE UNCHANGED <<role, owner>>

TransferOwnership(q) ==
    /\ Writes(q, "transfer")
    /\ Transfer(req[q].by, req[q].on)
    /\ Done(q)
    /\ UNCHANGED <<exists, public, bans, invite, link>>

\* Of the columns an owner may edit, visibility is the one that is followed;
\* names, slugs and their history decide nothing here.
SetRoom(v) == public' = v

UpdateRoom(q) ==
    /\ Writes(q, "update")
    /\ SetRoom(req[q].public)
    /\ Done(q)
    /\ UNCHANGED <<exists, owner, role, bans, invite, link>>

\* Memberships, bans, invites and links cascade.
DropRoom ==
    /\ exists' = FALSE
    /\ role' = [u \in Users |-> "none"]
    /\ bans' = {}
    /\ invite' = [u \in Users |-> "none"]
    /\ link' = NoLink

DeleteRoom(q) ==
    /\ Writes(q, "delete")
    /\ DropRoom
    /\ ThenHook(q)
    /\ UNCHANGED <<owner, public>>

\* A ban leaves the membership as it is, a second one the first.
Ban(u) == bans' = bans \cup {u}

CreateBan(q) ==
    /\ Writes(q, "ban")
    /\ Ban(req[q].on)
    /\ ThenHook(q)
    /\ UNCHANGED <<exists, owner, public, role, invite, link>>

\* Without a ban there is an error, and nothing changes.
Unban(u) == bans' = bans \ {u}

DeleteBan(q) ==
    /\ Writes(q, "unban")
    /\ Unban(req[q].on)
    /\ Done(q)
    /\ UNCHANGED <<exists, owner, public, role, invite, link>>

\* A pending invite is left alone, any other is pending again.
Invite(u) == invite' = [invite EXCEPT ![u] = "pending"]

CreateInvite(q) ==
    /\ Writes(q, "invite")
    /\ Invite(req[q].on)
    /\ Done(q)
    /\ UNCHANGED <<exists, owner, public, role, bans, link>>

\* Whoever has no membership gets one; an existing one is left as it is.
InsertMember(u) == role' = IF role[u] = "none" THEN [role EXCEPT ![u] = "member"] ELSE role

AcceptInvite(q) ==
    LET u == req[q].by
    IN /\ Writes(q, "accept")
       /\ IF invite[u] = "pending"
            THEN invite' = [invite EXCEPT ![u] = "accepted"] /\ InsertMember(u)
            ELSE UNCHANGED <<invite, role>>
       /\ Done(q)
       /\ UNCHANGED <<exists, owner, public, bans, link>>

\* Mutated: the statement has no "status = 'pending'".
Decline_Any(u) == invite' = [invite EXCEPT ![u] = "declined"]

\* The UPDATE finds a pending invite only.
Decline(u) == invite' = IF invite[u] = "pending" THEN [invite EXCEPT ![u] = "declined"] ELSE invite

DeclineInvite(q) ==
    /\ Writes(q, "decline")
    /\ Decline(req[q].by)
    /\ Done(q)
    /\ UNCHANGED <<exists, owner, public, role, bans, link>>

\* One link is followed: another one made later is not.
StoreLink == link' = IF link.state = "none" THEN [state |-> "live", uses |-> 0] ELSE link

CreateInviteLink(q) ==
    /\ Writes(q, "mint")
    /\ StoreLink
    /\ Done(q)
    /\ UNCHANGED <<exists, owner, public, role, bans, invite>>

\* The UPDATE finds a link once, also one past its time.
MarkRevoked ==
    link' = IF link.state \in {"live", "expired"} THEN [link EXCEPT !.state = "revoked"] ELSE link

RevokeInviteLink(q) ==
    /\ Writes(q, "revoke")
    /\ MarkRevoked
    /\ Done(q)
    /\ UNCHANGED <<exists, owner, public, role, bans, invite>>

\* Mutated: the limit is the handler's check only, not the statement's.
Charge_Checked(u) ==
    IF link.state = "live"
      THEN link' = [link EXCEPT !.uses = link.uses + 1] /\ InsertMember(u)
      ELSE UNCHANGED <<link, role>>

\* One transaction charges the link, if it is still usable, and admits.
Charge(u) ==
    IF Usable
      THEN link' = [link EXCEPT !.uses = link.uses + 1] /\ InsertMember(u)
      ELSE UNCHANGED <<link, role>>

UseInviteLink(q) ==
    /\ Writes(q, "join")
    /\ Charge(req[q].by)
    /\ Done(q)
    /\ UNCHANGED <<exists, owner, public, bans, invite>>

-----------------------------------------------------------------------------
(***************************************************************************)
(* A new room                                                              *)
(***************************************************************************)

\* One transaction writes the room and its owner's membership.
CreateRoom(q, u, v) ==
    /\ ComesIn(q) /\ owner = Nobody
    /\ exists' = TRUE /\ owner' = u /\ public' = v
    /\ role' = [role EXCEPT ![u] = "owner"]
    /\ req' = [req EXCEPT ![q] = [Blank("invites") EXCEPT !.op = "create", !.by = u, !.on = u]]
    /\ UNCHANGED <<bans, invite, link, conn>>

\* The room exists from here on, and the request goes through its list of
\* people to invite, whatever has become of them meanwhile.
CreateInvites(q, u) ==
    /\ req[q].phase = "invites" /\ u # req[q].by /\ exists
    /\ Invite(u)
    /\ UNCHANGED <<exists, owner, public, role, bans, link, req, conn>>

\* The end of the list, or an error: the room stays.
CreateRoomDone(q) ==
    /\ req[q].phase = "invites"
    /\ Done(q)
    /\ UNCHANGED db

-----------------------------------------------------------------------------
(***************************************************************************)
(* Connections                                                             *)
(***************************************************************************)
Joined(c) == conn[c].phase \in {"open", "sent", "acting"}

\* Close only signals the writer, once: the reader goes on until the writer
\* has closed the socket.
Close(k) == [k EXCEPT !.closed = IF k.closed = "no" THEN "asked" ELSE k.closed]

\* Mutated: a connection in the middle of a command is missed.
Closing_Idle(C) ==
    [c \in Conns |-> IF c \in C /\ conn[c].phase = "open" THEN Close(conn[c]) ELSE conn[c]]

\* Kick and CloseAll close the connections the room knows.
Closing(C) == [c \in Conns |-> IF c \in C /\ Joined(c) THEN Close(conn[c]) ELSE conn[c]]

\* OnBan, OnRemove and OnLeave put the person out, OnRoomDeleted everybody.
Hook(q) ==
    /\ req[q].phase = "hook"
    /\ conn' = Closing({c \in Conns : req[q].op = "delete" \/ Viewer[c] = req[q].on})
    /\ Answer(q)
    /\ UNCHANGED db

\* handleWS: loadRoom reads the room, the membership and the ban.
Connect(c) ==
    /\ conn[c].phase = "out" /\ exists /\ CanView(Viewer[c])
    /\ conn' = [conn EXCEPT ![c] = [phase |-> "cleared", closed |-> "no"]]
    /\ UNCHANGED <<db, req>>

\* The room is loaded, the socket upgraded, the viewer joins; nothing is
\* read again.
Join(c) ==
    /\ conn[c].phase = "cleared"
    /\ \/ conn' = [conn EXCEPT ![c].phase = "open"]
       \/ ~exists /\ conn' = [conn EXCEPT ![c] = Out]
    /\ UNCHANGED <<db, req>>

\* The reader takes a command off the socket.
Read(c) ==
    /\ conn[c].phase = "open" /\ conn[c].closed # "shut"
    /\ conn' = [conn EXCEPT ![c].phase = "sent"]
    /\ UNCHANGED <<db, req>>

\* Mutated: the ban is not looked at again.
FreshActor_Cached(c) ==
    /\ conn[c].phase = "sent"
    /\ conn' = [conn EXCEPT ![c].phase = "acting"]
    /\ UNCHANGED <<db, req>>

\* freshActor: the ban closes the connection, else the command may go on.
FreshActor(c) ==
    /\ conn[c].phase = "sent"
    /\ conn' = [conn EXCEPT ![c] = IF Banned(Viewer[c])
                                     THEN Close([conn[c] EXCEPT !.phase = "open"])
                                     ELSE [conn[c] EXCEPT !.phase = "acting"]]
    /\ UNCHANGED <<db, req>>

\* The query fails: an error is sent, and the command is over.
ResolveFails(c) ==
    /\ conn[c].phase = "sent"
    /\ conn' = [conn EXCEPT ![c].phase = "open"]
    /\ UNCHANGED <<db, req>>

\* The command ends (module Room has what it does).
Act(c) ==
    /\ conn[c].phase = "acting"
    /\ conn' = [conn EXCEPT ![c].phase = "open"]
    /\ UNCHANGED <<db, req>>

\* The client goes, or the handshake fails.
Disconnect(c) ==
    /\ conn[c].phase \in {"cleared", "open"}
    /\ conn' = [conn EXCEPT ![c] = Out]
    /\ UNCHANGED <<db, req>>

\* The writer sees the signal and closes the socket.
Shut(c) ==
    /\ conn[c].closed = "asked"
    /\ conn' = [conn EXCEPT ![c].closed = "shut"]
    /\ UNCHANGED <<db, req>>

\* The reader of a closed socket ends.
Drop(c) ==
    /\ conn[c].phase = "open" /\ conn[c].closed = "shut"
    /\ conn' = [conn EXCEPT ![c] = Out]
    /\ UNCHANGED <<db, req>>

-----------------------------------------------------------------------------
(***************************************************************************)
(* Time                                                                    *)
(***************************************************************************)
LinkExpires ==
    /\ link.state = "live"
    /\ link' = [link EXCEPT !.state = "expired"]
    /\ UNCHANGED <<exists, owner, public, role, bans, invite, req, conn>>

-----------------------------------------------------------------------------
Write(q) ==
    \/ WriteFails(q)
    \/ AddModerator(q) \/ RemoveModerator(q) \/ DeleteMember(q) \/ TransferOwnership(q)
    \/ UpdateRoom(q) \/ DeleteRoom(q) \/ CreateBan(q) \/ DeleteBan(q)
    \/ CreateInvite(q) \/ AcceptInvite(q) \/ DeclineInvite(q)
    \/ CreateInviteLink(q) \/ RevokeInviteLink(q) \/ UseInviteLink(q)

Next ==
    \/ \E q \in Reqs, u \in Users : \E op \in Ops \ ByInvitation, t \in Users : Load(q, op, u, t)
    \/ \E q \in Reqs, u \in Users : \E op \in ByInvitation : LoadInvitation(q, op, u)
    \/ \E q \in Reqs, u \in Users : AdminDelete(q, u) \/ CreateInvites(q, u)
    \/ \E q \in Reqs, u \in Users, v \in BOOLEAN : CreateRoom(q, u, v)
    \/ \E q \in Reqs : Target(q) \/ Write(q) \/ Hook(q) \/ CreateRoomDone(q)
    \/ \E c \in Conns : \/ Connect(c) \/ Join(c) \/ Read(c) \/ FreshActor(c) \/ ResolveFails(c) \/ Act(c)
                        \/ Disconnect(c) \/ Shut(c) \/ Drop(c)
    \/ LinkExpires

Spec == Init /\ [][Next]_vars

\* A request runs to its end, a connection's command too, and the writer of
\* a closed connection closes the socket.  The database answers who gives
\* commands again and again, if not every time.
Fairness ==
    /\ \A q \in Reqs : WF_vars(Target(q) \/ Write(q) \/ Hook(q))
    /\ \A c \in Conns : /\ WF_vars(FreshActor(c) \/ ResolveFails(c) \/ Act(c)) /\ SF_vars(FreshActor(c))
                        /\ WF_vars(Shut(c)) /\ WF_vars(Drop(c))

FairSpec == Spec /\ Fairness

-----------------------------------------------------------------------------
(***************************************************************************)
(* Properties                                                              *)
(***************************************************************************)

\* The room's owner_id names somebody whose membership says owner, through
\* every interleaving of transfers, removals, demotions and departures
\* (members.go: "The owner row is never touched through this path", "the
\* owner cannot be removed").
OwnerHolds == exists => owner \in Users /\ role[owner] = "owner"

\* The link admits at most max_uses people, however many come through it at
\* once (invite_links.go: "the use counter is charged only while the link is
\* within its limit").
LinkWithinLimit == link.uses <= MaxUses

\* An answer to an invite stands: accepted and declined do not turn into
\* each other, whichever of two answers in flight is written last; only a
\* new invite, or the end of the room, takes it back.
InviteAnswered ==
    [][\A u \in Users : invite[u] \in {"accepted", "declined"} =>
         invite'[u] \in {invite[u], "pending"} \/ ~exists']_vars

\* A banned viewer does not go on giving commands for ever: the kick of the
\* ban puts them out, or, when their handshake raced it, the next command
\* does (hub.go: "freshActor re-resolves membership and bans").
BannedOut ==
    \A c \in Conns : ~( /\ <>[](Joined(c) /\ Viewer[c] \in bans)
                        /\ []<>(conn[c].phase \in {"sent", "acting"}) )

\* Whoever is connected when they are banned or leave, when they are removed
\* from a private room, or when the room is deleted, is put out (server.go:
\* "OnBan and OnRemove disconnect the user").
KickedOut ==
    \A q \in Reqs, c \in Conns :
        (req[q].phase = "hook" /\ Joined(c) /\ (req[q].op = "delete" \/ Viewer[c] = req[q].on))
            ~> ~Joined(c)

-----------------------------------------------------------------------------
(***************************************************************************)
(* Why OwnerHolds and LinkWithinLimit hold                                 *)
(***************************************************************************)

\* A request that came in knows its caller and its target.
ReqInv == \A q \in Reqs : req[q].phase \in {"target", "write", "hook", "invites"} =>
                            req[q].by \in Users /\ req[q].on \in Users

MembersInv == TypeOK /\ ReqInv /\ OwnerHolds /\ LinkWithinLimit
==============================================================================
