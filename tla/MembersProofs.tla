---------------------------- MODULE MembersProofs ----------------------------
(***************************************************************************)
(* The room keeps its owner, and the invite link its limit, for every      *)
(* number of people, requests and connections: MembersInv is inductive.    *)
(***************************************************************************)
EXTENDS Members, TLAPS

Links == [state: {"none", "live", "revoked", "expired"}, uses: Nat]

\* The invariant holds before the room is created and some time after.
LEMMA MembersInit == Init => MembersInv
<1> SUFFICES ASSUME Init PROVE MembersInv OBVIOUS
<1> USE MembersAssumption DEF Init
<1>1. Blank("new") \in Request BY DEF Blank, Request, ReqPhase, Role
<1>2. Out \in [phase: ConnPhase, closed: {"no", "asked", "shut"}] BY DEF Out, ConnPhase
<1>3. TypeOK
  <2>1. invite \in [Users -> {"none", "pending", "accepted", "declined"}] OBVIOUS
  <2>2. link \in [state: {"none", "live", "revoked", "expired"}, uses: Nat] BY DEF NoLink
  <2> QED BY <1>1, <1>2, <2>1, <2>2 DEF TypeOK
<1>4. ReqInv BY DEF ReqInv, Blank
<1>5. OwnerHolds BY DEF OwnerHolds
<1>6. LinkWithinLimit BY DEF LinkWithinLimit, NoLink
<1> QED BY <1>3, <1>4, <1>5, <1>6 DEF MembersInv

\* A request that is answered or goes on to a phase keeps its type.
LEMMA AnswerType ==
    ASSUME MembersInv, NEW q \in Reqs, Answer(q)
    PROVE  req' \in [Reqs -> Request] /\ ReqInv'
<1>1. Blank("done") \in Request BY DEF Blank, Request, ReqPhase, Role
<1>2. req' \in [Reqs -> Request] BY <1>1 DEF Answer, MembersInv, TypeOK
<1>3. Blank("done").phase = "done" BY DEF Blank
<1>4. ReqInv' BY <1>3 DEF Answer, MembersInv, TypeOK, ReqInv
<1> QED BY <1>2, <1>4

\* A request that wrote goes on to its hook ...
LEMMA HookType ==
    ASSUME MembersInv, NEW q \in Reqs, req[q].phase = "write", Proceed(q, "hook")
    PROVE  req' \in [Reqs -> Request] /\ ReqInv'
<1>1. req[q] \in Request BY DEF MembersInv, TypeOK
<1>2. [req[q] EXCEPT !.phase = "hook"] \in Request BY <1>1 DEF Request, ReqPhase
<1>3. req' = [req EXCEPT ![q] = [req[q] EXCEPT !.phase = "hook"]] BY DEF Proceed
<1>4. req' \in [Reqs -> Request] BY <1>2, <1>3 DEF MembersInv, TypeOK
<1>5. /\ [req[q] EXCEPT !.phase = "hook"].by = req[q].by
      /\ [req[q] EXCEPT !.phase = "hook"].on = req[q].on
  BY <1>1 DEF Request
<1>6. ReqInv' BY <1>3, <1>5 DEF MembersInv, TypeOK, ReqInv
<1> QED BY <1>4, <1>6

\* The loads and the check of the target change nothing but their request.
LEMMA LoadType ==
    ASSUME MembersInv, NEW q \in Reqs, NEW u \in Users, NEW op \in Ops, NEW t \in Users,
           Load(q, op, u, t) \/ LoadInvitation(q, op, u)
    PROVE  req' \in [Reqs -> Request] /\ ReqInv'
<1>1. CASE Load(q, op, u, t)
  <2>1. PICK v \in BOOLEAN :
          req' = [req EXCEPT ![q] = [phase |-> "target", op |-> op, by |-> u, on |-> t,
                                     role |-> role[u], public |-> v]]
    BY <1>1 DEF Load, MembersInv, TypeOK
  <2>2. [phase |-> "target", op |-> op, by |-> u, on |-> t, role |-> role[u], public |-> v] \in Request
    BY DEF MembersInv, TypeOK, Request, ReqPhase
  <2> QED BY <2>1, <2>2 DEF MembersInv, TypeOK, ReqInv
<1>2. CASE LoadInvitation(q, op, u)
  <2> DEFINE r == [Blank("target") EXCEPT !.op = op, !.by = u, !.on = u]
  <2>1. req' = [req EXCEPT ![q] = r] BY <1>2 DEF LoadInvitation
  <2>2. r \in Request /\ r.by = u /\ r.on = u BY DEF Blank, Request, ReqPhase, Role
  <2> HIDE DEF r
  <2> QED BY <2>1, <2>2 DEF MembersInv, TypeOK, ReqInv
<1> QED BY <1>1, <1>2

\* So does the administrators' deletion.
LEMMA AdminDeleteType ==
    ASSUME MembersInv, NEW q \in Reqs, NEW u \in Users, AdminDelete(q, u)
    PROVE  req' \in [Reqs -> Request] /\ ReqInv'
<1> DEFINE r == [Blank("write") EXCEPT !.op = "delete", !.by = u, !.on = u]
<1>1. req' = [req EXCEPT ![q] = r] BY DEF AdminDelete
<1>2. r \in Request /\ r.by = u /\ r.on = u BY DEF Blank, Request, ReqPhase, Role, Ops
<1> HIDE DEF r
<1> QED BY <1>1, <1>2 DEF MembersInv, TypeOK, ReqInv

\* ... and one that read its target to its write.
LEMMA TargetType ==
    ASSUME MembersInv, NEW q \in Reqs, Target(q)
    PROVE  req' \in [Reqs -> Request] /\ ReqInv'
<1>1. CASE Answer(q) BY <1>1, AnswerType
<1>2. CASE req' = [req EXCEPT ![q] = [@ EXCEPT !.phase = "write", !.role = "none"]]
  <2> DEFINE r == [req[q] EXCEPT !.phase = "write", !.role = "none"]
  <2>1. req' = [req EXCEPT ![q] = r] BY <1>2
  <2>2. req[q] \in Request BY DEF MembersInv, TypeOK
  <2>3. r \in Request /\ r.by = req[q].by /\ r.on = req[q].on BY <2>2 DEF Request, ReqPhase, Role
  <2>4. req[q].by \in Users /\ req[q].on \in Users BY DEF Target, MembersInv, ReqInv
  <2> HIDE DEF r
  <2> QED BY <2>1, <2>3, <2>4 DEF MembersInv, TypeOK, ReqInv
<1> QED BY <1>1, <1>2 DEF Target

\* Every write keeps the types of the rows, the owner and the limit.
LEMMA WriteRows ==
    ASSUME MembersInv, NEW q \in Reqs, Write(q)
    PROVE  /\ exists' \in BOOLEAN /\ owner' \in Users \cup {Nobody} /\ public' \in BOOLEAN
           /\ role' \in [Users -> Role] /\ bans' \in SUBSET Users
           /\ invite' \in [Users -> {"none", "pending", "accepted", "declined"}]
           /\ link' \in Links
           /\ OwnerHolds' /\ LinkWithinLimit'
<1> DEFINE by == req[q].by
           on == req[q].on
<1> USE MembersAssumption DEF MembersInv, Role, Links
<1>a. req[q].phase = "write" BY DEF Write, Writes, WriteFails, AddModerator, RemoveModerator,
      DeleteMember, TransferOwnership, UpdateRoom, DeleteRoom, CreateBan, DeleteBan, CreateInvite,
      AcceptInvite, DeclineInvite, CreateInviteLink, RevokeInviteLink, UseInviteLink
<1>b. by \in Users /\ on \in Users BY <1>a DEF ReqInv
<1>c. req[q].public \in BOOLEAN BY DEF TypeOK, Request
<1>1. CASE WriteFails(q) BY <1>1 DEF WriteFails, db, TypeOK, OwnerHolds, LinkWithinLimit
<1>2. CASE AddModerator(q)
  BY <1>2, <1>b DEF AddModerator, UpsertMember, TypeOK, OwnerHolds, LinkWithinLimit
<1>3. CASE RemoveModerator(q)
  BY <1>3, <1>b DEF RemoveModerator, UpsertMember, TypeOK, OwnerHolds, LinkWithinLimit
<1>4. CASE DeleteMember(q)
  BY <1>4, <1>b DEF DeleteMember, Removable, TypeOK, OwnerHolds, LinkWithinLimit
<1>5. CASE TransferOwnership(q)
  <2>0. UNCHANGED <<exists, public, bans, invite, link>> BY <1>5 DEF TransferOwnership
  <2>1. CASE role[on] # "none"
    <3>1. /\ role' = [role EXCEPT ![by] = IF role[by] = "none" THEN "none" ELSE "moderator",
                                  ![on] = "owner"]
          /\ owner' = on
      BY <1>5, <2>1 DEF TransferOwnership, Transfer
    <3>2. role' \in [Users -> Role] /\ role'[on] = "owner"
      <4> HIDE DEF on, by
      <4> QED BY <1>b, <3>1 DEF TypeOK
    <3> QED BY <1>b, <2>0, <3>1, <3>2 DEF TypeOK, OwnerHolds, LinkWithinLimit
  <2>2. CASE role[on] = "none"
    <3>1. UNCHANGED <<role, owner>> BY <1>5, <2>2 DEF TransferOwnership, Transfer
    <3> QED BY <2>0, <3>1 DEF TypeOK, OwnerHolds, LinkWithinLimit
  <2> QED BY <2>1, <2>2
<1>6. CASE UpdateRoom(q)
  BY <1>6, <1>c DEF UpdateRoom, SetRoom, TypeOK, OwnerHolds, LinkWithinLimit
<1>7. CASE DeleteRoom(q)
  <2>1. /\ exists' = FALSE /\ owner' = owner /\ public' = public /\ bans' = {}
        /\ role' = [u \in Users |-> "none"] /\ invite' = [u \in Users |-> "none"]
        /\ link' = [state |-> "none", uses |-> 0]
    BY <1>7 DEF DeleteRoom, DropRoom, NoLink
  <2>2. link' \in Links /\ link'.uses = 0 BY <2>1
  <2>3. role' \in [Users -> Role] BY <2>1
  <2>4. invite' \in [Users -> {"none", "pending", "accepted", "declined"}] BY <2>1
  <2>5. OwnerHolds' /\ LinkWithinLimit' BY <2>1, <2>2 DEF OwnerHolds, LinkWithinLimit
  <2> QED BY <2>1, <2>2, <2>3, <2>4, <2>5 DEF TypeOK
<1>8. CASE CreateBan(q) \/ DeleteBan(q)
  BY <1>8, <1>b DEF CreateBan, Ban, DeleteBan, Unban, TypeOK, OwnerHolds, LinkWithinLimit
<1>9. CASE CreateInvite(q) \/ DeclineInvite(q)
  BY <1>9, <1>b DEF CreateInvite, Invite, DeclineInvite, Decline, TypeOK, OwnerHolds, LinkWithinLimit
<1>10. CASE AcceptInvite(q)
  BY <1>10, <1>b DEF AcceptInvite, InsertMember, TypeOK, OwnerHolds, LinkWithinLimit
<1>11. CASE CreateInviteLink(q) \/ RevokeInviteLink(q)
  BY <1>11 DEF CreateInviteLink, StoreLink, RevokeInviteLink, MarkRevoked, TypeOK, OwnerHolds, LinkWithinLimit
<1>12. CASE UseInviteLink(q)
  <2>1. CASE Usable
    <3>1. link' \in Links /\ link'.uses = link.uses + 1 BY <1>12, <2>1 DEF UseInviteLink, Charge, TypeOK
    <3>2. link.uses + 1 <= MaxUses BY <2>1 DEF Usable, TypeOK
    <3> QED BY <1>12, <1>b, <2>1, <3>1, <3>2
            DEF UseInviteLink, Charge, InsertMember, TypeOK, OwnerHolds, LinkWithinLimit
  <2>2. CASE ~Usable BY <1>12, <2>2 DEF UseInviteLink, Charge, TypeOK, OwnerHolds, LinkWithinLimit
  <2> QED BY <2>1, <2>2
<1> QED BY <1>1, <1>2, <1>3, <1>4, <1>5, <1>6, <1>7, <1>8, <1>9, <1>10, <1>11, <1>12 DEF Write

\* A write answers its request or goes on to the hook.
LEMMA WriteType ==
    ASSUME MembersInv, NEW q \in Reqs, Write(q)
    PROVE  req' \in [Reqs -> Request] /\ ReqInv' /\ UNCHANGED conn
<1>1. /\ req[q].phase = "write"
      /\ Answer(q) \/ Proceed(q, "hook")
      /\ UNCHANGED conn
  BY DEF Write, Writes, Done, ThenHook, WriteFails, AddModerator, RemoveModerator,
      DeleteMember, TransferOwnership, UpdateRoom, DeleteRoom, CreateBan, DeleteBan, CreateInvite,
      AcceptInvite, DeclineInvite, CreateInviteLink, RevokeInviteLink, UseInviteLink
<1> QED BY <1>1, AnswerType, HookType

\* A new room has its owner, and its invites change nothing else.
LEMMA CreateRoomInv ==
    ASSUME MembersInv, NEW q \in Reqs, NEW u \in Users, NEW v \in BOOLEAN, CreateRoom(q, u, v)
    PROVE  MembersInv'
<1> DEFINE r == [Blank("invites") EXCEPT !.op = "create", !.by = u, !.on = u]
<1>1. /\ exists' = TRUE /\ owner' = u /\ public' = v /\ role' = [role EXCEPT ![u] = "owner"]
      /\ req' = [req EXCEPT ![q] = r]
      /\ UNCHANGED <<bans, invite, link, conn>>
  BY DEF CreateRoom
<1>2. r \in Request /\ r.by = u /\ r.on = u BY DEF Blank, Request, ReqPhase, Role
<1> HIDE DEF r
<1>3. req' \in [Reqs -> Request] /\ ReqInv' BY <1>1, <1>2 DEF MembersInv, TypeOK, ReqInv
<1>4. role' \in [Users -> Role] /\ role'[u] = "owner" BY <1>1 DEF MembersInv, TypeOK, Role
<1> QED BY <1>1, <1>3, <1>4 DEF MembersInv, TypeOK, OwnerHolds, LinkWithinLimit

\* CreateInvites writes invitations only.
LEMMA CreateInvitesInv ==
    ASSUME MembersInv, NEW q \in Reqs, NEW u \in Users, CreateInvites(q, u)
    PROVE  MembersInv'
<1>1. invite' \in [Users -> {"none", "pending", "accepted", "declined"}]
  BY DEF CreateInvites, Invite, MembersInv, TypeOK
<1> QED BY <1>1 DEF CreateInvites, MembersInv, TypeOK, ReqInv, OwnerHolds, LinkWithinLimit

\* The steps of a connection and the hook keep its type.
Connection == [phase: ConnPhase, closed: {"no", "asked", "shut"}]

\* A connection that is told to close is one.
LEMMA CloseType ==
    ASSUME NEW k \in Connection PROVE Close(k) \in Connection
  BY DEF Close, Connection

\* Its own steps keep the type of a connection ...
LEMMA ConnType ==
    ASSUME MembersInv, NEW c \in Conns,
           Connect(c) \/ Join(c) \/ Read(c) \/ FreshActor(c) \/ ResolveFails(c) \/ Act(c)
             \/ Disconnect(c) \/ Shut(c) \/ Drop(c)
    PROVE  conn' \in [Conns -> Connection] /\ UNCHANGED <<db, req>>
<1>0. conn \in [Conns -> Connection] /\ conn[c] \in Connection BY DEF MembersInv, TypeOK, Connection
<1>1. Out \in Connection BY DEF Out, Connection, ConnPhase
<1>2. \A p \in ConnPhase : [conn[c] EXCEPT !.phase = p] \in Connection
  BY <1>0 DEF Connection
<1>3. [conn[c] EXCEPT !.closed = "shut"] \in Connection BY <1>0 DEF Connection
<1>4. Close([conn[c] EXCEPT !.phase = "open"]) \in Connection
  BY <1>2, CloseType DEF ConnPhase
<1>5. [phase |-> "cleared", closed |-> "no"] \in Connection BY DEF Connection, ConnPhase
<1>6. \E k \in Connection : conn' = [conn EXCEPT ![c] = k]
  BY <1>1, <1>2, <1>3, <1>4, <1>5
  DEF Connect, Join, Read, FreshActor, ResolveFails, Act, Disconnect, Shut, Drop, ConnPhase
<1> QED BY <1>0, <1>6 DEF Connect, Join, Read, FreshActor, ResolveFails, Act, Disconnect, Shut, Drop

\* ... and so does the hook.
LEMMA HookConn ==
    ASSUME MembersInv, NEW q \in Reqs, Hook(q)
    PROVE  conn' \in [Conns -> Connection]
<1>1. \A c \in Conns : conn[c] \in Connection /\ Close(conn[c]) \in Connection
  BY CloseType DEF MembersInv, TypeOK, Connection
<1> QED BY <1>1 DEF Hook, Closing

\* MembersInv is inductive.
LEMMA MembersStep == MembersInv /\ [Next]_vars => MembersInv'
<1> SUFFICES ASSUME MembersInv, [Next]_vars PROVE MembersInv' OBVIOUS
<1>1. CASE UNCHANGED vars
  BY <1>1 DEF vars, db, MembersInv, TypeOK, ReqInv, OwnerHolds, LinkWithinLimit
<1>2. ASSUME NEW q \in Reqs, NEW u \in Users, NEW op \in Ops, NEW t \in Users,
             Load(q, op, u, t) \/ LoadInvitation(q, op, u)
      PROVE  MembersInv'
  <2>1. UNCHANGED <<db, conn>> BY <1>2 DEF Load, LoadInvitation
  <2>2. req' \in [Reqs -> Request] /\ ReqInv' BY <1>2, LoadType
  <2> QED BY <2>1, <2>2 DEF db, MembersInv, TypeOK, OwnerHolds, LinkWithinLimit
<1>3. ASSUME NEW q \in Reqs, Target(q) PROVE MembersInv'
  BY <1>3, TargetType DEF Target, db, MembersInv, TypeOK, OwnerHolds, LinkWithinLimit
<1>4. ASSUME NEW q \in Reqs, Write(q) PROVE MembersInv'
  BY <1>4, WriteType, WriteRows DEF MembersInv, TypeOK, Links
<1>5. ASSUME NEW q \in Reqs, Hook(q) PROVE MembersInv'
  <2>1. req' \in [Reqs -> Request] /\ ReqInv' BY <1>5, AnswerType DEF Hook
  <2>2. conn' \in [Conns -> Connection] BY <1>5, HookConn
  <2>3. UNCHANGED db BY <1>5 DEF Hook
  <2> QED BY <2>1, <2>2, <2>3 DEF db, Connection, MembersInv, TypeOK, OwnerHolds, LinkWithinLimit
<1>6. ASSUME NEW c \in Conns,
             Connect(c) \/ Join(c) \/ Read(c) \/ FreshActor(c) \/ ResolveFails(c) \/ Act(c)
               \/ Disconnect(c) \/ Shut(c) \/ Drop(c)
      PROVE  MembersInv'
  <2>1. conn' \in [Conns -> Connection] /\ UNCHANGED <<db, req>> BY <1>6, ConnType
  <2> QED BY <2>1 DEF db, Connection, MembersInv, TypeOK, ReqInv, OwnerHolds, LinkWithinLimit
<1>7. CASE LinkExpires
  <2>1. link' \in Links /\ link'.uses = link.uses BY <1>7 DEF LinkExpires, MembersInv, TypeOK, Links
  <2> QED BY <1>7, <2>1
          DEF LinkExpires, Links, MembersInv, TypeOK, ReqInv, OwnerHolds, LinkWithinLimit
<1>8. ASSUME NEW q \in Reqs, NEW u \in Users, AdminDelete(q, u) PROVE MembersInv'
  BY <1>8, AdminDeleteType DEF AdminDelete, db, MembersInv, TypeOK, OwnerHolds, LinkWithinLimit
<1>9. ASSUME NEW q \in Reqs, CreateRoomDone(q) PROVE MembersInv'
  <2>1. req' \in [Reqs -> Request] /\ ReqInv' BY <1>9, AnswerType DEF CreateRoomDone, Done
  <2> QED BY <1>9, <2>1
          DEF CreateRoomDone, Done, db, MembersInv, TypeOK, OwnerHolds, LinkWithinLimit
<1> QED BY <1>1, <1>2, <1>3, <1>4, <1>5, <1>6, <1>7, <1>8, <1>9, CreateRoomInv, CreateInvitesInv
        DEF Next, ByInvitation, Ops

\* The invariant of every reachable state.
THEOREM MembersInvariant == Spec => []MembersInv
  BY MembersInit, MembersStep, PTL DEF Spec

\* rooms.owner_id always names a member whose role is owner, however
\* transfers, removals, demotions and departures interleave.
THEOREM OwnerStays == Spec => []OwnerHolds
<1>1. MembersInv => OwnerHolds BY DEF MembersInv
<1> QED BY <1>1, MembersInvariant, PTL

\* The invite link admits at most max_uses people.
THEOREM LinkLimited == Spec => []LinkWithinLimit
<1>1. MembersInv => LinkWithinLimit BY DEF MembersInv
<1> QED BY <1>1, MembersInvariant, PTL

\* Which statements change an invite or charge the link.
LEMMA WriteAnswers ==
    ASSUME MembersInv, NEW q \in Reqs, Write(q), NEW u \in Users,
           invite[u] \in {"accepted", "declined"}
    PROVE  invite'[u] \in {invite[u], "pending"} \/ ~exists'
<1>1. CASE CreateInvite(q) BY <1>1 DEF CreateInvite, Invite, MembersInv, TypeOK
<1>2. CASE AcceptInvite(q) BY <1>2 DEF AcceptInvite, MembersInv, TypeOK
<1>3. CASE DeclineInvite(q) BY <1>3 DEF DeclineInvite, Decline, MembersInv, TypeOK
<1>4. CASE DeleteRoom(q) BY <1>4 DEF DeleteRoom, DropRoom
<1>5. CASE UNCHANGED invite BY <1>5
<1> QED BY <1>1, <1>2, <1>3, <1>4, <1>5 DEF Write, WriteFails, db, AddModerator, RemoveModerator,
      DeleteMember, TransferOwnership, UpdateRoom, CreateBan, DeleteBan,
      CreateInviteLink, RevokeInviteLink, UseInviteLink

\* What a step may do to the invitations.
LEMMA OthersAnswer ==
    ASSUME [Next]_vars
    PROVE  \/ \E q \in Reqs : Write(q)
           \/ \E u \in Users : Invite(u)
           \/ UNCHANGED invite
  BY DEF Next, vars, db, Load, LoadInvitation, Target, Hook, Connect, Join, Read, FreshActor, ResolveFails, Act,
     Disconnect, Shut, Drop, LinkExpires, AdminDelete, CreateRoom, CreateInvites, CreateRoomDone

\* An answer to an invite stands until the next invite, whichever of two
\* answers in flight is written last.
THEOREM AnswersStand == Spec => InviteAnswered
<1>1. ASSUME MembersInv, [Next]_vars, NEW u \in Users, invite[u] \in {"accepted", "declined"}
      PROVE  invite'[u] \in {invite[u], "pending"} \/ ~exists'
  <2>1. CASE \E q \in Reqs : Write(q) BY <1>1, <2>1, WriteAnswers
  <2>2. CASE \E v \in Users : Invite(v) BY <1>1, <2>2 DEF Invite, MembersInv, TypeOK
  <2> QED BY <1>1, <2>1, <2>2, OthersAnswer
<1>2. MembersInv /\ [Next]_vars =>
        [\A u \in Users : invite[u] \in {"accepted", "declined"} =>
           invite'[u] \in {invite[u], "pending"} \/ ~exists']_vars
  BY <1>1
<1> QED BY <1>2, MembersInvariant, PTL DEF Spec, InviteAnswered
==============================================================================
