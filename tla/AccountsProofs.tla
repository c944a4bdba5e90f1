--------------------------- MODULE AccountsProofs ---------------------------
(***************************************************************************)
(* What a new password and a sign-out mean for the sessions, and a site    *)
(* ban for the connection, for every number of tokens and requests.        *)
(***************************************************************************)
EXTENDS Accounts, TLAPS

\* The types the argument needs.  TypeOK also bounds the passwords by the
\* requests made, which no property depends on.
Row == [state: {"unused", "live", "expired", "gone"}, born: Nat]

RowTypes ==
    /\ password \in Nat
    /\ session \in [Tokens -> Row]
    /\ req \in [Reqs -> Request]

\* A password request between its two statements, or one that was told of an
\* error there.
Owing(q) == req[q].op = "password" /\ req[q].phase \in {"revoke", "failed"}

\* OldSessionsOut also for sessions past their time: a touch may still renew
\* one of these.
OldRowsOut ==
    \A t \in Tokens : session[t].state \in {"live", "expired"} /\ session[t].born < password =>
        \E q \in Reqs : Owing(q)

\* A ban that was written and has not told the rooms, or never will.
Pending(q) == req[q].op = "ban" /\ req[q].phase \in {"revoke", "kick", "failed"}

\* BanKeepsOut also for the requests that may still open a connection.
KeptOut ==
    banned /\ (\A q \in Reqs : ~Pending(q)) =>
        /\ conn \in {"checked", "open"} => None \in slips
        /\ \A q \in Reqs : OnTheWay(q) => q \in slips

AccountsInv == RowTypes /\ OldRowsOut /\ KeptOut

\* A request has one of the phases and operations whatever becomes of it.
LEMMA RequestType ==
    ASSUME NEW r \in Request, NEW phase \in ReqPhase
    PROVE  /\ Blank(phase) \in Request
           /\ [r EXCEPT !.phase = phase] \in Request
           /\ [r EXCEPT !.phase = "failed", !.token = None] \in Request
  BY DEF Request, ReqPhase, Blank, Ops, OwnOps

\* The DELETE keeps the type, takes the rows away and touches no other.
LEMMA DeletedRows ==
    ASSUME RowTypes, NEW T \in SUBSET Tokens
    PROVE  /\ Deleted(T) \in [Tokens -> Row]
           /\ \A t \in Tokens : /\ Deleted(T)[t].born = session[t].born
                                /\ \/ Deleted(T)[t].state = session[t].state
                                   \/ Deleted(T)[t].state = "gone"
                                /\ t \in T => Deleted(T)[t].state \notin {"live", "expired"}
<1> SUFFICES ASSUME NEW t \in Tokens
             PROVE  /\ Deleted(T)[t] \in Row
                    /\ Deleted(T)[t].born = session[t].born
                    /\ \/ Deleted(T)[t].state = session[t].state
                       \/ Deleted(T)[t].state = "gone"
                    /\ t \in T => Deleted(T)[t].state \notin {"live", "expired"}
  BY DEF Deleted
<1>1. session[t] \in Row BY DEF RowTypes
<1>2. Deleted(T)[t] = IF t \in T /\ session[t].state \in {"live", "expired"}
                        THEN [session[t] EXCEPT !.state = "gone"] ELSE session[t]
  BY DEF Deleted
<1> QED BY <1>1, <1>2 DEF Row

\* What a step may do to the sessions: nothing, delete, renew a row that is
\* there, let one expire, or make a new one.
Deletes == \E T \in SUBSET Tokens : session' = Deleted(T)
Renews == \E t \in Tokens : /\ session[t].state \in {"live", "expired"}
                            /\ session' = [session EXCEPT ![t].state = "live"]
Expires == \E t \in Tokens : Expire(t)
Creates == \E t \in Tokens : session[t].state = "unused" /\ StoreSession(t)

\* A request that owes the end of the old sessions keeps owing it, unless
\* all sessions are deleted.
StillOwed == \A q \in Reqs : Owing(q) => Owing(q)'
AllDeleted == session' = Deleted(Tokens)

\* What a step may do to the sessions.
LEMMA SessionSteps ==
    ASSUME RowTypes, [Next]_vars
    PROVE  UNCHANGED session \/ Deletes \/ Renews \/ Expires \/ Creates
<1>1. ASSUME NEW q \in Reqs, Step(q)
      PROVE  UNCHANGED session \/ Deletes \/ Renews \/ Creates
  <2>1. req[q] \in Request /\ req[q].token \in Tokens \cup {None} BY DEF RowTypes, Request
  <2>2. CASE IssueForget(q)
    <3>1. CASE req[q].token \in Tokens BY <2>2, <3>1 DEF IssueForget, Deletes
    <3>2. CASE req[q].token = None
      <4>1. Deleted({None}) = Deleted({}) BY DEF Deleted, Tokens, None
      <4> QED BY <2>2, <3>2, <4>1 DEF IssueForget, Deletes
    <3> QED BY <2>1, <3>1, <3>2
  <2>3. CASE ResolveBanned(q) \/ RevokeAll(q) \/ BanRevoke(q)
    BY <2>3 DEF ResolveBanned, RevokeAll, BanRevoke, Deletes
  <2>4. CASE Touch(q)
    <3>1. CASE req[q].token \in Tokens BY <2>4, <3>1 DEF Touch, Renews
    <3>2. CASE req[q].token = None
      <4>1. None \notin DOMAIN session BY DEF RowTypes, Tokens, None
      <4>2. [session EXCEPT ![None].state = "live"] = session BY <4>1 DEF RowTypes
      <4> QED BY <2>4, <3>2, <4>2 DEF Touch
    <3> QED BY <2>1, <3>1, <3>2
  <2>5. CASE Logout(q)
    <3>1. CASE req[q].token \in Tokens BY <2>5, <3>1 DEF Logout, RevokeOwn, Revoke, Deletes
    <3>2. CASE req[q].token = None
      <4>1. Deleted({None}) = Deleted({}) BY DEF Deleted, Tokens, None
      <4> QED BY <2>5, <3>2, <4>1 DEF Logout, RevokeOwn, Revoke, Deletes
    <3> QED BY <2>1, <3>1, <3>2
  <2>6. CASE RevokeOthers(q) BY <2>6 DEF RevokeOthers, Revoke, Deletes
  <2>7. CASE \/ WriteFails(q) \/ Serve(q) \/ Handshake(q) \/ SetUserPassword(q)
             \/ BanUser(q) \/ KickEverywhere(q)
    BY <2>7 DEF WriteFails, Serve, Handshake, SetUserPassword, BanUser, KickEverywhere
  <2>8. ASSUME NEW t \in Tokens, IssueCreate(q, t) \/ RevokeByID(q, t) PROVE Deletes \/ Creates
    BY <2>8 DEF IssueCreate, RevokeByID, Revoke, Deletes, Creates
  <2> QED BY <1>1, <2>2, <2>3, <2>4, <2>5, <2>6, <2>7, <2>8 DEF Step
<1>2. CASE DeleteExpiredSessions BY <1>2 DEF DeleteExpiredSessions, Deletes
<1>3. CASE \E t \in Tokens : Expire(t) BY <1>3 DEF Expires
<1>4. CASE \/ Join \/ Disconnect \/ Drop \/ UNCHANGED vars
           \/ \E q \in Reqs : \/ \E t \in Tokens \cup {None} : Login(q, t)
                              \/ \E op \in OwnOps, t \in Tokens : Resolve(q, op, t)
                              \/ BanRequest(q) \/ UnbanUser(q) \/ SetUserRole(q)
  BY <1>4 DEF Join, Disconnect, Drop, vars, Login, Resolve, BanRequest, UnbanUser, SetUserRole
<1> QED BY <1>1, <1>2, <1>3, <1>4 DEF Next

\* What a step does to the requests: one of them may change, and only
\* SetUserPassword writes the password.
LEMMA RequestSteps ==
    ASSUME RowTypes, [Next]_vars
    PROVE  /\ req' \in [Reqs -> Request]
           /\ AllDeleted \/ StillOwed
           /\ UNCHANGED password \/ \E q \in Reqs : password' = password + 1 /\ Owing(q)'
<1>0. req \in [Reqs -> Request] BY DEF RowTypes
<1>1. \A q \in Reqs : req[q] \in Request BY <1>0
<1>2. ASSUME NEW q \in Reqs, NEW r \in Request, req' = [req EXCEPT ![q] = r], ~Owing(q) \/ AllDeleted \/
             (r.op = "password" /\ r.phase \in {"revoke", "failed"})
      PROVE  req' \in [Reqs -> Request] /\ (AllDeleted \/ StillOwed)
  BY <1>0, <1>2 DEF StillOwed, Owing
<1>3. ASSUME NEW q \in Reqs,
             \/ \E t \in Tokens \cup {None} : Login(q, t)
             \/ \E op \in OwnOps, t \in Tokens : Resolve(q, op, t)
             \/ BanRequest(q) \/ UnbanUser(q) \/ SetUserRole(q)
      PROVE  req' \in [Reqs -> Request] /\ (AllDeleted \/ StillOwed) /\ UNCHANGED password
  <2>1. ~Owing(q)
    BY <1>3 DEF Owing, Login, Resolve, BanRequest, UnbanUser, SetUserRole, ComesIn
  <2>2. \E r \in Request : req' = [req EXCEPT ![q] = r]
    BY <1>3 DEF Login, Resolve, BanRequest, UnbanUser, SetUserRole, Ends, Blank, Request, ReqPhase,
                Ops, OwnOps
  <2>3. UNCHANGED password
    BY <1>3 DEF Login, Resolve, BanRequest, UnbanUser, SetUserRole, user
  <2> QED BY <1>2, <2>1, <2>2, <2>3
<1>4. ASSUME NEW q \in Reqs, Step(q)
      PROVE  /\ req' \in [Reqs -> Request] /\ (AllDeleted \/ StillOwed)
             /\ UNCHANGED password \/ (password' = password + 1 /\ Owing(q)')
  <2>0. \A phase \in ReqPhase : Blank(phase) \in Request /\ [req[q] EXCEPT !.phase = phase] \in Request
    BY <1>1, RequestType
  <2>1. CASE RevokeAll(q)
    <3>1. CASE Fails(q)
      <4> DEFINE r == [req[q] EXCEPT !.phase = "failed", !.token = None]
      <4>1. r \in Request BY <1>1, RequestType DEF ReqPhase
      <4>2. r.op = "password" /\ r.phase = "failed" BY <1>1, <2>1 DEF RevokeAll, Request
      <4>3. req' = [req EXCEPT ![q] = r] BY <3>1 DEF Fails
      <4> HIDE DEF r
      <4> QED BY <1>2, <2>1, <4>1, <4>2, <4>3 DEF RevokeAll, user
    <3>2. CASE session' = Deleted(Tokens) /\ Goes(q, "forget")
      BY <1>2, <2>0, <2>1, <3>2 DEF RevokeAll, Goes, AllDeleted, ReqPhase, user
    <3> QED BY <2>1, <3>1, <3>2 DEF RevokeAll
  <2>2. CASE SetUserPassword(q)
    <3>1. ASSUME NEW r \in Request, r.op = "password", r.phase \in {"revoke", "failed"},
                 req' = [req EXCEPT ![q] = r]
          PROVE  req' \in [Reqs -> Request] /\ (AllDeleted \/ StillOwed) /\ Owing(q)'
      BY <1>0, <1>2, <3>1 DEF Owing
    <3>2. req[q].op = "password" /\ password' = password + 1 BY <2>2 DEF SetUserPassword, Runs, NewHash
    <3>3. CASE Goes(q, "revoke")
      <4> DEFINE r == [req[q] EXCEPT !.phase = "revoke"]
      <4>1. r \in Request BY <2>0 DEF ReqPhase
      <4>2. r.op = "password" /\ r.phase = "revoke" BY <1>1, <3>2 DEF Request
      <4>3. req' = [req EXCEPT ![q] = r] BY <3>3 DEF Goes
      <4> HIDE DEF r
      <4> QED BY <3>1, <3>2, <4>1, <4>2, <4>3
    <3>4. CASE Fails(q)
      <4> DEFINE r == [req[q] EXCEPT !.phase = "failed", !.token = None]
      <4>1. r \in Request BY <1>1, RequestType DEF ReqPhase
      <4>2. r.op = "password" /\ r.phase = "failed" BY <1>1, <3>2 DEF Request
      <4>3. req' = [req EXCEPT ![q] = r] BY <3>4 DEF Fails
      <4> HIDE DEF r
      <4> QED BY <3>1, <3>2, <4>1, <4>2, <4>3
    <3> QED BY <2>2, <3>3, <3>4 DEF SetUserPassword
  <2>3. CASE \/ IssueForget(q) \/ ResolveBanned(q) \/ Touch(q)
             \/ WriteFails(q) \/ Serve(q) \/ Logout(q) \/ RevokeOthers(q) \/ Handshake(q)
             \/ BanUser(q) \/ BanRevoke(q) \/ KickEverywhere(q)
             \/ \E t \in Tokens : IssueCreate(q, t) \/ RevokeByID(q, t)
    <3>1. ~Owing(q)
      BY <2>3 DEF Owing, IssueForget, ResolveBanned, Touch, WriteFails, Serve, Logout, RevokeOthers, Handshake, Runs,
         BanUser, BanRevoke, KickEverywhere, IssueCreate, RevokeByID
    <3>2. Ends(q) \/ Fails(q) \/ \E phase \in ReqPhase : Goes(q, phase)
      BY <2>3 DEF IssueForget, ResolveBanned, Touch, WriteFails, Serve, Logout, RevokeOwn, RevokeOthers, Revoke,
         Handshake, BanUser, BanRevoke, KickEverywhere, IssueCreate, RevokeByID, ReqPhase
    <3>3. \E r \in Request : req' = [req EXCEPT ![q] = r]
      <4>1. [req[q] EXCEPT !.phase = "failed", !.token = None] \in Request BY <1>1, RequestType DEF ReqPhase
      <4> QED BY <2>0, <3>2, <4>1 DEF Ends, Fails, Goes, ReqPhase
    <3>4. UNCHANGED password
      BY <2>3 DEF IssueForget, ResolveBanned, Touch, WriteFails, Serve, Logout, RevokeOwn, RevokeOthers, Revoke,
         Handshake, BanUser, BanRevoke, KickEverywhere, IssueCreate, RevokeByID, user
    <3> QED BY <1>2, <3>1, <3>3, <3>4
  <2> QED BY <1>4, <2>1, <2>2, <2>3 DEF Step
<1>5. CASE Join \/ Disconnect \/ Drop \/ UNCHANGED vars \/ DeleteExpiredSessions
           \/ \E t \in Tokens : Expire(t)
  <2>1. UNCHANGED <<req, password>>
    BY <1>5 DEF Join, Disconnect, Drop, vars, user, DeleteExpiredSessions, Expire
  <2> QED BY <1>0, <2>1 DEF StillOwed, Owing
<1> QED BY <1>3, <1>4, <1>5 DEF Next

\* The invariant at registration.
LEMMA AccountsInit == Init => AccountsInv
<1> SUFFICES ASSUME Init PROVE AccountsInv OBVIOUS
<1> USE DEF Init, NewAccount
<1>1. Blank("new") \in Request BY DEF Blank, Request, ReqPhase
<1>2. Unused \in Row /\ [state |-> "live", born |-> 1] \in Row BY DEF Unused, Row
<1>3. RowTypes BY <1>1, <1>2 DEF RowTypes
<1>4. \A t \in Tokens : session[t].born = 1 BY DEF Unused
<1>5. KeptOut BY DEF KeptOut
<1> QED BY <1>3, <1>4, <1>5 DEF AccountsInv, OldRowsOut

\* The types of the sessions, and where a row that still counts comes from.
LEMMA SessionRows ==
    ASSUME RowTypes, [Next]_vars
    PROVE  /\ session' \in [Tokens -> Row]
           /\ \A t \in Tokens : session'[t].state \in {"live", "expired"} =>
                \/ session[t].state \in {"live", "expired"} /\ session'[t].born = session[t].born
                \/ session'[t].born = password
           /\ \A t \in Tokens : session[t].state = "gone" => session'[t].state = "gone"
<1>0. \A t \in Tokens : session[t] \in Row BY DEF RowTypes
<1>1. CASE UNCHANGED session BY <1>1 DEF RowTypes
<1>2. CASE Deletes
  <2>1. PICK T \in SUBSET Tokens : session' = Deleted(T) BY <1>2 DEF Deletes
  <2> QED BY <2>1, DeletedRows
<1>3. ASSUME NEW t \in Tokens, NEW r \in Row, session' = [session EXCEPT ![t] = r],
             \/ session[t].state \in {"live", "expired"} /\ r.born = session[t].born
             \/ session[t].state = "unused" /\ r.born = password
      PROVE  /\ session' \in [Tokens -> Row]
             /\ \A u \in Tokens : session'[u].state \in {"live", "expired"} =>
                  \/ session[u].state \in {"live", "expired"} /\ session'[u].born = session[u].born
                  \/ session'[u].born = password
             /\ \A u \in Tokens : session[u].state = "gone" => session'[u].state = "gone"
  BY <1>3 DEF RowTypes
<1>4. CASE Renews
  <2>1. PICK t \in Tokens : /\ session[t].state \in {"live", "expired"}
                            /\ session' = [session EXCEPT ![t].state = "live"]
    BY <1>4 DEF Renews
  <2> DEFINE r == [session[t] EXCEPT !.state = "live"]
  <2>2. r \in Row /\ r.born = session[t].born BY <1>0 DEF Row
  <2>3. session' = [session EXCEPT ![t] = r] BY <2>1
  <2> HIDE DEF r
  <2> QED BY <1>3, <2>1, <2>2, <2>3
<1>5. CASE Expires
  <2>1. PICK t \in Tokens : /\ session[t].state = "live"
                            /\ session' = [session EXCEPT ![t].state = "expired"]
    BY <1>5 DEF Expires, Expire
  <2> DEFINE r == [session[t] EXCEPT !.state = "expired"]
  <2>2. r \in Row /\ r.born = session[t].born BY <1>0 DEF Row
  <2>3. session' = [session EXCEPT ![t] = r] BY <2>1
  <2> HIDE DEF r
  <2> QED BY <1>3, <2>1, <2>2, <2>3
<1>6. CASE Creates
  <2>1. PICK t \in Tokens : session[t].state = "unused" /\ StoreSession(t) BY <1>6 DEF Creates
  <2> DEFINE r == [state |-> "live", born |-> password]
  <2>2. r \in Row /\ r.born = password BY DEF Row, RowTypes
  <2>3. session' = [session EXCEPT ![t] = r] BY <2>1 DEF StoreSession
  <2> HIDE DEF r
  <2> QED BY <1>3, <2>1, <2>2, <2>3
<1> QED BY <1>1, <1>2, <1>4, <1>5, <1>6, SessionSteps

\* Who a step lets past Resolve, and what becomes of the bans under way.
LEMMA KeptOutStep ==
    ASSUME RowTypes, KeptOut, [Next]_vars
    PROVE  KeptOut'
<1>0. req \in [Reqs -> Request] /\ \A q \in Reqs : req[q] \in Request /\ q # None
  BY DEF RowTypes, Reqs, None
<1>1. ASSUME NEW q \in Reqs, NEW r, req' = [req EXCEPT ![q] = r]
      PROVE  req'[q] = r /\ \A p \in Reqs \ {q} : req'[p] = req[p]
  BY <1>0, <1>1
\* A step that writes no ban and lets nobody in.
<1>2. ASSUME NEW q \in Reqs, NEW r, req' = [req EXCEPT ![q] = r], banned' => banned, UNCHANGED slips,
             conn' = conn \/ conn' = "off", Pending(q) => Pending(q)',
             OnTheWay(q)' => OnTheWay(q)
      PROVE  KeptOut'
  BY <1>1, <1>2 DEF KeptOut, Pending, OnTheWay
<1>3. ASSUME NEW q \in Reqs, Pending(q)' PROVE KeptOut' BY <1>3 DEF KeptOut
<1>4. ASSUME NEW q \in Reqs, NEW t \in Tokens \cup {None}, Login(q, t) PROVE KeptOut'
  <2>1. ~Pending(q) /\ ~OnTheWay(q)' BY <1>0, <1>4 DEF Login, ComesIn, Pending, OnTheWay
  <2> QED BY <1>2, <1>4, <2>1 DEF Login, user
<1>5. ASSUME NEW q \in Reqs, NEW op \in OwnOps, NEW t \in Tokens, Resolve(q, op, t) PROVE KeptOut'
  <2>1. CASE banned
    <3>1. ~Pending(q) /\ ~OnTheWay(q)' BY <1>0, <1>5, <2>1 DEF Resolve, ComesIn, Pending, OnTheWay
    <3> QED BY <1>2, <1>5, <3>1 DEF Resolve, user
  <2>2. CASE ~banned BY <1>5, <2>2 DEF Resolve, user, KeptOut
  <2> QED BY <2>1, <2>2
<1>6. ASSUME NEW q \in Reqs, BanRequest(q) \/ UnbanUser(q) \/ SetUserRole(q) PROVE KeptOut'
  <2>1. ~Pending(q) /\ ~OnTheWay(q)'
    BY <1>0, <1>6 DEF BanRequest, UnbanUser, SetUserRole, ComesIn, Ends, Blank, Pending, OnTheWay
  <2>2. \E r : req' = [req EXCEPT ![q] = r] BY <1>6 DEF BanRequest, UnbanUser, SetUserRole, Ends
  <2>3. banned' => banned BY <1>6 DEF BanRequest, UnbanUser, SetUserRole, ClearBan, user
  <2>4. UNCHANGED <<conn, slips>> BY <1>6 DEF BanRequest, UnbanUser, SetUserRole
  <2> QED BY <1>2, <2>1, <2>2, <2>3, <2>4
<1>7. ASSUME NEW q \in Reqs, Step(q) PROVE KeptOut'
  <2>1. CASE \/ IssueForget(q) \/ ResolveBanned(q) \/ Touch(q) \/ WriteFails(q) \/ Serve(q) \/ Logout(q)
             \/ RevokeOthers(q) \/ SetUserPassword(q) \/ RevokeAll(q)
             \/ \E t \in Tokens : IssueCreate(q, t) \/ RevokeByID(q, t)
    <3>1. ~Pending(q)
      BY <2>1 DEF Pending, IssueForget, ResolveBanned, Touch, WriteFails, Serve, Logout, RevokeOthers, Runs,
         SetUserPassword, RevokeAll, IssueCreate, RevokeByID
    <3>2. UNCHANGED <<banned, conn, slips>>
      BY <2>1 DEF IssueForget, ResolveBanned, Touch, WriteFails, Serve, Logout, RevokeOwn, RevokeOthers, Revoke,
         SetUserPassword, RevokeAll, IssueCreate, RevokeByID, user
    <3>3. CASE Touch(q)
      <4>1. req' = [req EXCEPT ![q] = [req[q] EXCEPT !.phase = "run"]] BY <3>3 DEF Touch, Goes
      <4>2. OnTheWay(q)' => OnTheWay(q) BY <1>0, <1>1, <3>3, <4>1 DEF OnTheWay, Touch, Request
      <4> QED BY <1>2, <3>1, <3>2, <4>1, <4>2
    <3>4. CASE ~Touch(q)
      <4>1. Ends(q) \/ Fails(q) \/ \E phase \in {"issue", "revoke", "forget"} : Goes(q, phase)
        BY <2>1, <3>4 DEF IssueForget, ResolveBanned, WriteFails, Serve, Logout, RevokeOwn, RevokeOthers, Revoke,
           SetUserPassword, RevokeAll, IssueCreate, RevokeByID
      <4>2. PICK r : req' = [req EXCEPT ![q] = r] /\ r.phase \in {"done", "failed", "issue", "revoke", "forget"}
        <5>1. CASE Ends(q)
          <6>1. Blank("done").phase = "done" BY DEF Blank
          <6> QED BY <5>1, <6>1 DEF Ends
        <5>2. CASE Fails(q)
          <6>1. [req[q] EXCEPT !.phase = "failed", !.token = None].phase = "failed" BY <1>0 DEF Request
          <6> QED BY <5>2, <6>1 DEF Fails
        <5>3. ASSUME NEW phase \in {"issue", "revoke", "forget"}, Goes(q, phase)
              PROVE  \E r : req' = [req EXCEPT ![q] = r] /\ r.phase = phase
          <6>1. [req[q] EXCEPT !.phase = phase].phase = phase BY <1>0 DEF Request
          <6> QED BY <5>3, <6>1 DEF Goes
        <5> QED BY <4>1, <5>1, <5>2, <5>3
      <4>3. ~OnTheWay(q)' BY <1>1, <4>2 DEF OnTheWay
      <4> QED BY <1>2, <3>1, <3>2, <4>2, <4>3
    <3> QED BY <3>3, <3>4
  <2>2. CASE Handshake(q)
    <3>1. req' = [req EXCEPT ![q] = Blank("done")] /\ UNCHANGED banned /\ OnTheWay(q) /\ ~Pending(q)
      BY <2>2 DEF Handshake, Ends, user, Runs, OnTheWay, Pending
    <3>2. slips' = IF q \in slips THEN slips \cup {None} ELSE slips \ {None} BY <2>2 DEF Handshake
    <3>3. req'[q].phase = "done" /\ \A p \in Reqs \ {q} : req'[p] = req[p] BY <1>0, <3>1 DEF Blank
    <3> SUFFICES ASSUME banned, \A p \in Reqs : ~Pending(p)'
                 PROVE  None \in slips' /\ \A p \in Reqs : OnTheWay(p)' => p \in slips'
      BY <3>1 DEF KeptOut
    <3>4. \A p \in Reqs : ~Pending(p) BY <3>1, <3>3 DEF Pending
    <3>5. \A p \in Reqs : OnTheWay(p) => p \in slips BY <3>4 DEF KeptOut
    <3>6. \A p \in Reqs : OnTheWay(p)' => OnTheWay(p) BY <3>1, <3>3 DEF OnTheWay
    <3> QED BY <1>0, <3>1, <3>2, <3>5, <3>6
  <2>3. CASE BanUser(q) \/ BanRevoke(q)
    <3>1. Goes(q, "revoke") \/ Goes(q, "kick") \/ Fails(q) BY <2>3 DEF BanUser, BanRevoke
    <3>2. req[q].op = "ban" BY <2>3 DEF BanUser, BanRevoke
    <3>3. req'[q].phase \in {"revoke", "kick", "failed"} /\ req'[q].op = "ban"
      <4>1. CASE Fails(q) BY <1>0, <3>2, <4>1 DEF Fails, Request
      <4>2. CASE Goes(q, "revoke") \/ Goes(q, "kick") BY <1>0, <3>2, <4>2 DEF Goes, Request
      <4> QED BY <3>1, <4>1, <4>2
    <3> QED BY <1>3, <3>3 DEF Pending
  <2>4. CASE KickEverywhere(q)
    <3>1. req' = [req EXCEPT ![q] = Blank("done")] BY <2>4 DEF KickEverywhere, Ends
    <3>2. \A p \in Reqs : OnTheWay(p)' => OnTheWay(p) BY <1>1, <3>1 DEF OnTheWay, Blank
    <3>3. conn' \in {"checked", "open"} => conn = "checked" BY <2>4 DEF KickEverywhere
    <3> QED BY <2>4, <3>2, <3>3 DEF KickEverywhere, KeptOut
  <2> QED BY <1>7, <2>1, <2>2, <2>3, <2>4 DEF Step
<1>8. CASE Join \/ Disconnect \/ Drop \/ UNCHANGED vars \/ DeleteExpiredSessions
           \/ \E t \in Tokens : Expire(t)
  <2>1. UNCHANGED <<req, banned, slips>> /\ (conn' \in {"checked", "open"} => conn \in {"checked", "open"})
    BY <1>8 DEF Join, Disconnect, Drop, vars, user, DeleteExpiredSessions, Expire
  <2> QED BY <2>1 DEF KeptOut, Pending, OnTheWay
<1> QED BY <1>4, <1>5, <1>6, <1>7, <1>8 DEF Next

\* AccountsInv is inductive.
LEMMA AccountsStep == AccountsInv /\ [Next]_vars => AccountsInv'
<1> SUFFICES ASSUME AccountsInv, [Next]_vars PROVE AccountsInv' OBVIOUS
<1>0. RowTypes BY DEF AccountsInv
<1>1. RowTypes' BY <1>0, RequestSteps, SessionRows DEF RowTypes
<1>2. OldRowsOut'
  <2>1. CASE AllDeleted BY <1>0, <2>1, DeletedRows DEF AllDeleted, OldRowsOut
  <2>2. CASE \E q \in Reqs : Owing(q)' BY <2>2 DEF OldRowsOut
  <2>3. CASE UNCHANGED password /\ StillOwed
    <3> SUFFICES ASSUME NEW t \in Tokens, session'[t].state \in {"live", "expired"},
                        session'[t].born < password
                 PROVE  \E q \in Reqs : Owing(q)'
      BY <2>3 DEF OldRowsOut
    <3>1. session[t].state \in {"live", "expired"} /\ session[t].born < password
      BY <1>0, SessionRows DEF RowTypes
    <3> QED BY <2>3, <3>1 DEF AccountsInv, OldRowsOut, StillOwed
  <2> QED BY <1>0, <2>1, <2>2, <2>3, RequestSteps
<1>3. KeptOut' BY <1>0, KeptOutStep DEF AccountsInv
<1> QED BY <1>1, <1>2, <1>3 DEF AccountsInv

\* The invariant of every reachable state.
THEOREM AccountsInvariant == Spec => []AccountsInv
  BY AccountsInit, AccountsStep, PTL DEF Spec

\* Who is signed in with a session older than the password owes it to a
\* password change that is not over or was told of an error.
THEOREM PasswordSignsOut == Spec => []OldSessionsOut
<1>1. AccountsInv => OldSessionsOut BY DEF AccountsInv, OldRowsOut, OldSessionsOut, Owing
<1> QED BY <1>1, AccountsInvariant, PTL

\* A session that was signed out never comes back, whatever request still
\* writes its sliding expiry.
THEOREM SignedOutForGood == Spec => RevokedForGood
<1>1. AccountsInv /\ [Next]_vars =>
        [\A t \in Tokens : session[t].state = "gone" => session'[t].state = "gone"]_vars
  BY SessionRows DEF AccountsInv
<1> QED BY <1>1, AccountsInvariant, PTL DEF Spec, RevokedForGood

\* While an account is banned and no ban is under way or was cut off, its
\* connection is one that was on the way in when the rooms were told.
THEOREM BannedStayOut == Spec => []BanKeepsOut
<1>1. AccountsInv => BanKeepsOut BY DEF AccountsInv, KeptOut, BanKeepsOut, Pending
<1> QED BY <1>1, AccountsInvariant, PTL
=============================================================================
