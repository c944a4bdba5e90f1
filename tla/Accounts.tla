------------------------------ MODULE Accounts ------------------------------
(***************************************************************************)
(* One account: its password, its role and its site ban, the sessions it   *)
(* is signed in with (internal/auth), and a WebSocket connection it opens. *)
(* A request resolves its session and then does what it came for, one      *)
(* statement of the database at a time; the requests in flight interleave  *)
(* with the account's own, with an administrator's and with time.          *)
(*                                                                         *)
(* A session is known by its token.  What is stored is the hash of the     *)
(* token; born is the password the account had when the row was made.      *)
(***************************************************************************)
EXTENDS Naturals, FiniteSets

CONSTANTS
    MaxTokens,   \* bound on the sessions issued
    MaxRequests  \* bound on the requests made

ASSUME AccountsAssumption == MaxTokens \in Nat \ {0} /\ MaxRequests \in Nat

VARIABLES
    password,  \* users.password_hash: the how manieth
    admin,     \* users.role
    banned,    \* users.banned_at
    session,   \* sessions
    req,       \* the requests, numbered as they come in
    conn,      \* the account's WebSocket connection
    slips      \* who was on the way in when the rooms were last told to close
               \* the connections: requests, and None for the connection

user == <<password, admin, banned>>
vars == <<user, session, req, conn, slips>>

-----------------------------------------------------------------------------
Reqs == 1..MaxRequests

\* Tokens are random and never used twice: they are numbered as issued.
Tokens == 1..MaxTokens
None == 0

\* What a request with a session is for: any handler, logging out, signing
\* one other or all other devices out, a new password, a WebSocket.
OwnOps == {"serve", "logout", "one", "others", "password", "ws"}
Ops == OwnOps \cup {"login", "ban", "unban"}

\* forget, issue: the two statements of Issue; purge: a banned account's
\* sessions; write, revoke, kick: the statements of a password change and a
\* ban; failed: ended with an error after its first write
ReqPhase == {"new", "purge", "touch", "run", "write", "revoke", "kick", "forget", "issue", "done", "failed"}
Request == [phase: ReqPhase, op: Ops \cup {"none"}, token: Tokens \cup {None}]

Passwords == 1..(MaxRequests + 1)
Session == [state: {"unused", "live", "expired", "gone"}, born: Passwords]

TypeOK ==
    /\ password \in Passwords
    /\ admin \in BOOLEAN
    /\ banned \in BOOLEAN
    /\ session \in [Tokens -> Session]
    /\ req \in [Reqs -> Request]
    /\ conn \in {"off", "checked", "open", "closing"}
    /\ slips \subseteq Reqs \cup {None}

Unused == [state |-> "unused", born |-> 1]
Blank(phase) == [phase |-> phase, op |-> "none", token |-> None]

\* CreateUser: the columns not given have their defaults.
NewAccount == password = 1 /\ admin = FALSE /\ banned = FALSE

\* The account has registered, which signs it in.
Init ==
    /\ NewAccount
    /\ session = [t \in Tokens |-> IF t = 1 THEN [state |-> "live", born |-> 1] ELSE Unused]
    /\ req = [q \in Reqs |-> Blank("new")]
    /\ conn = "off" /\ slips = {}

-----------------------------------------------------------------------------
ComesIn(q) == req[q].phase = "new" /\ (q > 1 => req[q - 1].phase # "new")
Goes(q, phase) == req' = [req EXCEPT ![q].phase = phase]
Fails(q) == req' = [req EXCEPT ![q] = [@ EXCEPT !.phase = "failed", !.token = None]]
Ends(q) == req' = [req EXCEPT ![q] = Blank("done")]

\* DELETE FROM sessions, of the given tokens.
Deleted(T) == [t \in Tokens |-> IF t \in T /\ session[t].state \in {"live", "expired"}
                                  THEN [session[t] EXCEPT !.state = "gone"] ELSE session[t]]

-----------------------------------------------------------------------------
(***************************************************************************)
(* Signing in                                                              *)
(***************************************************************************)

\* handleLogin reads the user and verifies password and ban; the request may
\* carry the cookie of an earlier session.
Login(q, t) ==
    /\ ComesIn(q) /\ ~banned
    /\ t # None => session[t].state # "unused"
    /\ req' = [req EXCEPT ![q] = [phase |-> "forget", op |-> "login", token |-> t]]
    /\ UNCHANGED <<user, session, conn, slips>>

\* Issue deletes the session the request carried, without a look at the
\* error ...
IssueForget(q) ==
    /\ req[q].phase = "forget"
    /\ session' = Deleted({req[q].token}) \/ UNCHANGED session
    /\ Goes(q, "issue")
    /\ UNCHANGED <<user, conn, slips>>

StoreSession(t) == session' = [session EXCEPT ![t] = [state |-> "live", born |-> password]]

\* ... and makes a new one; nothing is asked of the account again.
IssueCreate(q, t) ==
    /\ req[q].phase = "issue" /\ session[t].state = "unused"
    /\ t > 1 => session[t - 1].state # "unused"
    /\ StoreSession(t)
    /\ Ends(q)
    /\ UNCHANGED <<user, conn, slips>>

-----------------------------------------------------------------------------
(***************************************************************************)
(* A request with a session                                                *)
(***************************************************************************)

\* Mutated: a banned account is expected to have no sessions.
Resolve_Trusting(q, op, t) ==
    /\ ComesIn(q) /\ session[t].state = "live"
    /\ req' = [req EXCEPT ![q] = [phase |-> "touch", op |-> op, token |-> t]]
    /\ UNCHANGED <<user, session, conn, slips>>

\* Resolve reads the session and its user in one statement.
Resolve(q, op, t) ==
    /\ ComesIn(q) /\ session[t].state = "live"
    /\ req' = [req EXCEPT ![q] = [phase |-> IF banned THEN "purge" ELSE "touch", op |-> op, token |-> t]]
    /\ UNCHANGED <<user, session, conn, slips>>

\* The sessions of a banned account go, if nothing fails; in any case the
\* request is refused.
ResolveBanned(q) ==
    /\ req[q].phase = "purge"
    /\ session' = Deleted(Tokens) \/ UNCHANGED session
    /\ Ends(q)
    /\ UNCHANGED <<user, conn, slips>>

\* Mutated: the touch inserts the row when it is not there.
Touch_Upsert(q) ==
    /\ req[q].phase = "touch"
    /\ \/ session' = [session EXCEPT ![req[q].token].state = "live"]
       \/ UNCHANGED session
    /\ Goes(q, "run")
    /\ UNCHANGED <<user, conn, slips>>

\* The sliding expiry, if the last one is long enough ago: an UPDATE.
Touch(q) ==
    /\ req[q].phase = "touch"
    /\ \/ /\ session[req[q].token].state \in {"live", "expired"}
          /\ session' = [session EXCEPT ![req[q].token].state = "live"]
       \/ UNCHANGED session
    /\ Goes(q, "run")
    /\ UNCHANGED <<user, conn, slips>>

Runs(q, op) == req[q].phase = "run" /\ req[q].op = op

Serve(q) ==
    /\ Runs(q, "serve")
    /\ Ends(q)
    /\ UNCHANGED <<user, session, conn, slips>>

\* The first write of a request fails: that is the end of it.
WriteFails(q) ==
    /\ req[q].phase \in {"run", "issue", "write"}
    /\ Ends(q)
    /\ UNCHANGED <<user, session, conn, slips>>

Revoke(q, T) ==
    /\ session' = Deleted(T)
    /\ Ends(q)
    /\ UNCHANGED <<user, conn, slips>>

\* Sessions.Revoke: the session the request carries.
RevokeOwn(q) == Revoke(q, {req[q].token})

Logout(q) == Runs(q, "logout") /\ RevokeOwn(q)

\* RevokeByID refuses the request's own session.
RevokeByID(q, t) == Runs(q, "one") /\ t # req[q].token /\ Revoke(q, {t})

RevokeOthers(q) == Runs(q, "others") /\ Revoke(q, Tokens \ {req[q].token})

-----------------------------------------------------------------------------
(***************************************************************************)
(* A new password                                                          *)
(***************************************************************************)

NewHash == password' = password + 1

\* The current password is verified against the hash that Resolve read.  The
\* write may take effect and its answer be lost with the request.
SetUserPassword(q) ==
    /\ Runs(q, "password")
    /\ NewHash
    /\ Goes(q, "revoke") \/ Fails(q)
    /\ UNCHANGED <<admin, banned, session, conn, slips>>

\* Mutated: sessions that have expired are left to the clean-up.
RevokeAll_Unexpired(q) ==
    /\ req[q].phase = "revoke" /\ req[q].op = "password"
    /\ \/ /\ session' = Deleted({t \in Tokens : session[t].state = "live"})
          /\ Goes(q, "forget")
       \/ Fails(q) /\ UNCHANGED session
    /\ UNCHANGED <<user, conn, slips>>

\* Every session goes, the caller's too, or the caller is told of an error.
RevokeAll(q) ==
    /\ req[q].phase = "revoke" /\ req[q].op = "password"
    /\ \/ session' = Deleted(Tokens) /\ Goes(q, "forget")
       \/ Fails(q) /\ UNCHANGED session
    /\ UNCHANGED <<user, conn, slips>>

-----------------------------------------------------------------------------
(***************************************************************************)
(* The WebSocket                                                           *)
(***************************************************************************)

\* The upgrade keeps the User that Resolve read: it is never read again.
Handshake(q) ==
    /\ Runs(q, "ws") /\ conn = "off"
    /\ conn' = "checked"
    /\ slips' = IF q \in slips THEN slips \cup {None} ELSE slips \ {None}
    /\ Ends(q)
    /\ UNCHANGED <<user, session>>

Join ==
    /\ conn = "checked"
    /\ conn' = "open"
    /\ UNCHANGED <<user, session, req, slips>>

\* The client goes, or a connection that was told to closes.
Disconnect ==
    /\ conn \in {"checked", "open"}
    /\ conn' = "off"
    /\ UNCHANGED <<user, session, req, slips>>

Drop ==
    /\ conn = "closing"
    /\ conn' = "off"
    /\ UNCHANGED <<user, session, req, slips>>

-----------------------------------------------------------------------------
(***************************************************************************)
(* Administration                                                          *)
(***************************************************************************)

\* handleAdminBanUser reads the account: administrators cannot be banned.
BanRequest(q) ==
    /\ ComesIn(q) /\ ~admin
    /\ req' = [req EXCEPT ![q] = [phase |-> "write", op |-> "ban", token |-> None]]
    /\ UNCHANGED <<user, session, conn, slips>>

\* When the answer is lost, nothing follows.
BanUser(q) ==
    /\ req[q].phase = "write" /\ req[q].op = "ban"
    /\ banned' = TRUE
    /\ Goes(q, "revoke") \/ Fails(q)
    /\ UNCHANGED <<password, admin, session, conn, slips>>

\* Mutated: an error in between ends the request.
BanRevoke_Returns(q) ==
    /\ req[q].phase = "revoke" /\ req[q].op = "ban"
    /\ \/ session' = Deleted(Tokens) /\ Goes(q, "kick")
       \/ Fails(q) /\ UNCHANGED session
    /\ UNCHANGED <<user, conn, slips>>

\* An error here is logged, and the ban goes on.
BanRevoke(q) ==
    /\ req[q].phase = "revoke" /\ req[q].op = "ban"
    /\ session' = Deleted(Tokens) \/ UNCHANGED session
    /\ Goes(q, "kick")
    /\ UNCHANGED <<user, conn, slips>>

\* Past Resolve, for a WebSocket.
OnTheWay(q) == req[q].phase \in {"touch", "run"} /\ req[q].op = "ws"

\* KickEverywhere closes the connections the rooms know.
KickEverywhere(q) ==
    /\ req[q].phase = "kick"
    /\ conn' = IF conn = "open" THEN "closing" ELSE conn
    /\ slips' = {p \in Reqs : OnTheWay(p)} \cup (IF conn = "checked" THEN {None} ELSE {})
    /\ Ends(q)
    /\ UNCHANGED <<user, session>>

\* The UPDATE clears all three columns of the ban, if there is one or not.
ClearBan == banned' = FALSE

UnbanUser(q) ==
    /\ ComesIn(q)
    /\ ClearBan
    /\ Ends(q)
    /\ UNCHANGED <<password, admin, session, conn, slips>>

\* couchcast admin grant | revoke, from the shell.
SetUserRole(q) ==
    /\ ComesIn(q)
    /\ admin' = ~admin
    /\ Ends(q)
    /\ UNCHANGED <<password, banned, session, conn, slips>>

-----------------------------------------------------------------------------
(***************************************************************************)
(* Time                                                                    *)
(***************************************************************************)
Expire(t) ==
    /\ session[t].state = "live"
    /\ session' = [session EXCEPT ![t].state = "expired"]
    /\ UNCHANGED <<user, req, conn, slips>>

DeleteExpiredSessions ==
    /\ \E t \in Tokens : session[t].state = "expired"
    /\ session' = Deleted({t \in Tokens : session[t].state = "expired"})
    /\ UNCHANGED <<user, req, conn, slips>>

-----------------------------------------------------------------------------
Step(q) ==
    \/ IssueForget(q) \/ ResolveBanned(q) \/ Touch(q)
    \/ WriteFails(q) \/ Serve(q) \/ Logout(q) \/ RevokeOthers(q) \/ Handshake(q)
    \/ SetUserPassword(q) \/ RevokeAll(q)
    \/ BanUser(q) \/ BanRevoke(q) \/ KickEverywhere(q)
    \/ \E t \in Tokens : IssueCreate(q, t) \/ RevokeByID(q, t)

Next ==
    \/ \E q \in Reqs :
         \/ \E t \in Tokens \cup {None} : Login(q, t)
         \/ \E op \in OwnOps, t \in Tokens : Resolve(q, op, t)
         \/ BanRequest(q) \/ UnbanUser(q) \/ SetUserRole(q)
         \/ Step(q)
    \/ Join \/ Disconnect \/ Drop
    \/ \E t \in Tokens : Expire(t)
    \/ DeleteExpiredSessions

Spec == Init /\ [][Next]_vars

\* A request runs to its end, and a connection that was told to close closes.
Fairness ==
    /\ \A q \in Reqs : WF_vars(Step(q))
    /\ WF_vars(Drop)

FairSpec == Spec /\ Fairness

-----------------------------------------------------------------------------
(***************************************************************************)
(* Properties                                                              *)
(***************************************************************************)

\* A session that was signed out stays so: a request that resolved it before
\* and writes its sliding expiry after does not bring it back
\* (sessions.go: TouchSession is an UPDATE).
RevokedForGood ==
    [][\A t \in Tokens : session[t].state = "gone" => session'[t].state = "gone"]_vars

\* An account that is banned has no connection but one that was past its
\* session when the rooms were told to close its connections, whatever
\* sessions a failed clean-up or a racing login left it: what comes later
\* meets the ban.  Unless a ban is not over yet or was cut off with its
\* request (manager.go: "KickEverywhere disconnects a user from every loaded
\* room"; middleware.go: "banned accounts are rejected outright").
BanKeepsOut ==
    banned /\ conn \in {"checked", "open"} =>
        \/ None \in slips
        \/ \E q \in Reqs : req[q].op = "ban" /\ req[q].phase \in {"revoke", "kick", "failed"}

\* A new password signs every device out that was signed in before it, or
\* its caller was told of an error; who else is signed in came in after it
\* (auth.go: "stores the new hash and logs every other device out").
OldSessionsOut ==
    \A t \in Tokens : session[t].state = "live" /\ session[t].born < password =>
        \E q \in Reqs : req[q].op = "password" /\ req[q].phase \in {"revoke", "failed"}

\* A site ban closes the connection the account has open, also when its
\* sessions could not be deleted (manager.go: "KickEverywhere disconnects a
\* user from every loaded room").
BanDisconnects ==
    \A q \in Reqs : (req[q].phase = "revoke" /\ req[q].op = "ban" /\ conn = "open") ~> conn # "open"
=============================================================================
