------------------------------ MODULE Library -------------------------------
(***************************************************************************)
(* What the media pipeline promises to a viewer: each media has a status   *)
(* and serves at most one package.  A package is published whole, with a   *)
(* name no media serves yet, and once a media serves a package it always   *)
(* serves one: neither an ingest that fails, crashes or is run twice nor   *)
(* the cleaner of abandoned packages takes it away or breaks it.  Without  *)
(* retries a media that is ready stays ready, with one exception: its      *)
(* publisher may not hear that the publication went through, and may then  *)
(* mark the media it just published failed.  Jobs, leases, attempts and    *)
(* the object store do not appear; the module Ingest is shown to implement *)
(* this one.                                                               *)
(***************************************************************************)
CONSTANTS
    Media,
    Packages,
    NoPackage,
    Retries     \* some room may ask for a retry

VARIABLES
    status,     \* what the rooms are shown; "unheard" shows as ready
    package     \* what GET /media/{id}/... serves

vars == <<status, package>>

Init ==
    /\ status = [m \in Media |-> "none"]
    /\ package = [m \in Media |-> NoPackage]

\* The status moves, and the package stays.  Only a retry, which trusts a
\* room's copy of the row, moves a published media back.
Moves(m, from, to) ==
    /\ status[m] \in from \cup (IF Retries THEN {"unheard", "ready"} ELSE {})
    /\ status' = [status EXCEPT ![m] = to]
    /\ UNCHANGED package

Admit(m) == status[m] = "none" /\ status' = [status EXCEPT ![m] = "pending"] /\ UNCHANGED package
Work(m) == Moves(m, {"pending", "failed"}, "pending")
Fail(m) == Moves(m, {"pending", "failed", "unheard"}, "failed")

\* The publisher may or may not hear that its publication went through.
Publish(m, p) ==
    /\ status[m] # "none"
    /\ Retries \/ status[m] = "pending"
    /\ \A n \in Media : package[n] # p
    /\ \E s \in {"ready", "unheard"} : status' = [status EXCEPT ![m] = s]
    /\ package' = [package EXCEPT ![m] = p]

\* The publisher is gone, or can no longer mark the media failed.
Settle(m) ==
    /\ status[m] = "unheard"
    /\ status' = [status EXCEPT ![m] = "ready"]
    /\ UNCHANGED package

Next == \E m \in Media : Admit(m) \/ Work(m) \/ Fail(m) \/ Settle(m)
                            \/ \E p \in Packages : Publish(m, p)

Spec == Init /\ [][Next]_vars

=============================================================================
