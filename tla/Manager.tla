------------------------------- MODULE Manager -------------------------------
(***************************************************************************)
(* The manager of live rooms (internal/room/manager.go) for one room id:   *)
(* connections that ask for the room and share one load, the ticker that   *)
(* evicts an idle room, the deletion of the room, and the shutdown of the  *)
(* server.  The manager's mutex and each instance's mutex are taken one at *)
(* a time, so a step is one critical section of either.                    *)
(*                                                                         *)
(* The state of an instance is abstracted to the number of the last change *)
(* its viewers made (version); the room's row holds the version saved.     *)
(* A statement that saves goes through (module Room has the failures).     *)
(***************************************************************************)
EXTENDS Naturals, FiniteSets

CONSTANTS
    Conns,      \* WebSocket requests
    Instances,  \* Room values
    MaxVersion, \* bound on the changes made
    None

ASSUME ManagerAssumption ==
    /\ MaxVersion \in Nat
    /\ None \notin Instances \cup Conns

VARIABLES
    mapped,   \* m.rooms[id]
    load,     \* m.loading[id]: the call that loads and how far it is
    inst,     \* the Room values
    conn,     \* each request: where it is and the Room it holds
    ticker,   \* Run: the room of this pass and what is left to do
    unload,   \* the deletion of the room, then Unload
    row,      \* the room's row: there or not, and the version saved
    version   \* the last change any viewer made

vars == <<mapped, load, inst, conn, ticker, unload, row, version>>

-----------------------------------------------------------------------------
Instance == Instances \cup {None}
LoadPhase == {"none", "begun", "read", "failed"}
TickPhase == {"idle", "listed", "drop", "shutdown", "stopped"}
UnloadPhase == {"idle", "deleted", "close", "done"}
\* waiting: for another call's load; have: between Get and Join
ConnPhase == {"out", "loading", "waiting", "have", "joined"}

Room == [state: {"new", "open", "closed"}, viewers: SUBSET Conns, aged: BOOLEAN,
         version: 0..MaxVersion]

TypeOK ==
    /\ mapped \in Instance
    /\ load \in [phase: LoadPhase, inst: Instance]
    /\ inst \in [Instances -> Room]
    /\ conn \in [Conns -> [phase: ConnPhase, inst: Instance]]
    /\ ticker \in [phase: TickPhase, inst: Instance]
    /\ unload \in [phase: UnloadPhase, inst: Instance]
    /\ row \in [there: BOOLEAN, version: 0..MaxVersion]
    /\ version \in 0..MaxVersion

NoLoad == [phase |-> "none", inst |-> None]
Left == [phase |-> "out", inst |-> None]
Rest(phase) == [phase |-> phase, inst |-> None]

Init ==
    /\ mapped = None
    /\ load = NoLoad
    /\ inst = [i \in Instances |-> [state |-> "new", viewers |-> {}, aged |-> FALSE,
                                    version |-> 0]]
    /\ conn = [c \in Conns |-> Left]
    /\ ticker = Rest("idle")
    /\ unload = Rest("idle")
    /\ row = [there |-> TRUE, version |-> 0]
    /\ version = 0

-----------------------------------------------------------------------------
(***************************************************************************)
(* Get                                                                     *)
(***************************************************************************)

\* Mutated: every call that finds no room starts a load of its own.
Get_Unshared(c) ==
    /\ conn[c].phase = "out"
    /\ \/ /\ mapped # None
          /\ conn' = [conn EXCEPT ![c] = [phase |-> "have", inst |-> mapped]]
          /\ UNCHANGED load
       \/ /\ mapped = None
          /\ conn' = [conn EXCEPT ![c].phase = "loading"]
          /\ load' = [phase |-> "begun", inst |-> None]
    /\ UNCHANGED <<mapped, inst, ticker, unload, row, version>>

\* Get finds the room, or joins the load in flight, or starts one.
Get(c) ==
    /\ conn[c].phase = "out"
    /\ \/ /\ mapped # None
          /\ conn' = [conn EXCEPT ![c] = [phase |-> "have", inst |-> mapped]]
          /\ UNCHANGED load
       \/ /\ mapped = None /\ load.phase # "none"
          /\ conn' = [conn EXCEPT ![c].phase = "waiting"]
          /\ UNCHANGED load
       \/ /\ mapped = None /\ load.phase = "none"
          /\ conn' = [conn EXCEPT ![c].phase = "loading"]
          /\ load' = [phase |-> "begun", inst |-> None]
    /\ UNCHANGED <<mapped, inst, ticker, unload, row, version>>

\* load reads the row, on a context that outlives its caller's; it fails
\* without a row, after ten seconds or with the database.
LoadRead ==
    /\ load.phase = "begun"
    /\ \/ load' = [phase |-> "failed", inst |-> None] /\ UNCHANGED inst
       \/ /\ row.there
          /\ \E i \in Instances :
               /\ inst[i].state = "new"
               /\ load' = [phase |-> "read", inst |-> i]
               /\ inst' = [inst EXCEPT ![i] = [@ EXCEPT !.state = "open", !.version = row.version]]
    /\ UNCHANGED <<mapped, conn, ticker, unload, row, version>>

\* Mutated: a load that failed does not wake those who wait for it.
LoadDone_Silent ==
    /\ load.phase \in {"read", "failed"}
    /\ mapped' = IF load.phase = "read" THEN load.inst ELSE mapped
    /\ conn' = [c \in Conns |->
                  CASE conn[c].phase \notin {"loading", "waiting"} -> conn[c]
                    [] load.phase = "failed" ->
                         IF conn[c].phase = "loading" THEN Left ELSE conn[c]
                    [] OTHER -> [phase |-> "have", inst |-> load.inst]]
    /\ load' = NoLoad
    /\ UNCHANGED <<inst, ticker, unload, row, version>>

\* The entry of the load goes, the room is there, and whoever waited has
\* it or the error.
LoadDone ==
    /\ load.phase \in {"read", "failed"}
    /\ mapped' = IF load.phase = "read" THEN load.inst ELSE mapped
    /\ conn' = [c \in Conns |->
                  CASE conn[c].phase \notin {"loading", "waiting"} -> conn[c]
                    [] load.phase = "failed" -> Left
                    [] OTHER -> [phase |-> "have", inst |-> load.inst]]
    /\ load' = NoLoad
    /\ UNCHANGED <<inst, ticker, unload, row, version>>

\* A waiter's request is cancelled, or the upgrade to WebSocket fails.
GiveUp(c) ==
    /\ conn[c].phase \in {"waiting", "have"}
    /\ conn' = [conn EXCEPT ![c] = Left]
    /\ UNCHANGED <<mapped, load, inst, ticker, unload, row, version>>

-----------------------------------------------------------------------------
(***************************************************************************)
(* The connection                                                          *)
(***************************************************************************)

\* Join does not ask whether the instance is still the manager's.
Join(c) ==
    LET i == conn[c].inst
    IN /\ conn[c].phase = "have"
       /\ conn' = [conn EXCEPT ![c].phase = "joined"]
       /\ inst' = [inst EXCEPT ![i] = [@ EXCEPT !.viewers = inst[i].viewers \cup {c}, !.aged = FALSE]]
       /\ UNCHANGED <<mapped, load, ticker, unload, row, version>>

\* A viewer changes the clock, and the instance saves it.
Command(c) ==
    /\ conn[c].phase = "joined"
    /\ version < MaxVersion
    /\ version' = version + 1
    /\ inst' = [inst EXCEPT ![conn[c].inst].version = version']
    /\ row' = IF row.there THEN [row EXCEPT !.version = version'] ELSE row
    /\ UNCHANGED <<mapped, load, conn, ticker, unload>>

\* The connection ends: by itself, or because the room closed it, and then
\* it is no viewer any more and Leave finds nothing to do.
Leave(c) ==
    LET i == conn[c].inst
    IN /\ conn[c].phase = "joined"
       /\ conn' = [conn EXCEPT ![c] = Left]
       /\ inst' = IF c \in inst[i].viewers
                    THEN [inst EXCEPT ![i] = [@ EXCEPT !.viewers = inst[i].viewers \ {c}, !.aged = FALSE]]
                    ELSE inst
       /\ UNCHANGED <<mapped, load, ticker, unload, row, version>>

-----------------------------------------------------------------------------
(***************************************************************************)
(* The ticker                                                              *)
(***************************************************************************)

\* IdleAfter passes without a viewer coming or going.
Age(i) ==
    /\ inst[i].state = "open" /\ inst[i].viewers = {} /\ ~inst[i].aged
    /\ inst' = [inst EXCEPT ![i].aged = TRUE]
    /\ UNCHANGED <<mapped, load, conn, ticker, unload, row, version>>

TickList ==
    /\ ticker.phase = "idle" /\ mapped # None
    /\ ticker' = [phase |-> "listed", inst |-> mapped]
    /\ UNCHANGED <<mapped, load, inst, conn, unload, row, version>>

\* Tick, under the instance's mutex: empty for long enough?
Tick ==
    /\ ticker.phase = "listed"
    /\ ticker' = IF inst[ticker.inst].viewers = {} /\ inst[ticker.inst].aged
                   THEN [ticker EXCEPT !.phase = "drop"] ELSE Rest("idle")
    /\ UNCHANGED <<mapped, load, inst, conn, unload, row, version>>

\* delete(m.rooms, id), whichever instance that is by now.
TickDelete ==
    /\ ticker.phase = "drop"
    /\ mapped' = None
    /\ ticker' = [ticker EXCEPT !.phase = "shutdown"]
    /\ UNCHANGED <<load, inst, conn, unload, row, version>>

\* An instance closes, with or without putting its viewers out, and saves
\* what it holds.
Closed(i) == [inst EXCEPT ![i].state = "closed"]
Emptied(i) == [inst EXCEPT ![i] = [@ EXCEPT !.state = "closed", !.viewers = {}]]
SavedBy(i) == IF row.there THEN [row EXCEPT !.version = inst[i].version] ELSE row

\* Mutated: the shutdown waits for whoever joined to leave.
TickShutdown_Waits ==
    /\ ticker.phase = "shutdown" /\ inst[ticker.inst].viewers = {}
    /\ inst' = Closed(ticker.inst)
    /\ row' = SavedBy(ticker.inst)
    /\ ticker' = Rest("idle")
    /\ UNCHANGED <<mapped, load, conn, unload, version>>

TickShutdown ==
    /\ ticker.phase = "shutdown"
    /\ inst' = Closed(ticker.inst)
    /\ row' = SavedBy(ticker.inst)
    /\ ticker' = Rest("idle")
    /\ UNCHANGED <<mapped, load, conn, unload, version>>

\* Mutated: the room that was shut down stays in the map.
ShutdownAll_Keeps ==
    /\ ticker.phase = "idle"
    /\ \/ mapped = None /\ UNCHANGED <<inst, row>>
       \/ /\ mapped # None
          /\ inst' = Emptied(mapped)
          /\ row' = SavedBy(mapped)
    /\ ticker' = Rest("stopped")
    /\ UNCHANGED <<mapped, load, conn, unload, version>>

\* The server stops: under the manager's mutex the room closes its viewers,
\* shuts down and is dropped; Run returns.
ShutdownAll ==
    /\ ticker.phase = "idle"
    /\ \/ mapped = None /\ UNCHANGED <<inst, row>>
       \/ /\ mapped # None
          /\ inst' = Emptied(mapped)
          /\ row' = SavedBy(mapped)
    /\ mapped' = None
    /\ ticker' = Rest("stopped")
    /\ UNCHANGED <<load, conn, unload, version>>

-----------------------------------------------------------------------------
(***************************************************************************)
(* Deletion                                                                *)
(***************************************************************************)

\* The handler deletes the row and then unloads the room.
DeleteRoom ==
    /\ unload.phase = "idle"
    /\ row' = [row EXCEPT !.there = FALSE]
    /\ unload' = Rest("deleted")
    /\ UNCHANGED <<mapped, load, inst, conn, ticker, version>>

Unload ==
    /\ unload.phase = "deleted"
    /\ unload' = IF mapped = None THEN Rest("done") ELSE [phase |-> "close", inst |-> mapped]
    /\ mapped' = None
    /\ UNCHANGED <<load, inst, conn, ticker, row, version>>

UnloadClose ==
    /\ unload.phase = "close"
    /\ inst' = Emptied(unload.inst)
    /\ unload' = Rest("done")
    /\ UNCHANGED <<mapped, load, conn, ticker, row, version>>

-----------------------------------------------------------------------------
Next ==
    \/ \E c \in Conns : Get(c) \/ GiveUp(c) \/ Join(c) \/ Command(c) \/ Leave(c)
    \/ LoadRead \/ LoadDone
    \/ \E i \in Instances : Age(i)
    \/ TickList \/ Tick \/ TickDelete \/ TickShutdown \/ ShutdownAll
    \/ DeleteRoom \/ Unload \/ UnloadClose

Spec == Init /\ [][Next]_vars

\* The load runs to its end whatever becomes of the caller, and the ticker
\* and the deletion finish what they began.
Fairness ==
    /\ WF_vars(LoadRead) /\ WF_vars(LoadDone)
    /\ WF_vars(Tick) /\ WF_vars(TickDelete) /\ WF_vars(TickShutdown)
    /\ WF_vars(Unload) /\ WF_vars(UnloadClose)

FairSpec == Spec /\ Fairness

-----------------------------------------------------------------------------
(***************************************************************************)
(* Properties                                                              *)
(***************************************************************************)

\* What the manager hands out is open: an instance leaves the map before it
\* is closed, by whichever of eviction, deletion and shutdown gets there
\* first (room.go: closed "is set when the manager drops the room").
MappedOpen == mapped # None => inst[mapped].state = "open"

\* An instance somebody may act on through its timers is the manager's, or
\* its load is about to register it, or it is on its way out: concurrent
\* first requests never make two of it (manager.go: "concurrent first
\* requests share one load and get the same instance").
Accounted ==
    \A i \in Instances : inst[i].state = "open" =>
        \/ i = mapped
        \/ load.phase = "read" /\ i = load.inst
        \/ ticker.phase = "shutdown" /\ i = ticker.inst
        \/ unload.phase = "close" /\ i = unload.inst

\* A request for the room is answered, also when the call that loads it was
\* given up or the load failed.
GetReturns == \A c \in Conns : conn[c].phase \in {"loading", "waiting"}
                                  ~> conn[c].phase \notin {"loading", "waiting"}

\* An instance that left the map is closed in the end, so that its timers
\* stop (timers.go: "closeLocked marks the room closed and stops them all").
DroppedCloses == \A i \in Instances :
    (inst[i].state = "open" /\ mapped # i /\ load.inst # i) ~> inst[i].state = "closed"

-----------------------------------------------------------------------------
(***************************************************************************)
(* Why MappedOpen and Accounted hold: who may hold which instance          *)
(***************************************************************************)

\* A load is in flight only while nothing is mapped, and what it has read
\* is open.
LoadInv ==
    /\ load.phase # "none" => mapped = None
    /\ load.phase = "read" => load.inst \in Instances /\ inst[load.inst].state = "open"

\* What the ticker is about to drop is what is mapped, or the room was
\* deleted in between, and then nothing can be loaded any more.
TickerInv ==
    /\ ticker.phase \in {"listed", "drop"} =>
         \/ mapped # None /\ mapped = ticker.inst
         \/ mapped = None /\ ~row.there /\ load.phase # "read"
    /\ ticker.phase \in {"listed", "drop", "shutdown"} =>
         ticker.inst \in Instances /\ inst[ticker.inst].state # "new"
    /\ ticker.phase = "shutdown" =>
         ticker.inst # mapped /\ (load.phase = "read" => ticker.inst # load.inst)

\* A room that is being closed after its deletion has no successor.
UnloadInv ==
    /\ unload.phase \in {"deleted", "close"} => ~row.there
    /\ unload.phase = "close" =>
         unload.inst \in Instances /\ mapped = None /\ load.phase # "read"

\* A request that got through Get holds an instance.
ConnInv == \A c \in Conns : conn[c].phase \in {"have", "joined"} => conn[c].inst \in Instances

ManagerInv == TypeOK /\ ConnInv /\ MappedOpen /\ Accounted /\ LoadInv /\ TickerInv /\ UnloadInv
==============================================================================
