---------------------------- MODULE ManagerProofs ----------------------------
(***************************************************************************)
(* The manager hands out open rooms only and makes no second one by        *)
(* itself, for every number of connections and instances: ManagerInv is    *)
(* inductive.                                                              *)
(***************************************************************************)
EXTENDS Manager, TLAPS

\* The invariant holds before the first request.
LEMMA ManagerInit == Init => ManagerInv
  BY ManagerAssumption
  DEF Init, ManagerInv, TypeOK, ConnInv, MappedOpen, Accounted, LoadInv, TickerInv, UnloadInv,
      Instance, LoadPhase, TickPhase, UnloadPhase, ConnPhase, NoLoad, Left, Rest, Room

\* A record of the right type put in the place of another.
LEMMA Updated ==
    ASSUME TypeOK, NEW i, NEW r \in Room
    PROVE  [inst EXCEPT ![i] = r] \in [Instances -> Room]
  BY DEF TypeOK

\* The fields of a Room, one change at a time.
LEMMA RoomFields ==
    ASSUME NEW r \in Room
    PROVE  /\ \A v \in SUBSET Conns, a \in BOOLEAN : [r EXCEPT !.viewers = v, !.aged = a] \in Room
           /\ \A n \in 0..MaxVersion : [r EXCEPT !.version = n] \in Room
           /\ \A n \in 0..MaxVersion : [r EXCEPT !.state = "open", !.version = n] \in Room
           /\ [r EXCEPT !.aged = TRUE] \in Room
           /\ [r EXCEPT !.state = "closed"] \in Room
           /\ [r EXCEPT !.state = "closed", !.viewers = {}] \in Room
           /\ r.viewers \in SUBSET Conns /\ r.version \in 0..MaxVersion
  BY DEF Room

\* Types, and what a request holds, are kept by the connections.
LEMMA TypeConn ==
    ASSUME ManagerInv, NEW c \in Conns,
           Get(c) \/ GiveUp(c) \/ Join(c) \/ Command(c) \/ Leave(c)
    PROVE  TypeOK' /\ ConnInv'
<1> USE ManagerAssumption
    DEF Instance, LoadPhase, TickPhase, UnloadPhase, ConnPhase, Left, ManagerInv
<1>0. \A i \in Instances : inst[i] \in Room BY DEF TypeOK
<1>1. CASE Get(c) BY <1>1 DEF TypeOK, Get, ConnInv
<1>2. CASE GiveUp(c) BY <1>2 DEF TypeOK, GiveUp, ConnInv
<1>3. CASE Join(c)
  <2>1. inst' \in [Instances -> Room]
    <3> DEFINE i == conn[c].inst
    <3>1. i \in Instances BY <1>3 DEF Join, ConnInv
    <3>2. inst[i].viewers \cup {c} \in SUBSET Conns BY <1>0, <3>1, RoomFields
    <3>3. [inst[i] EXCEPT !.viewers = inst[i].viewers \cup {c}, !.aged = FALSE] \in Room
      BY <1>0, <3>1, <3>2, RoomFields
    <3>4. inst' = [inst EXCEPT ![i] =
                     [inst[i] EXCEPT !.viewers = inst[i].viewers \cup {c}, !.aged = FALSE]]
      BY <1>3 DEF Join
    <3> HIDE DEF i
    <3> QED BY <3>3, <3>4, Updated
  <2>2. conn' \in [Conns -> [phase: ConnPhase, inst: Instance]] BY <1>3 DEF TypeOK, Join
  <2>3. ConnInv' BY <1>3 DEF ConnInv, Join, TypeOK
  <2> QED BY <1>3, <2>1, <2>2, <2>3 DEF TypeOK, Join
<1>4. CASE Command(c)
  <2>1. version' \in 0..MaxVersion BY <1>4 DEF TypeOK, Command
  <2>2. inst' \in [Instances -> Room]
    <3> DEFINE i == conn[c].inst
    <3>1. i \in Instances BY <1>4 DEF Command, ConnInv
    <3>2. [inst[i] EXCEPT !.version = version'] \in Room BY <1>0, <2>1, <3>1, RoomFields
    <3>3. inst' = [inst EXCEPT ![i] = [inst[i] EXCEPT !.version = version']]
      BY <1>4 DEF Command
    <3> HIDE DEF i
    <3> QED BY <3>2, <3>3, Updated
  <2>3. row' \in [there: BOOLEAN, version: 0..MaxVersion]
    BY <1>4, <2>1 DEF TypeOK, Command
  <2>4. ConnInv' BY <1>4 DEF ConnInv, Command
  <2> QED BY <1>4, <2>1, <2>2, <2>3, <2>4 DEF TypeOK, Command
<1>5. CASE Leave(c)
  <2>1. inst' \in [Instances -> Room]
    <3> DEFINE i == conn[c].inst
    <3>1. i \in Instances BY <1>5 DEF Leave, ConnInv
    <3>2. inst[i].viewers \ {c} \in SUBSET Conns BY <1>0, <3>1, RoomFields
    <3>3. [inst[i] EXCEPT !.viewers = inst[i].viewers \ {c}, !.aged = FALSE] \in Room
      BY <1>0, <3>1, <3>2, RoomFields
    <3>4. \/ inst' = [inst EXCEPT ![i] =
                       [inst[i] EXCEPT !.viewers = inst[i].viewers \ {c}, !.aged = FALSE]]
          \/ inst' = inst
      BY <1>5 DEF Leave
    <3> HIDE DEF i
    <3> QED BY <3>3, <3>4, Updated DEF TypeOK
  <2>2. conn' \in [Conns -> [phase: ConnPhase, inst: Instance]] BY <1>5 DEF TypeOK, Leave
  <2>3. ConnInv' BY <1>5 DEF ConnInv, Leave, TypeOK
  <2> QED BY <1>5, <2>1, <2>2, <2>3 DEF TypeOK, Leave
<1> QED BY <1>1, <1>2, <1>3, <1>4, <1>5

\* Types are kept by the load, the ticker and the deletion.
LEMMA TypeServer ==
    ASSUME ManagerInv,
           \/ LoadRead \/ LoadDone \/ \E i \in Instances : Age(i)
           \/ TickList \/ Tick \/ TickDelete \/ TickShutdown \/ ShutdownAll
           \/ DeleteRoom \/ Unload \/ UnloadClose
    PROVE  TypeOK' /\ ConnInv'
<1> USE ManagerAssumption
    DEF Instance, LoadPhase, TickPhase, UnloadPhase, ConnPhase, Left, Rest, NoLoad, ManagerInv
<1>0. \A i \in Instances : inst[i] \in Room BY DEF TypeOK
<1>1. CASE LoadRead
  <2>1. inst' \in [Instances -> Room]
    <3>1. ASSUME NEW i \in Instances,
                 inst' = [inst EXCEPT ![i] = [@ EXCEPT !.state = "open", !.version = row.version]]
          PROVE  inst' \in [Instances -> Room]
      <4>1. row.version \in 0..MaxVersion BY DEF TypeOK
      <4>2. [inst[i] EXCEPT !.state = "open", !.version = row.version] \in Room
        BY <1>0, <4>1, RoomFields
      <4> QED BY <3>1, <4>2, Updated
    <3> QED BY <1>1, <3>1 DEF LoadRead, TypeOK
  <2>2. load' = [phase |-> "failed", inst |-> None]
        \/ \E i \in Instances : load' = [phase |-> "read", inst |-> i]
    BY <1>1 DEF LoadRead
  <2>3. load' \in [phase: LoadPhase, inst: Instance] BY <2>2
  <2> QED BY <1>1, <2>1, <2>3 DEF LoadRead, TypeOK, ConnInv
<1>2. CASE LoadDone
  <2>1. \A c \in Conns :
          \/ conn'[c] = conn[c]
          \/ conn'[c] = [phase |-> "out", inst |-> None]
          \/ load.phase = "read" /\ conn'[c] = [phase |-> "have", inst |-> load.inst]
    BY <1>2 DEF LoadDone
  <2>2. load.phase = "read" => load.inst \in Instances BY DEF LoadInv
  <2>3. conn' = [c \in Conns |-> conn'[c]] BY <1>2 DEF LoadDone
  <2>4. \A c \in Conns : conn'[c] \in [phase: ConnPhase, inst: Instance]
    BY <2>1, <2>2 DEF TypeOK
  <2>5. conn' \in [Conns -> [phase: ConnPhase, inst: Instance]] BY <2>3, <2>4
  <2>6. ConnInv' BY <2>1, <2>2 DEF ConnInv
  <2>7. mapped' \in Instance BY <1>2, <2>2 DEF LoadDone, TypeOK
  <2> QED BY <1>2, <2>5, <2>6, <2>7 DEF LoadDone, TypeOK
<1>3. CASE \E i \in Instances : Age(i)
  <2>1. PICK i \in Instances : Age(i) BY <1>3
  <2>2. [inst[i] EXCEPT !.aged = TRUE] \in Room BY <1>0, RoomFields
  <2>3. inst' \in [Instances -> Room] BY <2>1, <2>2, Updated DEF Age
  <2> QED BY <2>1, <2>3 DEF Age, TypeOK, ConnInv
<1>4. CASE TickList BY <1>4 DEF TickList, TypeOK, ConnInv
<1>5. CASE Tick
  <2>1. ticker' \in [phase: TickPhase, inst: Instance] BY <1>5 DEF Tick, TypeOK
  <2> QED BY <1>5, <2>1 DEF Tick, TypeOK, ConnInv
<1>6. CASE TickDelete
  <2>1. ticker' \in [phase: TickPhase, inst: Instance] BY <1>6 DEF TickDelete, TypeOK
  <2> QED BY <1>6, <2>1 DEF TickDelete, TypeOK, ConnInv
<1>7. CASE TickShutdown
  <2>1. ticker.inst \in Instances BY <1>7 DEF TickShutdown, TickerInv
  <2>2. [inst[ticker.inst] EXCEPT !.state = "closed"] \in Room BY <1>0, <2>1, RoomFields
  <2>3. inst' \in [Instances -> Room] BY <1>7, <2>2, Updated DEF TickShutdown, Closed
  <2>4. inst[ticker.inst].version \in 0..MaxVersion BY <1>0, <2>1, RoomFields
  <2>5. row' \in [there: BOOLEAN, version: 0..MaxVersion]
    BY <1>7, <2>4 DEF TickShutdown, SavedBy, TypeOK
  <2> QED BY <1>7, <2>3, <2>5 DEF TickShutdown, TypeOK, ConnInv
<1>8. CASE ShutdownAll
  <2>1. ASSUME mapped # None
        PROVE  Emptied(mapped) \in [Instances -> Room]
               /\ SavedBy(mapped) \in [there: BOOLEAN, version: 0..MaxVersion]
    <3>1. mapped \in Instances BY <2>1 DEF TypeOK
    <3>2. [inst[mapped] EXCEPT !.state = "closed", !.viewers = {}] \in Room
      BY <1>0, <3>1, RoomFields
    <3>3. inst[mapped].version \in 0..MaxVersion BY <1>0, <3>1, RoomFields
    <3>4. Emptied(mapped) \in [Instances -> Room] BY <3>2, Updated DEF Emptied
    <3> QED BY <3>3, <3>4 DEF SavedBy, TypeOK
  <2> QED BY <1>8, <2>1 DEF ShutdownAll, TypeOK, ConnInv
<1>9. CASE DeleteRoom
  <2>1. row' \in [there: BOOLEAN, version: 0..MaxVersion] BY <1>9 DEF DeleteRoom, TypeOK
  <2> QED BY <1>9, <2>1 DEF DeleteRoom, TypeOK, ConnInv
<1>10. CASE Unload BY <1>10 DEF Unload, TypeOK, ConnInv
<1>11. CASE UnloadClose
  <2>1. unload.inst \in Instances BY <1>11 DEF UnloadClose, UnloadInv
  <2>2. [inst[unload.inst] EXCEPT !.state = "closed", !.viewers = {}] \in Room
    BY <1>0, <2>1, RoomFields
  <2>3. inst' \in [Instances -> Room] BY <1>11, <2>2, Updated DEF UnloadClose, Emptied
  <2> QED BY <1>11, <2>3 DEF UnloadClose, TypeOK, ConnInv
<1> QED BY <1>1, <1>2, <1>3, <1>4, <1>5, <1>6, <1>7, <1>8, <1>9, <1>10, <1>11

\* The parts of the invariant besides the types.
Parts == MappedOpen /\ Accounted /\ LoadInv /\ TickerInv /\ UnloadInv

\* A step that changes neither the map, nor the load, the ticker, the
\* deletion and the row's presence, nor the state of an instance.
LEMMA PartsFramed ==
    ASSUME Parts, mapped' = mapped, load' = load, ticker' = ticker, unload' = unload,
           row'.there = row.there, \A i \in Instances : inst'[i].state = inst[i].state,
           mapped \in Instance
    PROVE  Parts'
  BY DEF Parts, MappedOpen, Accounted, LoadInv, TickerInv, UnloadInv, Instance

\* The connections keep the other parts.
LEMMA PartsConn ==
    ASSUME ManagerInv, NEW c \in Conns,
           Get(c) \/ GiveUp(c) \/ Join(c) \/ Command(c) \/ Leave(c)
    PROVE  Parts'
<1> USE ManagerAssumption DEF ManagerInv
<1>0. Parts /\ mapped \in Instance BY DEF Parts, TypeOK
<1>1. CASE Get(c)
  BY <1>1 DEF Get, Parts, MappedOpen, Accounted, LoadInv, TickerInv, UnloadInv, TypeOK, Instance
<1>2. CASE GiveUp(c) BY <1>0, <1>2, PartsFramed DEF GiveUp
<1>3. CASE Join(c)
  <2>1. \A i \in Instances : inst'[i].state = inst[i].state BY <1>3 DEF Join, TypeOK, Room
  <2> QED BY <1>0, <1>3, <2>1, PartsFramed DEF Join
<1>4. CASE Command(c)
  <2>1. \A i \in Instances : inst'[i].state = inst[i].state BY <1>4 DEF Command, TypeOK, Room
  <2>2. row'.there = row.there BY <1>4 DEF Command, TypeOK, Room
  <2> QED BY <1>0, <1>4, <2>1, <2>2, PartsFramed DEF Command
<1>5. CASE Leave(c)
  <2>1. \A i \in Instances : inst'[i].state = inst[i].state BY <1>5 DEF Leave, TypeOK, Room
  <2> QED BY <1>0, <1>5, <2>1, PartsFramed DEF Leave
<1> QED BY <1>1, <1>2, <1>3, <1>4, <1>5

\* The load, the ticker and the deletion hand an instance over one by one.
LEMMA PartsServer ==
    ASSUME ManagerInv,
           \/ LoadRead \/ LoadDone \/ \E i \in Instances : Age(i)
           \/ TickList \/ Tick \/ TickDelete \/ TickShutdown \/ ShutdownAll
           \/ DeleteRoom \/ Unload \/ UnloadClose
    PROVE  Parts'
<1> USE ManagerAssumption DEF ManagerInv
<1>0. Parts /\ mapped \in Instance BY DEF Parts, TypeOK
<1>a. \A i \in Instances : inst[i].state \in {"new", "open", "closed"} BY DEF TypeOK, Room
<1> USE DEF MappedOpen, Accounted, LoadInv, TickerInv, UnloadInv, Parts, Instance, Rest, NoLoad
<1>1. CASE LoadRead
  <2>1. CASE load' = [phase |-> "failed", inst |-> None] /\ UNCHANGED inst
    BY <1>0, <1>1, <2>1 DEF LoadRead
  <2>2. ASSUME row.there, NEW i \in Instances, inst[i].state = "new",
               load' = [phase |-> "read", inst |-> i],
               inst' = [inst EXCEPT ![i] = [@ EXCEPT !.state = "open", !.version = row.version]]
        PROVE  Parts'
    <3>1. inst'[i].state = "open" BY <2>2 DEF TypeOK, Room
    <3>2. \A k \in Instances : k # i => inst'[k].state = inst[k].state BY <2>2 DEF TypeOK, Room
    <3>3. mapped = None /\ load.phase = "begun" BY <1>1 DEF LoadRead
    <3>4. UNCHANGED <<mapped, ticker, unload, row>> BY <1>1 DEF LoadRead
    <3>5. load'.phase = "read" /\ load'.inst = i BY <2>2
    <3>6. MappedOpen' /\ LoadInv' BY <3>1, <3>3, <3>4, <3>5
    <3>7. Accounted' BY <3>1, <3>2, <3>3, <3>4, <3>5
    <3>8. TickerInv' BY <2>2, <3>1, <3>2, <3>3, <3>4, <3>5
    <3>9. UnloadInv' BY <2>2, <3>3, <3>4
    <3> QED BY <3>6, <3>7, <3>8, <3>9
  <2> QED BY <1>1, <2>1, <2>2 DEF LoadRead
<1>2. CASE LoadDone BY <1>0, <1>2 DEF LoadDone
<1>3. CASE \E i \in Instances : Age(i)
  <2>1. \A k \in Instances : inst'[k].state = inst[k].state BY <1>3 DEF Age, TypeOK, Room
  <2> QED BY <1>0, <1>3, <2>1, PartsFramed DEF Age
<1>4. CASE TickList BY <1>0, <1>4 DEF TickList
<1>5. CASE Tick BY <1>0, <1>5 DEF Tick, TypeOK
<1>6. CASE TickDelete
  <2>1. ticker'.phase = "shutdown" /\ ticker'.inst = ticker.inst BY <1>6 DEF TickDelete, TypeOK
  <2> QED BY <1>0, <1>6, <2>1 DEF TickDelete
<1>7. CASE TickShutdown
  <2>1. inst'[ticker.inst].state = "closed" BY <1>7 DEF TickShutdown, Closed, Emptied, TypeOK, Room
  <2>2. \A k \in Instances : k # ticker.inst => inst'[k] = inst[k]
    BY <1>7 DEF TickShutdown, Closed, Emptied, TypeOK, Room
  <2>3. row'.there = row.there BY <1>7 DEF TickShutdown, SavedBy, TypeOK
  <2> QED BY <1>0, <1>7, <2>1, <2>2, <2>3 DEF TickShutdown
<1>8. CASE ShutdownAll
  <2>1. row'.there = row.there BY <1>8 DEF ShutdownAll, SavedBy, TypeOK
  <2>2. \A k \in Instances : k # mapped => inst'[k] = inst[k]
    BY <1>8 DEF ShutdownAll, Closed, Emptied, TypeOK, Room
  <2>3. ASSUME mapped # None PROVE inst'[mapped].state = "closed"
    <3>1. mapped \in Instances /\ inst' = Emptied(mapped) BY <1>0, <1>8, <2>3 DEF ShutdownAll
    <3>2. inst[mapped] \in Room /\ DOMAIN inst = Instances BY <3>1 DEF TypeOK
    <3>3. [inst[mapped] EXCEPT !.state = "closed", !.viewers = {}].state = "closed"
      BY <3>2 DEF Room
    <3> QED BY <3>1, <3>2, <3>3 DEF Emptied
  <2>4. mapped' = None /\ ticker'.phase = "stopped" /\ UNCHANGED <<load, unload>>
    BY <1>8 DEF ShutdownAll
  <2>6. MappedOpen' /\ TickerInv' BY <2>4
  <2>7. UnloadInv' BY <2>1, <2>4
  <2>8. ticker.phase = "idle" BY <1>8 DEF ShutdownAll
  <2>9. Accounted' BY <2>2, <2>3, <2>4, <2>8
  <2>10. LoadInv'
    BY <2>2, <2>4
  <2> QED BY <2>6, <2>7, <2>9, <2>10
<1>9. CASE DeleteRoom
  <2>1. row'.there = FALSE BY <1>9 DEF DeleteRoom, TypeOK
  <2> QED BY <1>0, <1>9, <2>1 DEF DeleteRoom
<1>10. CASE Unload BY <1>0, <1>10 DEF Unload
<1>11. CASE UnloadClose
  <2>1. inst'[unload.inst].state = "closed" BY <1>11 DEF UnloadClose, Closed, Emptied, TypeOK, Room
  <2>2. \A k \in Instances : k # unload.inst => inst'[k] = inst[k]
    BY <1>11 DEF UnloadClose, Closed, Emptied, TypeOK, Room
  <2> QED BY <1>0, <1>11, <2>1, <2>2, <1>a DEF UnloadClose
<1> QED BY <1>1, <1>2, <1>3, <1>4, <1>5, <1>6, <1>7, <1>8, <1>9, <1>10, <1>11

\* Every step keeps the invariant.
LEMMA ManagerStep == ManagerInv /\ [Next]_vars => ManagerInv'
<1> SUFFICES ASSUME ManagerInv, [Next]_vars PROVE ManagerInv'
  OBVIOUS
<1>1. CASE UNCHANGED vars
  BY <1>1 DEF vars, ManagerInv, TypeOK, ConnInv, MappedOpen, Accounted, LoadInv, TickerInv,
              UnloadInv
<1>2. ASSUME NEW c \in Conns, Get(c) \/ GiveUp(c) \/ Join(c) \/ Command(c) \/ Leave(c)
      PROVE  ManagerInv'
  BY <1>2, TypeConn, PartsConn DEF ManagerInv, Parts
<1>3. ASSUME \/ LoadRead \/ LoadDone \/ \E i \in Instances : Age(i)
             \/ TickList \/ Tick \/ TickDelete \/ TickShutdown \/ ShutdownAll
             \/ DeleteRoom \/ Unload \/ UnloadClose
      PROVE  ManagerInv'
  BY <1>3, TypeServer, PartsServer DEF ManagerInv, Parts
<1> QED BY <1>1, <1>2, <1>3 DEF Next

\* Eviction, deletion and shutdown, in any order with any number of
\* requests, never leave a closed instance in the map (MappedOpen).
THEOREM HandsOutOpen == Spec => []MappedOpen
<1>1. ManagerInv => MappedOpen BY DEF ManagerInv
<1> QED BY <1>1, ManagerInit, ManagerStep, PTL DEF Spec

\* No open instance escapes the manager: it is mapped, being loaded or on
\* its way out (Accounted).
THEOREM NoneEscapes == Spec => []Accounted
<1>1. ManagerInv => Accounted BY DEF ManagerInv
<1> QED BY <1>1, ManagerInit, ManagerStep, PTL DEF Spec
==============================================================================
