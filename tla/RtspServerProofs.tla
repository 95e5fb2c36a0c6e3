--------------------------- MODULE RtspServerProofs ---------------------------
(***************************************************************************)
(* Proofs about RtspServer, for any number of connections.  Although joins *)
(* may expire, allocations fail and the server be restarted, variables     *)
(* keep their types and nothing outlives the task that started it.  Until  *)
(* the server is first stopped no task is served while another is in its   *)
(* cleanup, and none takes anything from another.  When joins end in time  *)
(* and nothing fails, a server without clients is clean.                   *)
(***************************************************************************)
EXTENDS RtspServer, TLAPS

Active == Serving \cup Closing

(***************************************************************************)
(* The inductive invariant.  A task that serves or cleans up is registered *)
(* in its slot, and the accept loop knows one slot that is free: the other *)
(* one while it listens and joins, the current one while it checks a task  *)
(* it has just created, and both before it creates one.                    *)
(***************************************************************************)
HoldsNewcomer ==
  server.at \in {"other", "otherWait", "current", "currentWait", "spawning"} =>
    server.conn \in Clients /\ client[server.conn].at = "held"

NotStopped == server.at \in {"down", "binding"} \/ (running /\ server.at # "draining")

Registered == \A c \in Clients : client[c].at \in Active => slots[client[c].slot].task = c

BothFree == server.at \in {"down", "binding", "spawning"} => \A s \in Slots : slots[s].task = None
OtherFree ==
  server.at \in {"accepting", "other", "otherWait", "current", "currentWait"} => slots[1 - current].task = None
CurrentFree == server.at = "checking" => slots[current].task = None

Discipline == HoldsNewcomer /\ (stops = 0 => NotStopped /\ Registered /\ BothFree /\ OtherFree /\ CurrentFree)

-----------------------------------------------------------------------------
(***************************************************************************)
(* Types.                                                                  *)
(***************************************************************************)
LEMMA OtherSlot == \A s \in Slots : 1 - s \in Slots /\ 1 - s # s
  BY DEF Slots

LEMMA FreeSlotTyped == \A t \in Clients \cup {None} : [FreeSlot EXCEPT !.task = t] \in SlotState
  BY DEF FreeSlot, SlotState

LEMMA NoTaskTyped == FreeSlot \in SlotState
  BY DEF FreeSlot, SlotState

LEMMA BlankTyped ==
  ASSUME NEW at \in {"outside", "held"} \cup Serving \cup Closing \cup Ended, NEW slot \in Slots
  PROVE  Blank(at, slot) \in ClientState
<1>1. 0 \in 0..2
  OBVIOUS
<1> QED BY <1>1 DEF Blank, ClientState

LEMMA GoneTyped == Gone \in ClientState
  BY BlankTyped DEF Gone, Ended, Slots

LEMMA MoveTyped ==
  ASSUME TypeOK, NEW c \in Clients, NEW from, NEW to \in Serving \cup Closing \cup Ended, Move(c, from, to)
  PROVE  client' \in [Clients -> ClientState]
  BY DEF TypeOK, Move, ClientState

LEMMA PausedTyped == \A r \in ClientState, b \in BOOLEAN : [r EXCEPT !.paused = b] \in ClientState
  BY DEF ClientState

LEMMA PortTyped == \A r \in ClientState : [r EXCEPT !.port = TRUE] \in ClientState
  BY DEF ClientState

LEMMA TornDownTyped ==
  \A r \in ClientState, b, d \in BOOLEAN : [r EXCEPT !.paused = b, !.remote = d] \in ClientState
  BY DEF ClientState

LEMMA NegotiatedTyped ==
  \A r \in ClientState, v \in 0..2, d \in BOOLEAN : [r EXCEPT !.version = v, !.remote = d] \in ClientState
  BY DEF ClientState

LEMMA RecordTyped ==
  ASSUME TypeOK, NEW c \in Clients, NEW r \in ClientState, client' = [client EXCEPT ![c] = r]
  PROVE  client' \in [Clients -> ClientState]
  BY DEF TypeOK

LEMMA VacatedTyped == \A r \in SlotState : [r EXCEPT !.task = None] \in SlotState
  BY DEF SlotState

LEMMA ResetTyped == \A r \in SlotState : [r EXCEPT !.stop = FALSE, !.old = FALSE] \in SlotState
  BY DEF SlotState

LEMMA SlotRecordTyped ==
  ASSUME TypeOK, NEW s \in Slots, NEW r \in SlotState, slots' = [slots EXCEPT ![s] = r]
  PROVE  slots' \in [Slots -> SlotState]
  BY DEF TypeOK

LEMMA ClaimTyped ==
  ASSUME TypeOK, NEW c \in Clients, NEW rs, Claim(c, rs)
  PROVE  owner' \in [Resources -> Clients \cup {None}]
  BY DEF TypeOK, Claim

LEMMA ServerTyped ==
  ASSUME TypeOK, ServerStep, HoldsNewcomer
  PROVE  TypeOK'
<1> USE DEF ServerAt, serverVars, shared
<1>1. CASE Listen
  BY <1>1 DEF Listen, TypeOK
<1>2. CASE BindFails
  BY <1>2 DEF BindFails, TypeOK
<1>3. CASE Spawn
  <2> DEFINE s == 1 - current
             starting == [client[server.conn] EXCEPT !.at = "starting", !.slot = s]
  <2>1. s \in Slots /\ server.conn \in Clients
    BY <1>3, OtherSlot DEF Spawn, HoldsNewcomer, TypeOK
  <2>2. starting \in ClientState
    <3>1. client[server.conn] \in ClientState /\ "starting" \in Serving
      BY <2>1 DEF TypeOK, Serving
    <3> QED BY <2>1, <3>1 DEF ClientState
  <2>3. client' = [client EXCEPT ![server.conn] = starting]
    BY <1>3, <2>1 DEF Spawn, TypeOK
  <2>4. client' \in [Clients -> ClientState]
    BY <2>1, <2>2, <2>3 DEF TypeOK
  <2>5. slots' \in [Slots -> SlotState]
    BY <1>3, <2>1, FreeSlotTyped DEF Spawn, TypeOK
  <2> QED BY <2>4, <2>5, <1>3 DEF Spawn, TypeOK
<1>4. CASE SpawnFails
  <2>1. server.conn \in Clients
    BY <1>4 DEF SpawnFails, HoldsNewcomer
  <2> QED BY <1>4, <2>1, GoneTyped, NoTaskTyped, OtherSlot DEF SpawnFails, RejectHeld, TypeOK
<1>5. CASE CheckSpawned
  BY <1>5, OtherSlot DEF CheckSpawned, TypeOK
<1>6. CASE LeaveAcceptLoop
  BY <1>6 DEF LeaveAcceptLoop, TypeOK, SlotState
<1>7. CASE ServerExits
  BY <1>7 DEF ServerExits, TypeOK
<1>8. ASSUME NEW stage \in {"other", "current"}, SlotIdle(stage) \/ JoinSucceeds(stage)
      PROVE  TypeOK'
  BY <1>8 DEF SlotIdle, JoinSucceeds, TypeOK, After, Awaiting
<1>9. ASSUME NEW stage \in {"other", "current"}, SignalStop(stage)
      PROVE  TypeOK'
  <2> DEFINE j == Joined(stage)
             told == [slots[j] EXCEPT !.stop = TRUE, !.old = @ \/ stage = "current"]
  <2>1. j \in Slots
    BY OtherSlot DEF Joined, TypeOK
  <2>2. told \in SlotState
    BY <2>1 DEF TypeOK, SlotState
  <2>3. slots' = [slots EXCEPT ![j] = told]
    BY <1>9, <2>1 DEF SignalStop, TypeOK
  <2>4. slots' \in [Slots -> SlotState]
    BY <2>1, <2>2, <2>3 DEF TypeOK
  <2> QED BY <1>9, <2>4 DEF SignalStop, TypeOK, Awaiting
<1>10. ASSUME NEW stage \in {"other", "current"}, JoinExpires(stage)
       PROVE  TypeOK'
  <2>1. server.conn \in Clients
    BY <1>10 DEF JoinExpires, HoldsNewcomer, Awaiting
  <2> QED BY <1>10, <2>1, GoneTyped DEF JoinExpires, RejectHeld, TypeOK
<1> QED
  BY <1>1, <1>2, <1>3, <1>4, <1>5, <1>6, <1>7, <1>8, <1>9, <1>10 DEF ServerStep

LEMMA RequestTyped ==
  ASSUME TypeOK, NEW c \in Clients, Request(c)
  PROVE  TypeOK'
<1> USE DEF serverVars
<1>0. client[c] \in ClientState
  BY DEF TypeOK
<1>1. ASSUME NEW version \in {1, 2}, NEW remote \in BOOLEAN, Negotiate(c, version, remote)
      PROVE  TypeOK'
  <2>1. version \in 0..2
    OBVIOUS
  <2>2. client' = [client EXCEPT ![c] = [client[c] EXCEPT !.version = version, !.remote = remote]]
    BY <1>1 DEF Negotiate, TypeOK
  <2>3. [client[c] EXCEPT !.version = version, !.remote = remote] \in ClientState
    BY <1>0, <2>1, NegotiatedTyped
  <2>4. client' \in [Clients -> ClientState]
    BY <2>2, <2>3, RecordTyped
  <2> QED BY <1>1, <2>4 DEF Negotiate, TypeOK
<1>2. CASE Setup1(c) \/ Setup1Fails(c)
  BY <1>2, ClaimTyped DEF Setup1, Setup1Fails, TypeOK
<1>3. ASSUME NEW b \in BOOLEAN, NEW rs, Claim(c, rs), airplay' \subseteq {"active", "source"},
             client' = [client EXCEPT ![c] = [client[c] EXCEPT !.paused = b]],
             UNCHANGED <<serverVars, slots, ptp, resume>>
      PROVE  TypeOK'
  <2>1. [client[c] EXCEPT !.paused = b] \in ClientState
    BY <1>0, <1>3, PausedTyped
  <2>2. client' \in [Clients -> ClientState]
    BY <1>3, <2>1, RecordTyped
  <2> QED BY <1>3, <2>2, ClaimTyped DEF TypeOK
<1>4. CASE Setup2(c)
  <2>1. client' = [client EXCEPT ![c] = [client[c] EXCEPT !.port = TRUE]]
    BY <1>4 DEF Setup2, TypeOK
  <2>2. [client[c] EXCEPT !.port = TRUE] \in ClientState
    BY <1>0, PortTyped
  <2>3. client' \in [Clients -> ClientState]
    BY <2>1, <2>2, RecordTyped
  <2> QED BY <1>4, <2>3, ClaimTyped DEF Setup2, TypeOK
<1>5. CASE SetupStream(c) \/ Record(c) \/ Pause(c)
  BY <1>3, <1>5 DEF SetupStream, Record, Pause, TypeOK
<1>6. ASSUME NEW rate \in {0, 1}, SetRate(c, rate)
      PROVE  TypeOK'
  BY <1>3, <1>6 DEF SetRate, TypeOK
<1>7. ASSUME NEW streams \in BOOLEAN, Teardown(c, streams)
      PROVE  TypeOK'
  <2>1. PICK d \in BOOLEAN : client' = [client EXCEPT ![c] = [client[c] EXCEPT !.paused = streams, !.remote = d]]
    BY <1>0, <1>7 DEF Teardown, TypeOK, ClientState
  <2>4. [client[c] EXCEPT !.paused = streams, !.remote = d] \in ClientState
    BY <1>0, <1>7, <2>1, TornDownTyped
  <2>2. client' \in [Clients -> ClientState]
    BY <2>1, <2>4, RecordTyped
  <2>3. owner' \in [Resources -> Clients \cup {None}]
    BY <1>7 DEF Teardown, TypeOK
  <2> QED BY <1>7, <2>2, <2>3 DEF Teardown, TypeOK
<1> QED
  BY <1>1, <1>2, <1>4, <1>5, <1>6, <1>7 DEF Request

LEMMA ClientTyped ==
  ASSUME TypeOK, NEW c \in Clients, ClientStep(c)
  PROVE  TypeOK'
<1> USE DEF serverVars, shared
<1>1. ASSUME NEW from, NEW to \in Serving \cup Closing \cup Ended, Move(c, from, to),
             owner' \in [Resources -> Clients \cup {None}], airplay' \subseteq {"active", "source"},
             ptp' \in BOOLEAN, resume' \in BOOLEAN, UNCHANGED <<running, server, current, stops, slots>>
      PROVE  TypeOK'
  BY <1>1, MoveTyped DEF TypeOK
<1>0. client[c].slot \in Slots /\ slots[client[c].slot] \in SlotState
  BY DEF TypeOK, ClientState
<1> DEFINE s == client[c].slot
<1>2. CASE BeginFails(c)
  <2>2. slots' = [slots EXCEPT ![s] = [slots[s] EXCEPT !.task = None]]
    BY <1>0, <1>2 DEF BeginFails, TypeOK
  <2>3. [slots[s] EXCEPT !.task = None] \in SlotState
    BY <1>0, VacatedTyped
  <2>1. slots' \in [Slots -> SlotState]
    BY <1>0, <2>2, <2>3, SlotRecordTyped
  <2> QED BY <1>2, <2>1, GoneTyped DEF BeginFails, TypeOK
<1>3. CASE Begin(c) \/ LoopEnds(c) \/ StopAudio(c) \/ StopTiming(c) \/ EnterGrace(c)
  BY <1>1, <1>3 DEF Begin, LoopEnds, StopAudio, StopTiming, EnterGrace, TypeOK, Serving, Closing
<1>4. CASE Settled(c) \/ Waited(c) \/ Reconnected(c) \/ EndSession(c) \/ GraceExpires(c)
  <2>1. ASSUME Settled(c) \/ Waited(c) \/ Reconnected(c)
        PROVE  TypeOK'
    BY <1>1, <2>1 DEF Settled, Waited, Reconnected, TypeOK, Closing
  <2>2. ASSUME EndSession(c) \/ GraceExpires(c)
        PROVE  TypeOK'
    BY <1>1, <2>2 DEF EndSession, GraceExpires, TypeOK, Closing
  <2> QED BY <1>4, <2>1, <2>2
<1>5. CASE RestorePtp(c) \/ StopEventPort(c) \/ SkipRestore(c)
  <2>1. owner' \in [Resources -> Clients \cup {None}]
    BY <1>5 DEF RestorePtp, StopEventPort, SkipRestore, TypeOK
  <2>2. ptp' \in BOOLEAN
    BY <1>5 DEF RestorePtp, StopEventPort, SkipRestore, TypeOK
  <2>3. \E from : Move(c, from, "unporting") \/ Move(c, from, "freeing")
    BY <1>5 DEF RestorePtp, StopEventPort, SkipRestore
  <2>4. UNCHANGED <<running, server, current, stops, slots, resume, airplay>>
    BY <1>5 DEF RestorePtp, StopEventPort, SkipRestore
  <2> QED BY <1>1, <2>1, <2>2, <2>3, <2>4 DEF TypeOK, Closing
<1>6. ASSUME NEW found \in BOOLEAN, FirstProbe(c, found) \/ Reprobe(c, found)
      PROVE  TypeOK'
  BY <1>1, <1>6 DEF FirstProbe, Reprobe, Stays, TypeOK, Closing
<1>7. CASE VacateSlot(c)
  <2>1. slots' = [slots EXCEPT ![s] = [slots[s] EXCEPT !.task = None]]
    BY <1>0, <1>7 DEF VacateSlot, TypeOK
  <2>4. [slots[s] EXCEPT !.task = None] \in SlotState
    BY <1>0, VacatedTyped
  <2>2. slots' \in [Slots -> SlotState]
    BY <1>0, <2>1, <2>4, SlotRecordTyped
  <2>3. Blank("vacating", client[c].slot) \in ClientState
    BY <1>0, BlankTyped DEF Ended
  <2> QED BY <1>7, <2>2, <2>3 DEF VacateSlot, TypeOK
<1>8. CASE ResetFlags(c)
  <2>2. slots' = [slots EXCEPT ![s] = [slots[s] EXCEPT !.stop = FALSE, !.old = FALSE]]
    BY <1>0, <1>8 DEF ResetFlags, TypeOK
  <2>3. [slots[s] EXCEPT !.stop = FALSE, !.old = FALSE] \in SlotState
    BY <1>0, ResetTyped
  <2>1. slots' \in [Slots -> SlotState]
    BY <1>0, <2>2, <2>3, SlotRecordTyped
  <2> QED BY <1>8, <2>1, GoneTyped DEF ResetFlags, TypeOK
<1> QED
  BY <1>2, <1>3, <1>4, <1>5, <1>6, <1>7, <1>8 DEF ClientStep

LEMMA OutsideTyped ==
  ASSUME TypeOK, Outside
  PROVE  TypeOK'
<1> USE DEF serverVars, shared
<1>1. CASE Stop
  <2>1. stops' \in 0..MaxStops
    BY <1>1, ClientsAssumption DEF Stop, TypeOK
  <2>2. running' \in BOOLEAN
    BY <1>1 DEF Stop
  <2> QED BY <1>1, <2>1, <2>2 DEF Stop, TypeOK
<1>2. CASE Start
  BY <1>2, NoTaskTyped DEF Start, ServerAt, TypeOK
<1>3. CASE EventPeerConnects \/ RequestResume
  BY <1>3 DEF EventPeerConnects, RequestResume, TypeOK
<1>4. ASSUME NEW c \in Clients, Accept(c)
      PROVE  TypeOK'
  <2>1. [client[c] EXCEPT !.at = "held"] \in ClientState
    <3>1. client[c] \in ClientState
      BY DEF TypeOK
    <3> QED BY <3>1 DEF ClientState
  <2>2. client' \in [Clients -> ClientState]
    BY <1>4, <2>1 DEF Accept, TypeOK
  <2> QED BY <1>4, <2>2 DEF Accept, TypeOK
<1>5. ASSUME NEW c \in Clients, PeerCloses(c)
      PROVE  TypeOK'
  <2>1. client' \in [Clients -> ClientState]
    BY <1>5, MoveTyped DEF PeerCloses, Closing
  <2> QED BY <1>5, <2>1 DEF PeerCloses, TypeOK
<1>6. ASSUME NEW c \in Clients, AbsorbResume(c)
      PROVE  TypeOK'
  BY <1>6 DEF AbsorbResume, TypeOK
<1> QED
  BY <1>1, <1>2, <1>3, <1>4, <1>5, <1>6, RequestTyped DEF Outside

LEMMA TypesHold ==
  ASSUME TypeOK, HoldsNewcomer, [Next]_vars
  PROVE  TypeOK'
<1>1. CASE UNCHANGED vars
  BY <1>1 DEF vars, TypeOK
<1>2. CASE AllServed
  BY <1>2 DEF AllServed, vars, TypeOK
<1> QED
  BY <1>1, <1>2, ServerTyped, ClientTyped, OutsideTyped DEF Next

-----------------------------------------------------------------------------
(***************************************************************************)
(* The discipline.  Most steps of a client task leave the slots and the    *)
(* server alone, start no task and let go of no held connection.           *)
(***************************************************************************)
Kept ==
  /\ \A c \in Clients : client'[c].at \in Active => client[c].at \in Active /\ client'[c].slot = client[c].slot
  /\ \A c \in Clients : client[c].at = "held" => client'[c].at = "held"

LEMMA KeptDiscipline ==
  ASSUME TypeOK, Discipline, Kept, UNCHANGED <<running, server, current, stops, slots>>
  PROVE  Discipline'
<1>1. HoldsNewcomer'
  BY DEF Discipline, HoldsNewcomer, Kept
<1>2. ASSUME stops' = 0
      PROVE  NotStopped' /\ BothFree' /\ OtherFree' /\ CurrentFree'
  BY <1>2 DEF Discipline, NotStopped, BothFree, OtherFree, CurrentFree
<1>3. ASSUME stops' = 0
      PROVE  Registered'
  BY <1>3 DEF Discipline, Registered, Kept
<1> QED BY <1>1, <1>2, <1>3 DEF Discipline

LEMMA MoveKeeps ==
  ASSUME TypeOK, NEW c \in Clients, NEW from \in Active, NEW to \in Active, Move(c, from, to)
  PROVE  Kept
<1>1. from # "held"
  BY DEF Active, Serving, Closing
<1>2. \A d \in Clients : /\ d # c => client'[d] = client[d]
                          /\ client'[d].slot = client[d].slot
  BY DEF Move, TypeOK, ClientState
<1>3. client'[c].at = to
  BY DEF Move, TypeOK, ClientState
<1> QED BY <1>1, <1>2, <1>3 DEF Kept, Move

(***************************************************************************)
(* A request changes the fields of a task that is being served.            *)
(***************************************************************************)
LEMMA RequestKeeps ==
  ASSUME TypeOK, NEW c \in Clients, Request(c)
  PROVE  Kept /\ UNCHANGED <<running, server, current, stops, slots>>
<1> USE DEF serverVars
<1>1. (\A d \in Clients : client'[d].at = client[d].at /\ client'[d].slot = client[d].slot) => Kept
  BY DEF Kept
<1>2. ASSUME NEW version, NEW remote, Negotiate(c, version, remote)
      PROVE  Kept /\ UNCHANGED <<running, server, current, stops, slots>>
  BY <1>1, <1>2 DEF Negotiate, TypeOK, ClientState
<1>3. ASSUME Setup1(c) \/ Setup1Fails(c)
      PROVE  Kept /\ UNCHANGED <<running, server, current, stops, slots>>
  BY <1>1, <1>3 DEF Setup1, Setup1Fails
<1>4. ASSUME Setup2(c)
      PROVE  Kept /\ UNCHANGED <<running, server, current, stops, slots>>
  BY <1>1, <1>4 DEF Setup2, TypeOK, ClientState
<1>5. ASSUME SetupStream(c) \/ Record(c) \/ Pause(c)
      PROVE  Kept /\ UNCHANGED <<running, server, current, stops, slots>>
  BY <1>1, <1>5 DEF SetupStream, Record, Pause, TypeOK, ClientState
<1>6. ASSUME NEW rate, SetRate(c, rate)
      PROVE  Kept /\ UNCHANGED <<running, server, current, stops, slots>>
  BY <1>1, <1>6 DEF SetRate, TypeOK, ClientState
<1>7. ASSUME NEW streams, Teardown(c, streams)
      PROVE  Kept /\ UNCHANGED <<running, server, current, stops, slots>>
  BY <1>1, <1>7 DEF Teardown, TypeOK, ClientState
<1> QED
  BY <1>2, <1>3, <1>4, <1>5, <1>6, <1>7 DEF Request

(***************************************************************************)
(* A task that gives its slot back was the one registered there.           *)
(***************************************************************************)
LEMMA LeavingKeeps ==
  ASSUME TypeOK, Discipline, NEW c \in Clients, client[c].at \in Active,
         NEW r \in ClientState, r.at \in Ended, client' = [client EXCEPT ![c] = r],
         slots' = [slots EXCEPT ![client[c].slot].task = None], UNCHANGED serverVars
  PROVE  Discipline'
<1> USE DEF serverVars
<1>1. client[c].at # "held" /\ r.at \notin Active
  BY DEF Active, Serving, Closing, Ended
<1>2. client[c].slot \in Slots
  BY DEF TypeOK, ClientState
<1>3. \A s \in Slots : slots'[s].task = IF s = client[c].slot THEN None ELSE slots[s].task
  BY <1>2 DEF TypeOK, SlotState
<1>4. \A d \in Clients : client'[d] = IF d = c THEN r ELSE client[d]
  BY DEF TypeOK
<1>5. HoldsNewcomer'
  BY <1>1, <1>4 DEF Discipline, HoldsNewcomer
<1>6. ASSUME stops' = 0
      PROVE  Registered'
  <2> SUFFICES ASSUME NEW d \in Clients, client'[d].at \in Active
               PROVE  slots'[client'[d].slot].task = d
    BY DEF Registered
  <2>1. d # c /\ client'[d] = client[d]
    BY <1>1, <1>4
  <2>2. slots[client[d].slot].task = d /\ slots[client[c].slot].task = c
    BY <1>6, <2>1 DEF Discipline, Registered
  <2>3. client[d].slot \in Slots
    BY DEF TypeOK, ClientState
  <2> QED BY <1>3, <2>1, <2>2, <2>3
<1>7. ASSUME stops' = 0
      PROVE  NotStopped' /\ BothFree' /\ OtherFree' /\ CurrentFree'
  <2>1. current \in Slots /\ 1 - current \in Slots
    BY OtherSlot DEF TypeOK
  <2> QED BY <1>3, <1>7, <2>1 DEF Discipline, NotStopped, BothFree, OtherFree, CurrentFree
<1> QED BY <1>5, <1>6, <1>7 DEF Discipline

(***************************************************************************)
(* A step of the server task that leaves the slots and the tasks alone.    *)
(***************************************************************************)
LEMMA ServerMoves ==
  ASSUME TypeOK, Discipline, UNCHANGED <<slots, client, stops>>, NEW to,
         server' = [server EXCEPT !.at = to],
         stops = 0 => NotStopped' /\ BothFree' /\ OtherFree' /\ CurrentFree', HoldsNewcomer'
  PROVE  Discipline'
<1>1. ASSUME stops' = 0
      PROVE  Registered'
  BY <1>1 DEF Discipline, Registered
<1> QED BY <1>1 DEF Discipline

LEMMA ServerKeeps ==
  ASSUME TypeOK, Discipline, ServerStep
  PROVE  Discipline'
<1> USE DEF ServerAt, serverVars, shared
<1>0. /\ current \in Slots /\ 1 - current \in Slots /\ 1 - current # current
      /\ HoldsNewcomer
      /\ \A s \in Slots : s = current \/ s = 1 - current
  BY OtherSlot DEF TypeOK, Discipline, Slots
<1>1. CASE Listen
  <2>1. server'.at = "accepting" /\ running'
    BY <1>1 DEF Listen, TypeOK
  <2>2. HoldsNewcomer'
    BY <2>1 DEF HoldsNewcomer
  <2>3. stops = 0 => NotStopped' /\ BothFree' /\ OtherFree' /\ CurrentFree'
    BY <1>0, <1>1, <2>1 DEF Discipline, Listen, NotStopped, BothFree, OtherFree, CurrentFree
  <2> QED BY <1>1, <2>2, <2>3, ServerMoves DEF Listen
<1>2. CASE BindFails
  <2>1. server'.at = "down"
    BY <1>2 DEF BindFails, TypeOK
  <2>2. HoldsNewcomer'
    BY <2>1 DEF HoldsNewcomer
  <2>3. stops = 0 => NotStopped' /\ BothFree' /\ OtherFree' /\ CurrentFree'
    BY <1>2, <2>1 DEF Discipline, BindFails, NotStopped, BothFree, OtherFree, CurrentFree
  <2> QED BY <1>2, <2>2, <2>3, ServerMoves DEF BindFails
<1>3. CASE Spawn
  <2> DEFINE s == 1 - current
             n == server.conn
  <2>1. n \in Clients /\ client[n].at = "held" /\ server'.at = "checking"
    BY <1>0, <1>3 DEF Spawn, HoldsNewcomer, TypeOK
  <2>2. HoldsNewcomer'
    BY <2>1 DEF HoldsNewcomer
  <2>3. \A t \in Slots : slots'[t].task = IF t = s THEN n ELSE slots[t].task
    BY <1>0, <1>3 DEF Spawn, TypeOK, FreeSlot
  <2>4. client'[n].slot = s /\ \A d \in Clients : d # n => client'[d] = client[d]
    BY <1>3, <2>1 DEF Spawn, TypeOK, ClientState
  <2>5. ASSUME stops' = 0
        PROVE  Registered'
    <3>1. \A t \in Slots : slots[t].task = None
      BY <1>3, <2>5 DEF Spawn, Discipline, BothFree
    <3>2. \A d \in Clients : client[d].at \notin Active
      BY <1>3, <2>5, <3>1, ClientsAssumption DEF Spawn, Discipline, Registered, TypeOK, ClientState
    <3>3. \A d \in Clients : client'[d].at \in Active => d = n
      BY <2>4, <3>2
    <3> QED BY <1>0, <2>3, <2>4, <3>3 DEF Registered
  <2>6. ASSUME stops' = 0
        PROVE  NotStopped' /\ BothFree' /\ OtherFree' /\ CurrentFree'
    <3>1. slots'[current].task = None
      BY <1>0, <1>3, <2>3, <2>6 DEF Spawn, Discipline, BothFree
    <3>2. NotStopped'
      BY <1>3, <2>1, <2>6 DEF Spawn, Discipline, NotStopped
    <3> QED BY <1>3, <2>1, <3>1, <3>2 DEF Spawn, BothFree, OtherFree, CurrentFree
  <2> QED BY <2>2, <2>5, <2>6 DEF Discipline
<1>4. CASE CheckSpawned
  <2>1. server'.at = "accepting"
    BY <1>4 DEF CheckSpawned
  <2>2. HoldsNewcomer'
    BY <2>1 DEF HoldsNewcomer
  <2>3. ASSUME stops' = 0
        PROVE  Registered' /\ NotStopped' /\ BothFree' /\ CurrentFree'
    BY <1>4, <2>1, <2>3 DEF CheckSpawned, Discipline, Registered, NotStopped, BothFree, CurrentFree
  <2>4. ASSUME stops' = 0
        PROVE  OtherFree'
    <3>1. slots[current].task = None
      BY <1>4, <2>4 DEF CheckSpawned, Discipline, CurrentFree
    <3>2. (current' = current /\ slots[1 - current].task = None) \/ 1 - current' = current
      BY <1>0, <1>4 DEF CheckSpawned, Slots
    <3> QED BY <1>4, <3>1, <3>2 DEF CheckSpawned, OtherFree
  <2> QED BY <2>2, <2>3, <2>4 DEF Discipline
<1>5. CASE LeaveAcceptLoop \/ ServerExits
  <2>1. stops' # 0
    BY <1>5 DEF LeaveAcceptLoop, ServerExits, Discipline, NotStopped
  <2>2. server'.at \in {"draining", "down"}
    BY <1>5 DEF LeaveAcceptLoop, ServerExits, TypeOK
  <2>3. HoldsNewcomer'
    BY <2>2 DEF HoldsNewcomer
  <2> QED BY <2>1, <2>3 DEF Discipline
<1>6. ASSUME NEW stage \in {"other", "current"}, SlotIdle(stage) \/ JoinSucceeds(stage)
      PROVE  Discipline'
  <2>1. /\ slots[Joined(stage)].task = None
        /\ server' = [server EXCEPT !.at = After[stage]]
        /\ UNCHANGED <<running, current, slots, client, stops>>
        /\ server.at \in {"other", "otherWait", "current", "currentWait"}
    BY <1>6 DEF SlotIdle, JoinSucceeds, Awaiting
  <2>2. server'.at = After[stage] /\ server'.conn = server.conn /\ After[stage] \in {"current", "spawning"}
    BY <2>1 DEF TypeOK, After
  <2>3. HoldsNewcomer'
    BY <1>0, <2>1, <2>2 DEF HoldsNewcomer
  <2>4. ASSUME stops = 0
        PROVE  NotStopped' /\ BothFree' /\ OtherFree' /\ CurrentFree'
    <3>1. slots[1 - current].task = None
      BY <2>1, <2>4 DEF Discipline, OtherFree
    <3>2. NotStopped'
      BY <2>1, <2>2, <2>4 DEF Discipline, NotStopped
    <3>3. CASE stage = "other"
      <4>1. server'.at = "current"
        BY <2>2, <3>3 DEF After
      <4> QED BY <2>1, <3>1, <3>2, <4>1 DEF BothFree, OtherFree, CurrentFree
    <3>4. CASE stage = "current"
      <4>1. server'.at = "spawning" /\ slots[current].task = None
        BY <2>1, <2>2, <3>4 DEF After, Joined
      <4> QED BY <1>0, <2>1, <3>1, <3>2, <4>1 DEF BothFree, OtherFree, CurrentFree
    <3> QED BY <3>3, <3>4
  <2> QED BY <2>1, <2>3, <2>4, ServerMoves
<1>7. ASSUME NEW stage \in {"other", "current"}, SignalStop(stage)
      PROVE  Discipline'
  <2>1. /\ \A s \in Slots : slots'[s].task = slots[s].task
        /\ server.at \in {"other", "current"}
        /\ server'.at \in {"otherWait", "currentWait"} /\ server'.conn = server.conn
        /\ UNCHANGED <<running, current, client, stops>>
    BY <1>0, <1>7 DEF SignalStop, TypeOK, SlotState, Awaiting
  <2>2. HoldsNewcomer'
    BY <1>0, <2>1 DEF HoldsNewcomer
  <2>3. ASSUME stops' = 0
        PROVE  NotStopped' /\ BothFree' /\ OtherFree' /\ CurrentFree'
    BY <1>0, <2>1, <2>3 DEF Discipline, NotStopped, BothFree, OtherFree, CurrentFree
  <2>4. ASSUME stops' = 0
        PROVE  Registered'
    BY <2>1, <2>4 DEF Discipline, Registered, TypeOK, ClientState
  <2> QED BY <2>2, <2>3, <2>4 DEF Discipline
<1>8. ASSUME NEW stage \in {"other", "current"}, JoinExpires(stage)
      PROVE  Discipline'
  <2>1. /\ server.at \in {"otherWait", "currentWait"} /\ server'.at = "accepting"
        /\ UNCHANGED <<running, current, slots, stops>>
    BY <1>8 DEF JoinExpires, RejectHeld, Awaiting
  <2>2. \A d \in Clients : client'[d].at \in Active => client'[d] = client[d]
    BY <1>8 DEF JoinExpires, RejectHeld, TypeOK, Gone, Blank, Active, Serving, Closing
  <2>3. HoldsNewcomer'
    BY <2>1 DEF HoldsNewcomer
  <2>4. ASSUME stops' = 0
        PROVE  NotStopped' /\ BothFree' /\ OtherFree' /\ CurrentFree'
    BY <2>1, <2>4 DEF Discipline, NotStopped, BothFree, OtherFree, CurrentFree
  <2>5. ASSUME stops' = 0
        PROVE  Registered'
    BY <2>1, <2>2, <2>5 DEF Discipline, Registered
  <2> QED BY <2>3, <2>4, <2>5 DEF Discipline
<1>9. CASE SpawnFails
  <2>1. /\ server.at = "spawning" /\ server'.at = "accepting"
        /\ UNCHANGED <<running, current, stops>>
    BY <1>9 DEF SpawnFails, RejectHeld
  <2>2. \A d \in Clients : client'[d].at \in Active => client'[d] = client[d]
    BY <1>9 DEF SpawnFails, RejectHeld, TypeOK, Gone, Blank, Active, Serving, Closing
  <2>3. HoldsNewcomer'
    BY <2>1 DEF HoldsNewcomer
  <2>4. slots'[1 - current].task = None
    BY <1>0, <1>9 DEF SpawnFails, TypeOK, FreeSlot
  <2>5. ASSUME stops' = 0
        PROVE  NotStopped' /\ BothFree' /\ OtherFree' /\ CurrentFree'
    BY <2>1, <2>4, <2>5 DEF Discipline, NotStopped, BothFree, OtherFree, CurrentFree
  <2>6. ASSUME stops' = 0
        PROVE  Registered'
    <3>1. \A d \in Clients : client[d].at \notin Active
      BY <2>1, <2>6, ClientsAssumption DEF Discipline, BothFree, Registered, TypeOK, ClientState
    <3> QED BY <2>2, <3>1 DEF Registered
  <2> QED BY <2>3, <2>5, <2>6 DEF Discipline
<1> QED
  BY <1>1, <1>2, <1>3, <1>4, <1>5, <1>6, <1>7, <1>8, <1>9 DEF ServerStep

LEMMA ClientKeeps ==
  ASSUME TypeOK, Discipline, NEW c \in Clients, ClientStep(c)
  PROVE  Discipline'
<1> USE DEF serverVars, shared
<1>1. ASSUME NEW from \in Active, NEW to \in Active, Move(c, from, to),
             UNCHANGED <<running, server, current, stops, slots>>
      PROVE  Discipline'
  BY <1>1, MoveKeeps, KeptDiscipline
<1>2. CASE Begin(c) \/ LoopEnds(c) \/ StopAudio(c) \/ StopTiming(c) \/ EnterGrace(c)
  BY <1>1, <1>2 DEF Begin, LoopEnds, StopAudio, StopTiming, EnterGrace, Active, Serving, Closing
<1>3. CASE Settled(c) \/ Waited(c) \/ Reconnected(c) \/ EndSession(c) \/ GraceExpires(c)
  <2>1. ASSUME Settled(c) \/ Waited(c) \/ Reconnected(c)
        PROVE  Discipline'
    BY <1>1, <2>1 DEF Settled, Waited, Reconnected, Active, Closing
  <2>2. ASSUME EndSession(c) \/ GraceExpires(c)
        PROVE  Discipline'
    BY <1>1, <2>2 DEF EndSession, GraceExpires, Active, Closing
  <2> QED BY <1>3, <2>1, <2>2
<1>4. CASE RestorePtp(c) \/ StopEventPort(c) \/ SkipRestore(c)
  BY <1>1, <1>4 DEF RestorePtp, StopEventPort, SkipRestore, Active, Closing
<1>5. ASSUME NEW found \in BOOLEAN, FirstProbe(c, found) \/ Reprobe(c, found)
      PROVE  Discipline'
  BY <1>1, <1>5 DEF FirstProbe, Reprobe, Stays, Active, Closing
<1>6. CASE BeginFails(c)
  <2>1. client[c].at \in Active /\ Gone.at \in Ended
    BY <1>6 DEF BeginFails, Active, Serving, Gone, Blank, Ended
  <2> QED BY <1>6, <2>1, GoneTyped, LeavingKeeps DEF BeginFails
<1>7. CASE VacateSlot(c)
  <2>1. client[c].slot \in Slots
    BY DEF TypeOK, ClientState
  <2>2. Blank("vacating", client[c].slot) \in ClientState
    BY <2>1, BlankTyped DEF Ended
  <2>3. client[c].at \in Active /\ Blank("vacating", client[c].slot).at \in Ended
    BY <1>7 DEF VacateSlot, Active, Closing, Blank, Ended
  <2> QED BY <1>7, <2>2, <2>3, LeavingKeeps DEF VacateSlot
<1>8. CASE ResetFlags(c)
  <2>1. client[c].at = "vacating" /\ UNCHANGED <<running, server, current, stops>>
    BY <1>8 DEF ResetFlags
  <2>2. \A s \in Slots : slots'[s].task = slots[s].task
    BY <1>8 DEF ResetFlags, TypeOK, SlotState
  <2>3. \A d \in Clients : client'[d] = IF d = c THEN Gone ELSE client[d]
    BY <1>8 DEF ResetFlags, TypeOK
  <2>4. HoldsNewcomer'
    BY <2>1, <2>3 DEF Discipline, HoldsNewcomer
  <2>5. Gone.at \notin Active
    BY DEF Gone, Blank, Active, Serving, Closing
  <2>6. ASSUME stops' = 0
        PROVE  Registered'
    BY <2>1, <2>2, <2>3, <2>5, <2>6 DEF Discipline, Registered, TypeOK, ClientState
  <2>7. ASSUME stops' = 0
        PROVE  NotStopped' /\ BothFree' /\ OtherFree' /\ CurrentFree'
    BY <2>1, <2>2, <2>7, OtherSlot DEF Discipline, NotStopped, BothFree, OtherFree, CurrentFree, TypeOK
  <2> QED BY <2>4, <2>6, <2>7 DEF Discipline
<1> QED
  BY <1>2, <1>3, <1>4, <1>5, <1>6, <1>7, <1>8 DEF ClientStep

LEMMA OutsideKeeps ==
  ASSUME TypeOK, Discipline, Outside
  PROVE  Discipline'
<1> USE DEF serverVars, shared
<1>1. CASE Stop
  <2>1. stops' # 0
    BY <1>1, ClientsAssumption DEF Stop, TypeOK
  <2>2. HoldsNewcomer'
    BY <1>1 DEF Stop, Discipline, HoldsNewcomer
  <2> QED BY <2>1, <2>2 DEF Discipline
<1>2. CASE Start
  <2>1. server.at = "down" /\ server'.at = "binding" /\ UNCHANGED <<running, current, client, stops>>
    BY <1>2 DEF Start, ServerAt, TypeOK
  <2>2. \A s \in Slots : slots'[s].task = None
    BY <1>2 DEF Start, FreeSlot
  <2>3. HoldsNewcomer'
    BY <2>1 DEF HoldsNewcomer
  <2>4. ASSUME stops' = 0
        PROVE  Registered'
    <3>1. \A d \in Clients : client[d].at \notin Active
      BY <2>1, <2>4, ClientsAssumption DEF Discipline, BothFree, Registered, TypeOK, ClientState
    <3> QED BY <2>1, <3>1 DEF Registered
  <2>5. NotStopped' /\ BothFree' /\ OtherFree' /\ CurrentFree'
    BY <2>1, <2>2 DEF NotStopped, BothFree, OtherFree, CurrentFree
  <2> QED BY <2>3, <2>4, <2>5 DEF Discipline
<1>3. CASE EventPeerConnects \/ RequestResume
  <2>1. UNCHANGED <<running, server, current, stops, slots, client>>
    BY <1>3 DEF EventPeerConnects, RequestResume
  <2> QED BY <2>1, KeptDiscipline DEF Kept
<1>4. ASSUME NEW c \in Clients, Accept(c)
      PROVE  Discipline'
  <2>1. /\ server.at = "accepting" /\ server'.at = "other" /\ server'.conn = c
        /\ UNCHANGED <<running, current, slots, stops>>
    BY <1>4 DEF Accept
  <2>2. client'[c].at = "held" /\ \A d \in Clients : d # c => client'[d] = client[d]
    BY <1>4 DEF Accept, TypeOK, ClientState
  <2>3. HoldsNewcomer'
    BY <2>1, <2>2 DEF HoldsNewcomer
  <2>4. ASSUME stops' = 0
        PROVE  NotStopped' /\ BothFree' /\ OtherFree' /\ CurrentFree'
    BY <2>1, <2>4 DEF Discipline, NotStopped, BothFree, OtherFree, CurrentFree
  <2>5. ASSUME stops' = 0
        PROVE  Registered'
    BY <2>1, <2>2, <2>5 DEF Discipline, Registered, Active, Serving, Closing
  <2> QED BY <2>3, <2>4, <2>5 DEF Discipline
<1>5. ASSUME NEW c \in Clients, PeerCloses(c)
      PROVE  Discipline'
  <2>1. Kept
    BY <1>5, MoveKeeps DEF PeerCloses, Active, Serving, Closing
  <2> QED BY <1>5, <2>1, KeptDiscipline DEF PeerCloses
<1>6. ASSUME NEW c \in Clients, AbsorbResume(c)
      PROVE  Discipline'
  <2>1. UNCHANGED <<running, server, current, stops, slots, client>>
    BY <1>6 DEF AbsorbResume
  <2> QED BY <2>1, KeptDiscipline DEF Kept
<1>7. ASSUME NEW c \in Clients, Request(c)
      PROVE  Discipline'
  BY <1>7, RequestKeeps, KeptDiscipline
<1> QED
  BY <1>1, <1>2, <1>3, <1>4, <1>5, <1>6, <1>7 DEF Outside

-----------------------------------------------------------------------------
Inv == TypeOK /\ Discipline

LEMMA InvInit == Init => Inv
<1> SUFFICES ASSUME Init
             PROVE  Inv
  OBVIOUS
<1>1. NewClient \in ClientState
  BY BlankTyped DEF NewClient, Slots
<1>2. TypeOK
  <2>1. client \in [Clients -> ClientState] /\ slots \in [Slots -> SlotState]
    BY <1>1, NoTaskTyped DEF Init
  <2>2. stops \in 0..MaxStops
    BY ClientsAssumption DEF Init
  <2>3. current \in Slots /\ owner \in [Resources -> Clients \cup {None}]
    BY DEF Init, Slots
  <2> QED BY <2>1, <2>2, <2>3 DEF Init, TypeOK
<1>3. Discipline
  BY DEF Init, Discipline, HoldsNewcomer, NotStopped, Registered, BothFree, OtherFree, CurrentFree,
         FreeSlot, NewClient, Blank, Active, Serving, Closing
<1> QED BY <1>2, <1>3 DEF Inv

LEMMA InvStep == Inv /\ [Next]_vars => Inv'
<1> SUFFICES ASSUME Inv, [Next]_vars
             PROVE  Inv'
  OBVIOUS
<1> USE DEF Inv
<1>1. TypeOK'
  BY TypesHold DEF Discipline
<1>2. ASSUME UNCHANGED vars
      PROVE  Discipline'
  BY <1>2, KeptDiscipline DEF vars, Kept
<1>3. ASSUME Next
      PROVE  Discipline'
  BY <1>2, <1>3, ServerKeeps, OutsideKeeps, ClientKeeps DEF Next, AllServed
<1>4. Discipline'
  BY <1>2, <1>3
<1> QED BY <1>1, <1>4

(***************************************************************************)
(* Registered makes a task that serves and one that cleans up the tenants  *)
(* of two different slots, and one slot is always free.                    *)
(***************************************************************************)
LEMMA InvSuffices == Inv => OneSessionAtATime
<1> SUFFICES ASSUME Inv, stops = 0, NEW c \in Clients, NEW d \in Clients,
                    client[c].at \in Serving, client[d].at \in Closing
             PROVE  FALSE
  BY DEF OneSessionAtATime, ReplacementWaits
<1>1. c # d
  BY DEF Serving, Closing
<1>2. slots[client[c].slot].task = c /\ slots[client[d].slot].task = d
  BY DEF Inv, Discipline, Registered, Active
<1>3. client[c].slot \in Slots /\ client[d].slot \in Slots /\ client[c].slot # client[d].slot
  BY <1>1, <1>2 DEF Inv, TypeOK, ClientState
<1>4. \A s \in Slots : slots[s].task # None
  BY <1>2, <1>3, ClientsAssumption DEF Slots
<1>5. current \in Slots /\ 1 - current \in Slots
  BY OtherSlot DEF Inv, TypeOK
<1> QED BY <1>4, <1>5 DEF Inv, Discipline, TypeOK, NotStopped, BothFree, OtherFree, CurrentFree

(***************************************************************************)
(* Every variable of the server and of the client tasks keeps its type,    *)
(* for any number of connections and of rtsp_server_stop calls.            *)
(***************************************************************************)
THEOREM TypeCorrect == Spec => []TypeOK
<1>1. Inv => TypeOK
  BY DEF Inv
<1> QED BY <1>1, InvInit, InvStep, PTL DEF Spec

(***************************************************************************)
(* The order rtsp_server.c:644 asks for: until rtsp_server_stop is first   *)
(* called no task is served while another one is in its cleanup, with any  *)
(* number of connections, joins that expire and allocations that fail.     *)
(***************************************************************************)
THEOREM OneSession == Spec => []OneSessionAtATime
BY InvInit, InvStep, InvSuffices, PTL DEF Spec

-----------------------------------------------------------------------------
(***************************************************************************)
(* Nothing outlives its task.  Each resource is stopped at a known step of *)
(* the cleanup, so its owner has not yet passed that step; a task that has *)
(* just been created owns nothing.                                         *)
(***************************************************************************)
UsesAudio == {"serving", "closing"}
UsesNtp == UsesAudio \cup {"untiming"}
UsesEvent == (Closing \cup {"serving"}) \ {"freeing"}

OwnersAreThere ==
  /\ owner["audio"] # None => client[owner["audio"]].at \in UsesAudio
  /\ owner["ntp"] # None => client[owner["ntp"]].at \in UsesNtp
  /\ owner["event"] # None => client[owner["event"]].at \in UsesEvent

LEMMA OwnersTyped ==
  ASSUME TypeOK
  PROVE  owner["audio"] \in Clients \cup {None} /\ owner["ntp"] \in Clients \cup {None}
           /\ owner["event"] \in Clients \cup {None} /\ owner["dacp"] \in Clients \cup {None}
  BY DEF TypeOK, Resources

LEMMA OwnersKept ==
  ASSUME TypeOK, OwnersAreThere, NEW c \in Clients,
         \A d \in Clients \ {c} : client'[d].at = client[d].at,
         \A r \in {"audio", "ntp", "event"} : owner'[r] \in {owner[r], c, None},
         owner'["audio"] = c => client'[c].at \in UsesAudio,
         owner'["ntp"] = c => client'[c].at \in UsesNtp,
         owner'["event"] = c => client'[c].at \in UsesEvent
  PROVE  OwnersAreThere'
<1>1. owner'["audio"] # None => client'[owner'["audio"]].at \in UsesAudio
  BY OwnersTyped DEF OwnersAreThere
<1>2. owner'["ntp"] # None => client'[owner'["ntp"]].at \in UsesNtp
  BY OwnersTyped DEF OwnersAreThere
<1>3. owner'["event"] # None => client'[owner'["event"]].at \in UsesEvent
  BY OwnersTyped DEF OwnersAreThere
<1> QED BY <1>1, <1>2, <1>3 DEF OwnersAreThere

LEMMA IdleOwnersKept ==         \* a client that owns nothing moves
  ASSUME TypeOK, OwnersAreThere, NEW c \in Clients, client[c].at \notin UsesAudio \cup UsesNtp \cup UsesEvent,
         \A d \in Clients \ {c} : client'[d].at = client[d].at, UNCHANGED owner
  PROVE  OwnersAreThere'
<1>1. owner["audio"] # c /\ owner["ntp"] # c /\ owner["event"] # c
  BY ClientsAssumption DEF OwnersAreThere
<1> QED BY <1>1, OwnersKept

LEMMA RequestServes ==
  ASSUME TypeOK, NEW c \in Clients, Request(c)
  PROVE  client'[c].at = "serving" /\ (\A d \in Clients \ {c} : client'[d].at = client[d].at)
<1>1. client[c].at = "serving"
  BY DEF Request, Negotiate, Setup1, Setup1Fails, Setup2, SetupStream, Record, Pause, SetRate, Teardown, Handling
<1>2. \A d \in Clients : client'[d].at = client[d].at
  <2>1. ASSUME NEW version, NEW remote, Negotiate(c, version, remote) PROVE \A d \in Clients : client'[d].at = client[d].at
    BY <2>1 DEF Negotiate, TypeOK, ClientState
  <2>2. CASE Setup1(c) \/ Setup1Fails(c)
    BY <2>2 DEF Setup1, Setup1Fails
  <2>3. CASE Setup2(c)
    BY <2>3 DEF Setup2, TypeOK, ClientState
  <2>4. CASE SetupStream(c) \/ Record(c) \/ Pause(c)
    BY <2>4 DEF SetupStream, Record, Pause, TypeOK, ClientState
  <2>5. ASSUME NEW rate, SetRate(c, rate) PROVE \A d \in Clients : client'[d].at = client[d].at
    BY <2>5 DEF SetRate, TypeOK, ClientState
  <2>6. ASSUME NEW streams, Teardown(c, streams) PROVE \A d \in Clients : client'[d].at = client[d].at
    BY <2>6 DEF Teardown, TypeOK, ClientState
  <2> QED BY <2>1, <2>2, <2>3, <2>4, <2>5, <2>6 DEF Request
<1> QED BY <1>1, <1>2

LEMMA RequestOwners ==
  ASSUME TypeOK, OwnersAreThere, NEW c \in Clients, Request(c)
  PROVE  OwnersAreThere'
<1>1. client'[c].at = "serving" /\ (\A d \in Clients \ {c} : client'[d].at = client[d].at)
  BY RequestServes
<1>2. \A r \in Resources : owner'[r] \in {owner[r], c, None}
  <2>1. ASSUME NEW rs, Claim(c, rs) PROVE \A r \in Resources : owner'[r] \in {owner[r], c, None}
    BY <2>1 DEF Claim
  <2>2. ASSUME NEW version, NEW remote, Negotiate(c, version, remote)
        PROVE  \A r \in Resources : owner'[r] \in {owner[r], c, None}
    BY <2>2 DEF Negotiate, TypeOK
  <2>3. ASSUME NEW streams, Teardown(c, streams) PROVE \A r \in Resources : owner'[r] \in {owner[r], c, None}
    BY <2>3 DEF Teardown
  <2> QED BY <2>1, <2>2, <2>3 DEF Request, Setup1, Setup1Fails, Setup2, SetupStream, Record, Pause, SetRate
<1>3. "serving" \in UsesAudio /\ "serving" \in UsesNtp /\ "serving" \in UsesEvent
  BY DEF UsesAudio, UsesNtp, UsesEvent
<1>4. {"audio", "ntp", "event"} \subseteq Resources
  BY DEF Resources
<1> QED BY <1>1, <1>2, <1>3, <1>4, OwnersKept

LEMMA MoveIs ==
  ASSUME TypeOK, NEW c \in Clients, NEW from, NEW to, Move(c, from, to)
  PROVE  client[c].at = from /\ client'[c].at = to /\ (\A d \in Clients \ {c} : client'[d] = client[d])
  BY DEF Move, TypeOK, ClientState

LEMMA CleanupOwners ==
  ASSUME TypeOK, OwnersAreThere, NEW c \in Clients, ClientStep(c)
  PROVE  OwnersAreThere'
<1> USE DEF UsesAudio, UsesNtp, UsesEvent, Closing
<1>0. "audio" \in Resources /\ "ntp" \in Resources /\ "event" \in Resources /\ "dacp" \in Resources
  BY DEF Resources
<1>1. ASSUME NEW from, NEW to, Move(c, from, to), UNCHANGED <<owner["audio"], owner["ntp"], owner["event"]>>,
             from \in UsesAudio => to \in UsesAudio, from \in UsesNtp => to \in UsesNtp,
             from \in UsesEvent => to \in UsesEvent
      PROVE  OwnersAreThere'
  BY <1>1, MoveIs, OwnersKept, ClientsAssumption DEF OwnersAreThere
<1>2. CASE Begin(c)
  <2>1. UNCHANGED owner
    BY <1>2 DEF Begin, shared
  <2> QED BY <1>1, <1>2, <2>1 DEF Begin
<1>3. CASE BeginFails(c) \/ VacateSlot(c) \/ ResetFlags(c)
  <2>1. /\ client[c].at \in {"starting", "freeing", "vacating"} /\ UNCHANGED owner
        /\ \A d \in Clients \ {c} : client'[d].at = client[d].at
    BY <1>3 DEF BeginFails, VacateSlot, ResetFlags, shared, TypeOK
  <2> QED BY <2>1, IdleOwnersKept
<1>4. CASE LoopEnds(c)
  <2>1. UNCHANGED owner
    BY <1>4 DEF LoopEnds, shared
  <2> QED BY <1>1, <1>4, <2>1 DEF LoopEnds
<1>5. CASE StopAudio(c)
  <2>1. owner'["audio"] = None /\ owner'["ntp"] = owner["ntp"] /\ owner'["event"] = owner["event"]
    BY <1>0, <1>5 DEF StopAudio, TypeOK
  <2>2. client[c].at = "closing" /\ client'[c].at = "untiming" /\ \A d \in Clients \ {c} : client'[d] = client[d]
    BY <1>5, MoveIs DEF StopAudio
  <2> QED BY <2>1, <2>2, OwnersKept, ClientsAssumption
<1>6. CASE StopTiming(c) \/ EnterGrace(c)
  <2>1. owner'["ntp"] = None /\ owner'["audio"] = owner["audio"] /\ owner'["event"] = owner["event"]
    BY <1>0, <1>6 DEF StopTiming, EnterGrace, TypeOK
  <2>2. /\ client[c].at = "untiming" /\ client'[c].at \in {"ending", "settling"}
        /\ \A d \in Clients \ {c} : client'[d] = client[d]
    BY <1>6, MoveIs DEF StopTiming, EnterGrace
  <2>3. owner["audio"] # c
    BY <2>2, ClientsAssumption DEF OwnersAreThere
  <2> QED BY <2>1, <2>2, <2>3, OwnersKept, ClientsAssumption
<1>7. CASE Settled(c) \/ Waited(c) \/ Reconnected(c) \/ RestorePtp(c)
  <2>1. UNCHANGED owner
    BY <1>7 DEF Settled, Waited, Reconnected, RestorePtp, shared
  <2> QED BY <1>1, <1>7, <2>1 DEF Settled, Waited, Reconnected, RestorePtp
<1>8. ASSUME NEW found \in BOOLEAN, FirstProbe(c, found) \/ Reprobe(c, found) PROVE OwnersAreThere'
  <2>1. UNCHANGED owner
    BY <1>8 DEF FirstProbe, Reprobe, shared
  <2> QED BY <1>1, <1>8, <2>1 DEF FirstProbe, Reprobe, Stays
<1>9. CASE EndSession(c) \/ GraceExpires(c)
  <2>1. UNCHANGED <<owner["audio"], owner["ntp"], owner["event"]>>
    BY <1>0, <1>9 DEF EndSession, GraceExpires, TypeOK
  <2>2. \E from \in {"ending", "judging"} : Move(c, from, "restoring")
    BY <1>9 DEF EndSession, GraceExpires
  <2> QED BY <1>1, <2>1, <2>2
<1>10. CASE StopEventPort(c) \/ SkipRestore(c)
  <2>1. owner'["audio"] = owner["audio"] /\ owner'["ntp"] = owner["ntp"] /\ owner'["event"] # c
        /\ owner'["event"] \in {owner["event"], None}
    BY <1>0, <1>10, ClientsAssumption DEF StopEventPort, SkipRestore, TypeOK
  <2>2. /\ client[c].at \in {"unporting", "restoring"} /\ client'[c].at = "freeing"
        /\ \A d \in Clients \ {c} : client'[d] = client[d]
    BY <1>10, MoveIs DEF StopEventPort, SkipRestore
  <2>3. owner["audio"] # c /\ owner["ntp"] # c
    BY <2>2, ClientsAssumption DEF OwnersAreThere
  <2> QED BY <2>1, <2>2, <2>3, OwnersKept
<1> QED BY <1>2, <1>3, <1>4, <1>5, <1>6, <1>7, <1>8, <1>9, <1>10 DEF ClientStep

LEMMA StepOwners == Inv /\ OwnersAreThere /\ [Next]_vars => OwnersAreThere'
<1> SUFFICES ASSUME TypeOK, HoldsNewcomer, OwnersAreThere, [Next]_vars PROVE OwnersAreThere'
  BY DEF Inv, Discipline
<1> USE DEF serverVars, shared
<1>1. ASSUME UNCHANGED <<client, owner>> PROVE OwnersAreThere'
  BY <1>1 DEF OwnersAreThere
<1>2. ASSUME NEW c \in Clients, client[c].at \in {"outside", "held"}, UNCHANGED owner,
             \A d \in Clients \ {c} : client'[d].at = client[d].at
      PROVE  OwnersAreThere'
  BY <1>2, IdleOwnersKept DEF UsesAudio, UsesNtp, UsesEvent, Closing
<1>3. ASSUME NEW c \in Clients, Accept(c) PROVE OwnersAreThere'
  <2>1. /\ client[c].at = "outside" /\ UNCHANGED owner
        /\ \A d \in Clients \ {c} : client'[d].at = client[d].at
    BY <1>3 DEF Accept, TypeOK
  <2> QED BY <1>2, <2>1
<1>4. ASSUME Spawn \/ SpawnFails \/ \E stage \in {"other", "current"} : JoinExpires(stage) PROVE OwnersAreThere'
  <2>1. server.conn \in Clients /\ client[server.conn].at = "held"
    BY <1>4 DEF Spawn, SpawnFails, JoinExpires, ServerAt, HoldsNewcomer, Awaiting
  <2>2. UNCHANGED owner /\ \A d \in Clients \ {server.conn} : client'[d].at = client[d].at
    BY <1>4, <2>1 DEF Spawn, SpawnFails, JoinExpires, RejectHeld, TypeOK
  <2> QED BY <1>2, <2>1, <2>2
<1>5. ASSUME Listen \/ BindFails \/ CheckSpawned \/ LeaveAcceptLoop \/ ServerExits PROVE OwnersAreThere'
  BY <1>1, <1>5 DEF Listen, BindFails, CheckSpawned, LeaveAcceptLoop, ServerExits
<1>6. ASSUME NEW stage \in {"other", "current"}, SlotIdle(stage) \/ SignalStop(stage) \/ JoinSucceeds(stage)
      PROVE  OwnersAreThere'
  BY <1>1, <1>6 DEF SlotIdle, SignalStop, JoinSucceeds
<1>7. ASSUME Stop \/ Start \/ EventPeerConnects \/ RequestResume PROVE OwnersAreThere'
  BY <1>1, <1>7 DEF Stop, Start, EventPeerConnects, RequestResume
<1>8. ASSUME NEW c \in Clients, PeerCloses(c) PROVE OwnersAreThere'
  <2>1. client[c].at = "serving" /\ client'[c].at = "closing" /\ \A d \in Clients \ {c} : client'[d] = client[d]
    BY <1>8, MoveIs DEF PeerCloses
  <2>2. UNCHANGED owner
    BY <1>8 DEF PeerCloses
  <2> QED BY <2>1, <2>2, OwnersKept DEF UsesAudio, UsesNtp, UsesEvent, Closing
<1>9. ASSUME NEW c \in Clients, AbsorbResume(c) PROVE OwnersAreThere'
  BY <1>1, <1>9 DEF AbsorbResume
<1>10. ASSUME UNCHANGED vars \/ AllServed PROVE OwnersAreThere'
  BY <1>1, <1>10 DEF AllServed, vars
<1> QED BY <1>3, <1>4, <1>5, <1>6, <1>7, <1>8, <1>9, <1>10, RequestOwners, CleanupOwners
     DEF Next, ServerStep, Outside

(***************************************************************************)
(* rtsp_handlers.c: the receiver, the NTP client and the event port task   *)
(* are gone before the task whose sockets and keys they use, through every *)
(* restart of the server, expired join and failed allocation.              *)
(***************************************************************************)
THEOREM NothingOutlives == Spec => []NothingOutlivesItsTask
<1>1. Init => OwnersAreThere
  BY DEF Init, OwnersAreThere, Resources
<1>2. OwnersAreThere => NothingOutlivesItsTask
  BY DEF OwnersAreThere, NothingOutlivesItsTask, UsesAudio, UsesNtp, UsesEvent, Serving, Closing, Resources
<1> QED BY <1>1, <1>2, InvInit, InvStep, StepOwners, PTL DEF Spec

-----------------------------------------------------------------------------
(***************************************************************************)
(* No foreign teardown.  Registered and the free slot leave room for one   *)
(* active task, and what moves a client that is not active takes nothing   *)
(* from anybody.                                                           *)
(***************************************************************************)
LEMMA OneActive ==
  ASSUME Inv, stops = 0, NEW c \in Clients, NEW d \in Clients, client[c].at \in Active, client[d].at \in Active
  PROVE  c = d
<1> SUFFICES ASSUME c # d PROVE FALSE
  OBVIOUS
<1>1. slots[client[c].slot].task = c /\ slots[client[d].slot].task = d
  BY DEF Inv, Discipline, Registered
<1>2. client[c].slot \in Slots /\ client[d].slot \in Slots /\ client[c].slot # client[d].slot
  BY <1>1 DEF Inv, TypeOK, ClientState
<1>3. \A s \in Slots : slots[s].task # None
  BY <1>1, <1>2, ClientsAssumption DEF Slots
<1>4. current \in Slots /\ 1 - current \in Slots
  BY OtherSlot DEF Inv, TypeOK
<1> QED BY <1>3, <1>4 DEF Inv, Discipline, TypeOK, NotStopped, BothFree, OtherFree, CurrentFree

LEMMA OthersStayPut ==          \* a client task moves itself
  ASSUME TypeOK, NEW c \in Clients, ClientStep(c) \/ Request(c) \/ PeerCloses(c), NEW d \in Clients \ {c}
  PROVE  client'[d].at = client[d].at
<1>1. ASSUME NEW from, NEW to, Move(c, from, to) PROVE client'[d].at = client[d].at
  BY <1>1, MoveIs
<1>2. CASE Request(c)
  BY <1>2, RequestServes
<1>3. CASE BeginFails(c) \/ VacateSlot(c) \/ ResetFlags(c)
  BY <1>3 DEF BeginFails, VacateSlot, ResetFlags, TypeOK
<1>4. CASE Begin(c) \/ LoopEnds(c) \/ StopAudio(c) \/ StopTiming(c) \/ EnterGrace(c) \/ PeerCloses(c)
  BY <1>1, <1>4 DEF Begin, LoopEnds, StopAudio, StopTiming, EnterGrace, PeerCloses
<1>5. CASE Settled(c) \/ Waited(c) \/ Reconnected(c)
  BY <1>1, <1>5 DEF Settled, Waited, Reconnected
<1>6. CASE EndSession(c) \/ GraceExpires(c) \/ RestorePtp(c) \/ StopEventPort(c) \/ SkipRestore(c)
  BY <1>1, <1>6 DEF EndSession, GraceExpires, RestorePtp, StopEventPort, SkipRestore
<1>7. ASSUME NEW found \in BOOLEAN, FirstProbe(c, found) \/ Reprobe(c, found) PROVE client'[d].at = client[d].at
  BY <1>1, <1>7 DEF FirstProbe, Reprobe
<1> QED BY <1>2, <1>3, <1>4, <1>5, <1>6, <1>7 DEF ClientStep

LEMMA ActiveStepIsOwn ==        \* and is active, but for the last step of the slot's cleanup
  ASSUME NEW c \in Clients, ClientStep(c) \/ Request(c) \/ PeerCloses(c)
  PROVE  client[c].at \in Active \/ ResetFlags(c)
<1> USE DEF Active, Serving, Closing
<1>1. ASSUME NEW from \in Active, NEW to, Move(c, from, to) PROVE client[c].at \in Active
  BY <1>1 DEF Move
<1>2. CASE Request(c)
  BY <1>2 DEF Request, Negotiate, Setup1, Setup1Fails, Setup2, SetupStream, Record, Pause, SetRate, Teardown, Handling
<1>3. CASE BeginFails(c) \/ VacateSlot(c)
  BY <1>3 DEF BeginFails, VacateSlot
<1>4. CASE Begin(c) \/ LoopEnds(c) \/ StopAudio(c) \/ StopTiming(c) \/ EnterGrace(c) \/ PeerCloses(c)
  BY <1>1, <1>4 DEF Begin, LoopEnds, StopAudio, StopTiming, EnterGrace, PeerCloses
<1>5. CASE Settled(c) \/ Waited(c) \/ Reconnected(c)
  BY <1>1, <1>5 DEF Settled, Waited, Reconnected
<1>6. CASE EndSession(c) \/ GraceExpires(c) \/ RestorePtp(c) \/ StopEventPort(c) \/ SkipRestore(c)
  BY <1>1, <1>6 DEF EndSession, GraceExpires, RestorePtp, StopEventPort, SkipRestore
<1>7. ASSUME NEW found \in BOOLEAN, FirstProbe(c, found) \/ Reprobe(c, found) PROVE client[c].at \in Active
  BY <1>1, <1>7 DEF FirstProbe, Reprobe
<1> QED BY <1>2, <1>3, <1>4, <1>5, <1>6, <1>7 DEF ClientStep

LEMMA ServerTakesNothing == ServerStep \/ Stop \/ Start => UNCHANGED shared
  BY DEF ServerStep, Listen, BindFails, Spawn, SpawnFails, CheckSpawned, LeaveAcceptLoop, ServerExits, SlotIdle,
         SignalStop, JoinSucceeds, JoinExpires, Stop, Start

LEMMA TeardownIsOwn ==
  ASSUME Inv, [Next]_vars, stops = 0, NEW c \in Clients, NEW d \in Clients, c # d,
         client[c].at \in Serving, client'[d].at # client[d].at
  PROVE  UNCHANGED shared
<1>1. TypeOK /\ client[c].at \in Active
  BY DEF Inv, Active
<1>2. CASE ServerStep \/ Stop \/ Start
  BY <1>2, ServerTakesNothing
<1>3. ASSUME NEW e \in Clients, ClientStep(e) \/ Request(e) \/ PeerCloses(e) PROVE UNCHANGED shared
  <2>1. e = d
    BY <1>1, <1>3, OthersStayPut
  <2>2. client[d].at \notin Active
    BY <1>1, OneActive
  <2>3. ResetFlags(d)
    BY <1>3, <2>1, <2>2, ActiveStepIsOwn
  <2> QED BY <2>3 DEF ResetFlags
<1>4. ASSUME NEW e \in Clients, Accept(e) \/ AbsorbResume(e) PROVE UNCHANGED shared
  <2>1. Accept(e)
    BY <1>4 DEF AbsorbResume
  <2> QED BY <2>1 DEF Accept
<1>5. CASE UNCHANGED vars \/ AllServed \/ EventPeerConnects \/ RequestResume
  <2>1. UNCHANGED client
    BY <1>5 DEF AllServed, vars, EventPeerConnects, RequestResume
  <2> QED BY <2>1
<1> QED BY <1>2, <1>3, <1>4, <1>5 DEF Next, Outside

(***************************************************************************)
(* Until rtsp_server_stop is first called, no step of one task takes a     *)
(* resource, the clock or the session from another that is being served.   *)
(***************************************************************************)
THEOREM TeardownStaysHome == Spec => NoForeignTeardown
<1> DEFINE Foreign ==
      \A c, d \in Clients :
        stops = 0 /\ c # d /\ client[c].at \in Serving /\ client'[d].at # client[d].at =>
          /\ \A r \in Resources : owner[r] = c => owner'[r] = c
          /\ ptp' = ptp
          /\ airplay \subseteq airplay'
<1>1. Inv /\ [Next]_vars => Foreign
  BY TeardownIsOwn DEF shared
<1>2. Spec => [][Foreign]_vars
  BY <1>1, InvInit, InvStep, PTL DEF Spec
<1> QED BY <1>2 DEF NoForeignTeardown

-----------------------------------------------------------------------------
(***************************************************************************)
(* A quiet server is clean, when joins end in time and nothing runs out.   *)
(* A task is marked as replaced only while the accept loop joins it and    *)
(* holds its successor.  So whatever a task leaves behind has an heir: a   *)
(* connection that will get its task, or a task that has not yet reached   *)
(* the step of its cleanup at which it lets go.                            *)
(***************************************************************************)
Newcomer == server.at \in {"other", "otherWait", "current", "currentWait", "spawning"}
BeforeEnd == Serving \cup {"closing", "untiming", "ending", "settling", "probing", "waiting", "reprobing", "judging"}

OldIsReplaced ==
  \A c \in Clients : client[c].at \in Active /\ slots[client[c].slot].old => server.at = "currentWait"

HasHeir(stages) == Newcomer \/ \E c \in Clients : client[c].at \in stages

Inherited ==
  /\ owner["dacp"] # None \/ airplay = {"active"} => HasHeir(BeforeEnd)
  /\ ~ptp => HasHeir(BeforeEnd \cup {"restoring"})

LEMMA KeptOld ==
  ASSUME OldIsReplaced, Kept, UNCHANGED <<slots, server>>
  PROVE  OldIsReplaced'
  BY DEF OldIsReplaced, Kept

LEMMA ServerKeepsOld ==
  ASSUME Inv, stops = 0, ~JoinsExpire, ~CallsFail, OldIsReplaced, ServerStep
  PROVE  OldIsReplaced'
<1> USE DEF ServerAt
<1>0. TypeOK /\ Discipline /\ current \in Slots /\ 1 - current \in Slots /\ \A s \in Slots : s = current \/ s = 1 - current
  BY OtherSlot DEF Inv, TypeOK, Slots
<1>1. ASSUME UNCHANGED <<slots, client>>, server.at # "currentWait" PROVE OldIsReplaced'
  BY <1>1 DEF OldIsReplaced
<1>2. CASE Listen \/ BindFails \/ CheckSpawned \/ ServerExits
  BY <1>1, <1>2 DEF Listen, BindFails, CheckSpawned, ServerExits
<1>3. CASE LeaveAcceptLoop
  BY <1>0, <1>3 DEF LeaveAcceptLoop, Discipline, NotStopped
<1>4. CASE Spawn
  <2>1. /\ server.conn \in Clients /\ server.at = "spawning"
        /\ slots'[1 - current].old = FALSE
    BY <1>0, <1>4 DEF Spawn, Discipline, HoldsNewcomer, TypeOK, FreeSlot
  <2>2. client'[server.conn].slot = 1 - current /\ \A d \in Clients \ {server.conn} : client'[d] = client[d]
    BY <1>0, <1>4, <2>1 DEF Spawn, TypeOK, ClientState
  <2>3. \A d \in Clients : client[d].at \notin Active
    BY <1>0, <2>1, ClientsAssumption DEF Discipline, BothFree, Registered, TypeOK, ClientState
  <2> QED BY <2>1, <2>2, <2>3 DEF OldIsReplaced
<1>5. ASSUME NEW stage \in {"other", "current"}, SlotIdle(stage) PROVE OldIsReplaced'
  BY <1>1, <1>5 DEF SlotIdle
<1>6. ASSUME NEW stage \in {"other", "current"}, SignalStop(stage) PROVE OldIsReplaced'
  <2>1. stage = "current"
    BY <1>0, <1>6 DEF SignalStop, Joined, Discipline, OtherFree
  <2>2. server'.at = "currentWait"
    BY <1>0, <1>6, <2>1 DEF SignalStop, Awaiting, TypeOK
  <2> QED BY <2>2 DEF OldIsReplaced
<1>7. ASSUME NEW stage \in {"other", "current"}, JoinSucceeds(stage) PROVE OldIsReplaced'
  <2>1. CASE stage = "other"
    <3>1. server.at = "otherWait"
      BY <1>7, <2>1 DEF JoinSucceeds, Awaiting
    <3> QED BY <1>1, <1>7, <3>1 DEF JoinSucceeds
  <2>2. CASE stage = "current"
    <3>1. server.at = "currentWait" /\ slots[current].task = None /\ UNCHANGED <<slots, client>>
      BY <1>7, <2>2 DEF JoinSucceeds, Awaiting, Joined
    <3>2. \A s \in Slots : slots[s].task = None
      BY <1>0, <3>1 DEF Discipline, OtherFree
    <3>3. \A d \in Clients : client[d].at \notin Active
      BY <1>0, <3>2, ClientsAssumption DEF Discipline, Registered, TypeOK, ClientState
    <3> QED BY <3>1, <3>3 DEF OldIsReplaced
  <2> QED BY <2>1, <2>2
<1>8. ~SpawnFails /\ \A stage \in {"other", "current"} : ~JoinExpires(stage)
  BY DEF SpawnFails, JoinExpires
<1> QED BY <1>2, <1>3, <1>4, <1>5, <1>6, <1>7, <1>8 DEF ServerStep

LEMMA ClientKeepsOld ==
  ASSUME Inv, OldIsReplaced, NEW c \in Clients, ClientStep(c)
  PROVE  OldIsReplaced'
<1> USE DEF serverVars, shared
<1>0. TypeOK
  BY DEF Inv
<1>1. ASSUME NEW from \in Active, NEW to \in Active, Move(c, from, to), UNCHANGED <<slots, server>>
      PROVE  OldIsReplaced'
  BY <1>0, <1>1, MoveKeeps, KeptOld
<1>2. CASE Begin(c) \/ LoopEnds(c) \/ StopAudio(c) \/ StopTiming(c) \/ EnterGrace(c)
  BY <1>1, <1>2 DEF Begin, LoopEnds, StopAudio, StopTiming, EnterGrace, Active, Serving, Closing
<1>3. CASE Settled(c) \/ Waited(c) \/ Reconnected(c)
  BY <1>1, <1>3 DEF Settled, Waited, Reconnected, Active, Closing
<1>4. CASE EndSession(c) \/ GraceExpires(c)
  BY <1>1, <1>4 DEF EndSession, GraceExpires, Active, Closing
<1>5. CASE RestorePtp(c) \/ StopEventPort(c) \/ SkipRestore(c)
  BY <1>1, <1>5 DEF RestorePtp, StopEventPort, SkipRestore, Active, Closing
<1>6. ASSUME NEW found \in BOOLEAN, FirstProbe(c, found) \/ Reprobe(c, found) PROVE OldIsReplaced'
  BY <1>1, <1>6 DEF FirstProbe, Reprobe, Stays, Active, Closing
<1>7. CASE BeginFails(c) \/ VacateSlot(c) \/ ResetFlags(c)
  <2>1. \A s \in Slots : slots'[s].old => slots[s].old
    BY <1>0, <1>7 DEF BeginFails, VacateSlot, ResetFlags, TypeOK, SlotState
  <2>2. client'[c].at \notin Active /\ (\A d \in Clients \ {c} : client'[d] = client[d])
    BY <1>0, <1>7 DEF BeginFails, VacateSlot, ResetFlags, TypeOK, Gone, Blank, Active, Serving, Closing
  <2>3. \A d \in Clients : client[d].slot \in Slots
    BY <1>0 DEF TypeOK, ClientState
  <2>4. UNCHANGED server
    BY <1>7 DEF BeginFails, VacateSlot, ResetFlags
  <2> QED BY <2>1, <2>2, <2>3, <2>4 DEF OldIsReplaced
<1> QED BY <1>2, <1>3, <1>4, <1>5, <1>6, <1>7 DEF ClientStep

LEMMA StepKeepsOld ==
  ASSUME Inv, stops = 0, MaxStops = 0, ~JoinsExpire, ~CallsFail, OldIsReplaced, [Next]_vars
  PROVE  OldIsReplaced'
<1> USE DEF serverVars, shared
<1>0. TypeOK
  BY DEF Inv
<1>1. ASSUME UNCHANGED <<client, slots, server>> PROVE OldIsReplaced'
  BY <1>1 DEF OldIsReplaced
<1>2. CASE UNCHANGED vars \/ AllServed \/ EventPeerConnects \/ RequestResume
  BY <1>1, <1>2 DEF AllServed, vars, EventPeerConnects, RequestResume
<1>3. ASSUME NEW c \in Clients, Accept(c) PROVE OldIsReplaced'
  <2>1. server.at = "accepting" /\ UNCHANGED slots
    BY <1>3 DEF Accept
  <2>2. \A d \in Clients : client'[d].at \in Active => client'[d] = client[d]
    BY <1>0, <1>3 DEF Accept, TypeOK, ClientState, Active, Serving, Closing
  <2> QED BY <2>1, <2>2 DEF OldIsReplaced
<1>4. ASSUME NEW c \in Clients, Request(c) PROVE OldIsReplaced'
  BY <1>0, <1>4, RequestKeeps, KeptOld
<1>5. ASSUME NEW c \in Clients, PeerCloses(c) PROVE OldIsReplaced'
  <2>1. Kept
    BY <1>0, <1>5, MoveKeeps DEF PeerCloses, Active, Serving, Closing
  <2> QED BY <1>5, <2>1, KeptOld DEF PeerCloses
<1>6. ASSUME NEW c \in Clients, AbsorbResume(c) PROVE OldIsReplaced'
  BY <1>1, <1>6 DEF AbsorbResume
<1>7. CASE Start
  <2>1. \A s \in Slots : slots'[s].old = FALSE
    BY <1>7 DEF Start, FreeSlot
  <2>2. \A d \in Clients : client'[d].slot \in Slots
    BY <1>0, <1>7 DEF Start, TypeOK, ClientState
  <2> QED BY <2>1, <2>2 DEF OldIsReplaced
<1>8. ~Stop
  BY DEF Stop
<1> QED BY <1>2, <1>3, <1>4, <1>5, <1>6, <1>7, <1>8, ServerKeepsOld, ClientKeepsOld DEF Next, Outside

LEMMA HeirKept ==
  ASSUME Inherited, UNCHANGED <<owner, ptp, airplay>>, HasHeir(BeforeEnd) => HasHeir(BeforeEnd)',
         HasHeir(BeforeEnd \cup {"restoring"}) => HasHeir(BeforeEnd \cup {"restoring"})'
  PROVE  Inherited'
  BY DEF Inherited

LEMMA HeirFound ==
  ASSUME Newcomer' \/ \E c \in Clients : client'[c].at \in BeforeEnd
  PROVE  Inherited'
  BY DEF Inherited, HasHeir

LEMMA ServerLeavesHeir ==
  ASSUME Inv, ~JoinsExpire, ~CallsFail, Inherited, ServerStep
  PROVE  Inherited'
<1> USE DEF ServerAt
<1>0. TypeOK /\ HoldsNewcomer /\ UNCHANGED <<owner, ptp, airplay>>
  BY ServerTakesNothing DEF Inv, Discipline, shared
<1>1. ASSUME UNCHANGED client, Newcomer => Newcomer' PROVE Inherited'
  BY <1>0, <1>1, HeirKept DEF HasHeir
<1>2. CASE Listen \/ BindFails \/ CheckSpawned \/ LeaveAcceptLoop \/ ServerExits
  BY <1>1, <1>2 DEF Listen, BindFails, CheckSpawned, LeaveAcceptLoop, ServerExits, Newcomer
<1>3. CASE Spawn
  <2>1. server.conn \in Clients /\ client'[server.conn].at = "starting"
    BY <1>0, <1>3 DEF Spawn, HoldsNewcomer, TypeOK, ClientState
  <2> QED BY <2>1, HeirFound DEF BeforeEnd, Serving
<1>4. ASSUME NEW stage \in {"other", "current"}, SlotIdle(stage) \/ SignalStop(stage) \/ JoinSucceeds(stage)
      PROVE  Inherited'
  <2>1. server'.at \in {"otherWait", "current", "currentWait", "spawning"}
    BY <1>0, <1>4 DEF SlotIdle, SignalStop, JoinSucceeds, After, Awaiting, TypeOK
  <2> QED BY <2>1, HeirFound DEF Newcomer
<1>5. ~SpawnFails /\ \A stage \in {"other", "current"} : ~JoinExpires(stage)
  BY DEF SpawnFails, JoinExpires
<1> QED BY <1>2, <1>3, <1>4, <1>5 DEF ServerStep

LEMMA ClientLeavesHeir ==
  ASSUME Inv, ~CallsFail, OldIsReplaced, Inherited, NEW c \in Clients, ClientStep(c)
  PROVE  Inherited'
<1> USE DEF serverVars, shared
<1>0. TypeOK
  BY DEF Inv
<1>1. ASSUME NEW from, NEW to \in BeforeEnd, Move(c, from, to) PROVE Inherited'
  BY <1>0, <1>1, MoveIs, HeirFound
<1>2. CASE Begin(c) \/ LoopEnds(c) \/ StopAudio(c) \/ StopTiming(c) \/ EnterGrace(c)
  BY <1>1, <1>2 DEF Begin, LoopEnds, StopAudio, StopTiming, EnterGrace, BeforeEnd, Serving
<1>3. CASE Settled(c) \/ Waited(c)
  BY <1>1, <1>3 DEF Settled, Waited, BeforeEnd
<1>4. ASSUME NEW found \in BOOLEAN, FirstProbe(c, found) \/ Reprobe(c, found) PROVE Inherited'
  BY <1>1, <1>4 DEF FirstProbe, Reprobe, Stays, BeforeEnd
<1>5. CASE Reconnected(c) \/ SkipRestore(c)       \* the successor is held
  <2>1. client[c].at \in Active /\ slots[client[c].slot].old /\ UNCHANGED server
    BY <1>5 DEF Reconnected, SkipRestore, Move, Active, Closing
  <2>2. server'.at = "currentWait"
    BY <2>1 DEF OldIsReplaced
  <2> QED BY <2>2, HeirFound DEF Newcomer
<1>6. CASE EndSession(c) \/ GraceExpires(c)
  <2>1. owner'["dacp"] = None /\ airplay' = {}
    BY <1>0, <1>6 DEF EndSession, GraceExpires, TypeOK, Resources
  <2>2. client'[c].at = "restoring"
    BY <1>0, <1>6, MoveIs DEF EndSession, GraceExpires
  <2> QED BY <2>1, <2>2 DEF Inherited, HasHeir
<1>7. CASE RestorePtp(c)
  <2>1. /\ client[c].at = "restoring" /\ \A d \in Clients \ {c} : client'[d] = client[d]
        /\ UNCHANGED <<server, owner, airplay>>
    BY <1>0, <1>7, MoveIs DEF RestorePtp
  <2>2. ptp'
    BY <1>7 DEF RestorePtp
  <2> QED BY <2>1, <2>2 DEF Inherited, HasHeir, Newcomer, BeforeEnd, Serving
<1>8. CASE StopEventPort(c)
  <2>1. /\ client[c].at = "unporting" /\ \A d \in Clients \ {c} : client'[d] = client[d]
        /\ UNCHANGED <<server, ptp, airplay>> /\ owner'["dacp"] = owner["dacp"]
    BY <1>0, <1>8, MoveIs DEF StopEventPort, TypeOK, Resources
  <2> QED BY <2>1 DEF Inherited, HasHeir, Newcomer, BeforeEnd, Serving
<1>9. CASE VacateSlot(c) \/ ResetFlags(c)
  <2>1. /\ client[c].at \in {"freeing", "vacating"} /\ \A d \in Clients \ {c} : client'[d] = client[d]
        /\ UNCHANGED <<server, owner, ptp, airplay>>
    BY <1>0, <1>9 DEF VacateSlot, ResetFlags, TypeOK
  <2> QED BY <2>1, HeirKept DEF HasHeir, Newcomer, BeforeEnd, Serving
<1>10. ~BeginFails(c)
  BY DEF BeginFails
<1> QED BY <1>2, <1>3, <1>4, <1>5, <1>6, <1>7, <1>8, <1>9, <1>10 DEF ClientStep

LEMMA StepLeavesHeir ==
  ASSUME Inv, MaxStops = 0, stops = 0, ~JoinsExpire, ~CallsFail, OldIsReplaced, Inherited, [Next]_vars
  PROVE  Inherited'
<1> USE DEF serverVars, shared
<1>0. TypeOK
  BY DEF Inv
<1>1. ASSUME UNCHANGED <<client, server, owner, ptp, airplay>> PROVE Inherited'
  BY <1>1 DEF Inherited, HasHeir, Newcomer
<1>2. CASE UNCHANGED vars \/ AllServed \/ RequestResume
  BY <1>1, <1>2 DEF AllServed, vars, RequestResume
<1>3. CASE EventPeerConnects
  <2>1. airplay' # {"active"} /\ UNCHANGED <<client, server, owner, ptp>>
    BY <1>3 DEF EventPeerConnects
  <2> QED BY <2>1 DEF Inherited, HasHeir, Newcomer
<1>4. ASSUME NEW c \in Clients, Accept(c) PROVE Inherited'
  BY <1>4, HeirFound DEF Accept, Newcomer
<1>5. ASSUME NEW c \in Clients, Request(c) PROVE Inherited'
  BY <1>0, <1>5, RequestServes, HeirFound DEF BeforeEnd, Serving
<1>6. ASSUME NEW c \in Clients, PeerCloses(c) PROVE Inherited'
  BY <1>0, <1>6, MoveIs, HeirFound DEF PeerCloses, BeforeEnd
<1>7. ASSUME NEW c \in Clients, AbsorbResume(c) PROVE Inherited'
  BY <1>1, <1>7 DEF AbsorbResume
<1>8. CASE Start
  BY <1>8, HeirKept DEF Start, ServerAt, HasHeir, Newcomer
<1>9. ~Stop
  BY DEF Stop
<1> QED BY <1>2, <1>3, <1>4, <1>5, <1>6, <1>7, <1>8, <1>9, ServerLeavesHeir, ClientLeavesHeir DEF Next, Outside

(***************************************************************************)
(* rtsp_handlers.c:1800: with joins that end in time, calls that succeed   *)
(* and no rtsp_server_stop, the last client to leave leaves PTP running,   *)
(* every resource free and no session that was only said to be paused,     *)
(* for any number of connections that replace one another.                 *)
(***************************************************************************)
THEOREM QuietServerIsClean ==
  ASSUME ~JoinsExpire, ~CallsFail, MaxStops = 0
  PROVE  Spec => []QuietIsClean
<1> DEFINE Clean == Inv /\ OwnersAreThere /\ OldIsReplaced /\ Inherited
<1>1. Init => Clean
  <2> SUFFICES ASSUME Init PROVE Clean
    OBVIOUS
  <2>1. Inv
    BY InvInit
  <2>2. OwnersAreThere
    BY DEF Init, OwnersAreThere, Resources
  <2>3. OldIsReplaced
    BY DEF Init, OldIsReplaced, NewClient, Blank, Active, Serving, Closing
  <2>4. Inherited
    BY DEF Init, Inherited, Resources
  <2> QED BY <2>1, <2>2, <2>3, <2>4
<1>2. Clean /\ [Next]_vars => Clean'
  <2> SUFFICES ASSUME Clean, [Next]_vars PROVE Clean'
    OBVIOUS
  <2>1. stops = 0
    BY DEF Inv, TypeOK
  <2> QED BY <2>1, InvStep, StepOwners, StepKeepsOld, StepLeavesHeir
<1>3. Clean => QuietIsClean
  <2> SUFFICES ASSUME Clean, Quiet PROVE ptp /\ airplay # {"active"} /\ \A r \in Resources : owner[r] = None
    BY DEF QuietIsClean
  <2>1. ~HasHeir(BeforeEnd) /\ ~HasHeir(BeforeEnd \cup {"restoring"})
    BY DEF Quiet, HasHeir, Newcomer, BeforeEnd, Serving
  <2>2. ptp /\ airplay # {"active"} /\ owner["dacp"] = None
    BY <2>1 DEF Inherited
  <2>3. owner["audio"] = None /\ owner["ntp"] = None /\ owner["event"] = None
    BY OwnersTyped DEF Inv, OwnersAreThere, Quiet, UsesAudio, UsesNtp, UsesEvent, Closing
  <2> QED BY <2>2, <2>3 DEF Resources
<1> QED BY <1>1, <1>2, <1>3, PTL DEF Spec
=============================================================================
