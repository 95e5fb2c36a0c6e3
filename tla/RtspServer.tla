------------------------------ MODULE RtspServer ------------------------------
(***************************************************************************)
(* The RTSP server: the accept loop that stops and joins the client it is  *)
(* replacing, the two client slots, the life of a client task from its     *)
(* first request to the last step of its cleanup, and the process-wide     *)
(* resources that every client task starts and stops (rtsp_server.c,       *)
(* rtsp_handlers.c).                                                       *)
(*                                                                         *)
(* A client is one TCP connection and the task that serves it.  The steps  *)
(* of a task are the calls its code makes on shared state; everything that *)
(* only touches the connection's own buffers is left out.                  *)
(***************************************************************************)
EXTENDS Naturals

CONSTANTS
  Clients,       \* the connections that will ever be made
  None,          \* no client
  JoinsExpire,   \* may a join of a client task run into its 3 s or 4 s limit?
  CallsFail,     \* may memory, sockets or tasks run out?
  MaxStops       \* how often rtsp_server_stop is called

ASSUME ClientsAssumption ==
  None \notin Clients /\ JoinsExpire \in BOOLEAN /\ CallsFail \in BOOLEAN /\ MaxStops \in Nat

Slots == {0, 1}

(***************************************************************************)
(* What one session at a time may own: the audio receiver, the NTP timing  *)
(* client, the AirPlay 2 event port task and the DACP remote-control       *)
(* session.                                                                *)
(***************************************************************************)
Resources == {"audio", "ntp", "event", "dacp"}

VARIABLES
  running,   \* server_running
  server,    \* [at, conn]: where server_task is, and new_socket
  current,   \* current_slot
  slots,     \* clients[]: task, should_stop and is_old of each slot
  client,    \* the client tasks and the fields of rtsp_conn_t they decide on
  owner,     \* who started each resource
  ptp,       \* ptp.running
  resume,    \* s_resume_requested
  airplay,   \* what main.c has told the other players: "active", "source"
  stops      \* calls of rtsp_server_stop so far

vars == <<running, server, current, slots, client, owner, ptp, resume, airplay, stops>>
serverVars == <<running, server, current, stops>>
shared == <<owner, ptp, resume, airplay>>

Serving == {"starting", "serving"}
Closing == {"closing", "untiming", "ending", "settling", "probing", "waiting", "reprobing",
            "judging", "restoring", "unporting", "freeing"}
Ended == {"vacating", "done"}

SlotState == [task : Clients \cup {None}, stop : BOOLEAN, old : BOOLEAN]
ClientState ==
  [at : {"outside", "held"} \cup Serving \cup Closing \cup Ended, slot : Slots,
   version : 0..2, remote : BOOLEAN, paused : BOOLEAN, port : BOOLEAN]

FreeSlot == [task |-> None, stop |-> FALSE, old |-> FALSE]
Blank(at, slot) == [at |-> at, slot |-> slot, version |-> 0, remote |-> FALSE, paused |-> FALSE, port |-> FALSE]
NewClient == Blank("outside", 0)
Gone == Blank("done", 0)

TypeOK ==
  /\ running \in BOOLEAN
  /\ server \in [at : {"down", "binding", "accepting", "other", "otherWait", "current", "currentWait",
                       "spawning", "checking", "draining"},
                 conn : Clients \cup {None}]
  /\ current \in Slots
  /\ slots \in [Slots -> SlotState]
  /\ client \in [Clients -> ClientState]
  /\ owner \in [Resources -> Clients \cup {None}]
  /\ ptp \in BOOLEAN
  /\ resume \in BOOLEAN
  /\ airplay \subseteq {"active", "source"}
  /\ stops \in 0..MaxStops

(***************************************************************************)
(* start_airplay_services has started PTP and then the server task.        *)
(***************************************************************************)
Init ==
  /\ running = FALSE
  /\ server = [at |-> "binding", conn |-> None]
  /\ current = 0
  /\ slots = [s \in Slots |-> FreeSlot]
  /\ client = [c \in Clients |-> NewClient]
  /\ owner = [r \in Resources |-> None]
  /\ ptp = TRUE
  /\ resume = FALSE
  /\ airplay = {}
  /\ stops = 0

-----------------------------------------------------------------------------
(***************************************************************************)
(* The server task.                                                        *)
(***************************************************************************)
ServerAt(from, to) == server.at = from /\ server' = [server EXCEPT !.at = to]

Listen ==                       \* bind and listen succeeded
  /\ ServerAt("binding", "accepting")
  /\ running' = TRUE
  /\ UNCHANGED <<current, slots, client, shared, stops>>

BindFails ==
  /\ CallsFail
  /\ ServerAt("binding", "down")
  /\ UNCHANGED <<running, current, slots, client, shared, stops>>

Accept(c) ==
  /\ server.at = "accepting" /\ running
  /\ client[c].at = "outside"
  /\ server' = [at |-> "other", conn |-> c]
  /\ client' = [client EXCEPT ![c].at = "held"]
  /\ UNCHANGED <<running, current, slots, shared, stops>>

(***************************************************************************)
(* First the slot of the next client, then the slot of the current one, is *)
(* told to stop and joined.  Only the second is marked as replaced.        *)
(***************************************************************************)
Joined(stage) == IF stage = "other" THEN 1 - current ELSE current
After == [other |-> "current", current |-> "spawning"]
Awaiting == [other |-> "otherWait", current |-> "currentWait"]

SlotIdle(stage) ==
  /\ ServerAt(stage, After[stage])
  /\ slots[Joined(stage)].task = None
  /\ UNCHANGED <<running, current, slots, client, shared, stops>>

SignalStopUnsaid(stage) ==      \* mutant: is_old is set, should_stop is not
  /\ ServerAt(stage, Awaiting[stage])
  /\ slots[Joined(stage)].task # None
  /\ slots' = [slots EXCEPT ![Joined(stage)].old = @ \/ stage = "current"]
  /\ UNCHANGED <<running, current, client, shared, stops>>

SignalStop(stage) ==
  /\ ServerAt(stage, Awaiting[stage])
  /\ slots[Joined(stage)].task # None
  /\ slots' = [slots EXCEPT ![Joined(stage)].stop = TRUE, ![Joined(stage)].old = @ \/ stage = "current"]
  /\ UNCHANGED <<running, current, client, shared, stops>>

JoinSucceedsEarly(stage) ==     \* mutant: the join is dropped
  /\ ServerAt(Awaiting[stage], After[stage])
  /\ UNCHANGED <<running, current, slots, client, shared, stops>>

JoinSucceeds(stage) ==
  /\ ServerAt(Awaiting[stage], After[stage])
  /\ slots[Joined(stage)].task = None
  /\ UNCHANGED <<running, current, slots, client, shared, stops>>

RejectHeld ==                   \* close(new_socket); continue
  /\ server' = [at |-> "accepting", conn |-> None]
  /\ client' = [client EXCEPT ![server.conn] = Gone]

JoinExpiresUnheeded(stage) ==   \* mutant: the replacement is started all the same
  /\ JoinsExpire
  /\ ServerAt(Awaiting[stage], After[stage])
  /\ UNCHANGED <<running, current, slots, client, shared, stops>>

JoinExpires(stage) ==
  /\ JoinsExpire
  /\ server.at = Awaiting[stage]
  /\ slots[Joined(stage)].task # None
  /\ RejectHeld
  /\ UNCHANGED <<running, current, slots, shared, stops>>

Spawn ==
  LET s == 1 - current IN
  /\ ServerAt("spawning", "checking")
  /\ slots' = [slots EXCEPT ![s] = [FreeSlot EXCEPT !.task = server.conn]]
  /\ client' = [client EXCEPT ![server.conn].at = "starting", ![server.conn].slot = s]
  /\ UNCHANGED <<running, current, shared, stops>>

SpawnFails ==
  /\ CallsFail
  /\ server.at = "spawning"
  /\ slots' = [slots EXCEPT ![1 - current] = FreeSlot]
  /\ RejectHeld
  /\ UNCHANGED <<running, current, shared, stops>>

CheckSpawned ==                 \* a task that has already failed looks like one never created
  /\ server.at = "checking"
  /\ server' = [at |-> "accepting", conn |-> None]
  /\ current' = IF slots[1 - current].task = None THEN current ELSE 1 - current
  /\ UNCHANGED <<running, slots, client, shared, stops>>

LeaveAcceptLoop ==
  /\ ServerAt("accepting", "draining") /\ ~running
  /\ slots' = [s \in Slots |-> [slots[s] EXCEPT !.stop = @ \/ slots[s].task # None]]
  /\ UNCHANGED <<running, current, client, shared, stops>>

ServerExits ==                  \* after 500 ms, whatever the client tasks are doing
  /\ ServerAt("draining", "down")
  /\ UNCHANGED <<running, current, slots, client, shared, stops>>

(***************************************************************************)
(* rtsp_server_stop and rtsp_server_start, called from the network monitor,*)
(* the OTA handler and Bluetooth.  A start waits for the old server task,  *)
(* and the new one reinitialises the slots.                                *)
(***************************************************************************)
Stop ==
  /\ stops < MaxStops /\ server.at # "down"
  /\ stops' = stops + 1
  /\ running' = FALSE
  /\ UNCHANGED <<server, current, slots, client, shared>>

Start ==
  /\ ServerAt("down", "binding")
  /\ slots' = [s \in Slots |-> FreeSlot]
  /\ UNCHANGED <<running, current, client, shared, stops>>

-----------------------------------------------------------------------------
(***************************************************************************)
(* A client task serving requests.  should_stop is tested between two      *)
(* requests; a handler that has begun runs to its end.  Every request of a *)
(* sender whose DACP headers are known refreshes the DACP session first.   *)
(***************************************************************************)
Move(c, from, to) == client[c].at = from /\ client' = [client EXCEPT ![c].at = to]

Handling(c) == client[c].at = "serving" /\ ~slots[client[c].slot].stop

Claim(c, rs) ==
  owner' = [r \in Resources |-> IF r \in rs \/ (r = "dacp" /\ client[c].remote) THEN c ELSE owner[r]]

Begin(c) ==
  /\ Move(c, "starting", "serving")
  /\ UNCHANGED <<serverVars, slots, shared>>

BeginFails(c) ==                \* no connection state or no buffer: the slot is given back at once
  /\ CallsFail
  /\ client[c].at = "starting"
  /\ client' = [client EXCEPT ![c] = Gone]
  /\ slots' = [slots EXCEPT ![client[c].slot].task = None]
  /\ UNCHANGED <<serverVars, shared>>

(***************************************************************************)
(* ANNOUNCE and OPTIONS mark an AirPlay 1 sender, pairing an AirPlay 2 one;*)
(* DACP-ID and Active-Remote come with the headers of a request.  A sender *)
(* keeps to one protocol on one connection.                                *)
(***************************************************************************)
Negotiate(c, version, remote) ==
  /\ Handling(c) /\ client[c].version = 0
  /\ client' = [client EXCEPT ![c].version = version, ![c].remote = remote]
  /\ owner' = [owner EXCEPT !["dacp"] = IF remote THEN c ELSE @]
  /\ UNCHANGED <<serverVars, slots, ptp, resume, airplay>>

Setup1(c) ==                    \* SETUP with a Transport header: PTP's sockets are given up
  /\ Handling(c) /\ client[c].version = 1
  /\ Claim(c, {"ntp"})
  /\ ptp' = FALSE
  /\ UNCHANGED <<serverVars, slots, client, resume, airplay>>

Setup1Fails(c) ==               \* no NTP timing: 500, before PTP is touched
  /\ CallsFail
  /\ Handling(c) /\ client[c].version = 1
  /\ Claim(c, {})
  /\ UNCHANGED <<serverVars, slots, client, ptp, resume, airplay>>

Setup2(c) ==                    \* the first SETUP of AirPlay 2 opens the event port
  /\ Handling(c) /\ client[c].version = 2 /\ ~client[c].port
  /\ Claim(c, {"event"})
  /\ client' = [client EXCEPT ![c].port = TRUE]
  /\ UNCHANGED <<serverVars, slots, ptp, resume, airplay>>

SetupStream(c) ==               \* SETUP with a streams array: the receiver starts and plays
  /\ Handling(c) /\ client[c].port
  /\ Claim(c, {"audio"})
  /\ client' = [client EXCEPT ![c].paused = FALSE]
  /\ UNCHANGED <<serverVars, slots, ptp, resume, airplay>>

Record(c) ==                    \* after a pause the running receiver is kept
  /\ Handling(c) /\ client[c].version # 0
  /\ Claim(c, IF client[c].paused THEN {} ELSE {"audio"})
  /\ client' = [client EXCEPT ![c].paused = FALSE]
  /\ airplay' = airplay \cup {"active"}
  /\ UNCHANGED <<serverVars, slots, ptp, resume>>

Pause(c) ==
  /\ Handling(c) /\ client[c].version # 0
  /\ Claim(c, {})
  /\ client' = [client EXCEPT ![c].paused = TRUE]
  /\ UNCHANGED <<serverVars, slots, ptp, resume, airplay>>

SetRate(c, rate) ==             \* SETRATEANCHORTIME: rate 0 pauses; both tell the listeners
  /\ Handling(c) /\ client[c].port
  /\ Claim(c, {})
  /\ client' = [client EXCEPT ![c].paused = (rate = 0)]
  /\ airplay' = airplay \cup {"active"}
  /\ UNCHANGED <<serverVars, slots, ptp, resume>>

(***************************************************************************)
(* TEARDOWN of the streams keeps the session; a full one also ends timing  *)
(* and, for AirPlay 2, the DACP session.                                   *)
(***************************************************************************)
Teardown(c, streams) ==
  LET forget == ~streams /\ client[c].version # 1
      ended == {"audio"} \cup (IF streams THEN {} ELSE {"ntp"}) \cup (IF forget THEN {"dacp"} ELSE {}) IN
  /\ Handling(c) /\ client[c].version # 0 /\ (streams => client[c].version = 2)
  /\ owner' = [r \in Resources |->
                 CASE r \in ended -> None
                   [] r = "dacp" /\ r \notin ended /\ client[c].remote -> c
                   [] OTHER -> owner[r]]
  /\ client' = [client EXCEPT ![c].paused = streams, ![c].remote = @ /\ ~forget]
  /\ UNCHANGED <<serverVars, slots, ptp, resume, airplay>>

PeerCloses(c) ==
  /\ Move(c, "serving", "closing")
  /\ UNCHANGED <<serverVars, slots, shared>>

LoopEndsOnShutdown(c) ==        \* mutant: should_stop is not tested
  /\ ~running
  /\ Move(c, "serving", "closing")
  /\ UNCHANGED <<serverVars, slots, shared>>

LoopEnds(c) ==                  \* recv times out every second
  /\ ~running \/ slots[client[c].slot].stop
  /\ Move(c, "serving", "closing")
  /\ UNCHANGED <<serverVars, slots, shared>>

EventPeerConnects ==            \* event_port_task accepts: CLIENT_CONNECTED
  /\ owner["event"] # None
  /\ airplay' = {"active", "source"}
  /\ UNCHANGED <<serverVars, slots, client, owner, ptp, resume>>

RequestResume ==                \* from a button; only a grace period, which begins by clearing it, reads the flag
  /\ \E c \in Clients : client[c].at \in {"settling", "probing", "waiting"}
  /\ resume' = TRUE
  /\ UNCHANGED <<serverVars, slots, client, owner, ptp, airplay>>

-----------------------------------------------------------------------------
(***************************************************************************)
(* The cleanup of a client task.                                           *)
(***************************************************************************)
StopAudio(c) ==
  /\ Move(c, "closing", "untiming")
  /\ owner' = [owner EXCEPT !["audio"] = None]
  /\ UNCHANGED <<serverVars, slots, ptp, resume, airplay>>

HasDacpRemote(c) == client[c].version = 1 /\ client[c].remote

StopTiming(c) ==                \* ntp_clock_stop, and no grace for this client
  /\ Move(c, "untiming", "ending")
  /\ HasDacpRemote(c) => slots[client[c].slot].stop
  /\ owner' = [owner EXCEPT !["ntp"] = None]
  /\ UNCHANGED <<serverVars, slots, ptp, resume, airplay>>

EnterGrace(c) ==                \* ntp_clock_stop, then PAUSED: an iPhone may only have paused
  /\ Move(c, "untiming", "settling")
  /\ HasDacpRemote(c) /\ ~slots[client[c].slot].stop
  /\ owner' = [owner EXCEPT !["ntp"] = None]
  /\ resume' = FALSE
  /\ airplay' = airplay \cup {"active"}
  /\ UNCHANGED <<serverVars, slots, ptp>>

Settled(c) ==                   \* phase 1 is over: 3 s, a resume request or a stop
  /\ Move(c, "settling", IF slots[client[c].slot].stop THEN "judging" ELSE "probing")
  /\ UNCHANGED <<serverVars, slots, shared>>

(***************************************************************************)
(* dacp_probe_service asks mDNS whether the phone still advertises the     *)
(* session; without a session it answers no.  A resume request outweighs   *)
(* the first probe only.                                                   *)
(***************************************************************************)
Probes(found) == found \in {b \in BOOLEAN : b => owner["dacp"] # None}
Stays(c, found) == IF found /\ ~slots[client[c].slot].stop THEN "waiting" ELSE "judging"

FirstProbe(c, found) ==
  /\ Probes(found)
  /\ Move(c, "probing", Stays(c, found \/ resume))
  /\ resume' = FALSE
  /\ UNCHANGED <<serverVars, slots, owner, ptp, airplay>>

AbsorbResume(c) ==
  /\ client[c].at = "waiting" /\ resume
  /\ resume' = FALSE
  /\ UNCHANGED <<serverVars, slots, client, owner, ptp, airplay>>

Waited(c) ==                    \* 5 s have passed, or a stop
  /\ Move(c, "waiting", IF slots[client[c].slot].stop THEN "judging" ELSE "reprobing")
  /\ UNCHANGED <<serverVars, slots, shared>>

Reprobe(c, found) ==
  /\ Probes(found)
  /\ Move(c, "reprobing", Stays(c, found))
  /\ UNCHANGED <<serverVars, slots, shared>>

Reconnected(c) ==               \* replaced during the grace period: the session goes on
  /\ slots[client[c].slot].old
  /\ Move(c, "judging", "restoring")
  /\ UNCHANGED <<serverVars, slots, shared>>

EndSessionUntold(c) ==          \* mutant: no DISCONNECTED
  /\ Move(c, "ending", "restoring")
  /\ owner' = [owner EXCEPT !["dacp"] = None]
  /\ UNCHANGED <<serverVars, slots, ptp, resume, airplay>>

EndSession(c) ==                \* dacp_clear_session and DISCONNECTED
  /\ Move(c, "ending", "restoring")
  /\ owner' = [owner EXCEPT !["dacp"] = None]
  /\ airplay' = {}
  /\ UNCHANGED <<serverVars, slots, ptp, resume>>

GraceExpires(c) ==
  /\ ~slots[client[c].slot].old
  /\ Move(c, "judging", "restoring")
  /\ owner' = [owner EXCEPT !["dacp"] = None]
  /\ airplay' = {}
  /\ UNCHANGED <<serverVars, slots, ptp, resume>>

RestorePtp(c) ==
  /\ ~slots[client[c].slot].old
  /\ Move(c, "restoring", "unporting")
  /\ ptp' = TRUE
  /\ UNCHANGED <<serverVars, slots, owner, resume, airplay>>

StopEventPort(c) ==
  /\ Move(c, "unporting", "freeing")
  /\ owner' = [owner EXCEPT !["event"] = None]
  /\ UNCHANGED <<serverVars, slots, ptp, resume, airplay>>

SkipRestoreAll(c) ==            \* mutant: the event port is left to the new session
  /\ slots[client[c].slot].old
  /\ Move(c, "restoring", "freeing")
  /\ UNCHANGED <<serverVars, slots, shared>>

SkipRestore(c) ==               \* a replaced task stops the event port only if it listens on its own socket
  /\ slots[client[c].slot].old
  /\ Move(c, "restoring", "freeing")
  /\ owner' = [owner EXCEPT !["event"] = IF @ = c THEN None ELSE @]
  /\ UNCHANGED <<serverVars, slots, ptp, resume, airplay>>

VacateSlot(c) ==                \* rtsp_conn_free, then the slot is given back
  /\ client[c].at = "freeing"
  /\ client' = [client EXCEPT ![c] = Blank("vacating", client[c].slot)]
  /\ slots' = [slots EXCEPT ![client[c].slot].task = None]
  /\ UNCHANGED <<serverVars, shared>>

ResetFlags(c) ==
  /\ client[c].at = "vacating"
  /\ client' = [client EXCEPT ![c] = Gone]
  /\ slots' = [slots EXCEPT ![client[c].slot].stop = FALSE, ![client[c].slot].old = FALSE]
  /\ UNCHANGED <<serverVars, shared>>

-----------------------------------------------------------------------------
ServerStep ==
  \/ Listen \/ BindFails \/ Spawn \/ SpawnFails \/ CheckSpawned \/ LeaveAcceptLoop \/ ServerExits
  \/ \E stage \in {"other", "current"} :
       SlotIdle(stage) \/ SignalStop(stage) \/ JoinSucceeds(stage) \/ JoinExpires(stage)

Request(c) ==
  \/ \E version \in {1, 2}, remote \in BOOLEAN : Negotiate(c, version, remote)
  \/ Setup1(c) \/ Setup1Fails(c) \/ Setup2(c) \/ SetupStream(c) \/ Record(c) \/ Pause(c)
  \/ \E rate \in {0, 1} : SetRate(c, rate)
  \/ \E streams \in BOOLEAN : Teardown(c, streams)

ClientStep(c) ==
  \/ Begin(c) \/ BeginFails(c) \/ LoopEnds(c) \/ StopAudio(c) \/ StopTiming(c) \/ EnterGrace(c) \/ Settled(c)
  \/ \E found \in BOOLEAN : FirstProbe(c, found) \/ Reprobe(c, found)
  \/ Waited(c) \/ Reconnected(c) \/ EndSession(c) \/ GraceExpires(c) \/ RestorePtp(c) \/ StopEventPort(c)
  \/ SkipRestore(c) \/ VacateSlot(c) \/ ResetFlags(c)

Outside ==
  \/ Stop \/ Start \/ EventPeerConnects \/ RequestResume
  \/ \E c \in Clients : Accept(c) \/ Request(c) \/ PeerCloses(c) \/ AbsorbResume(c)

(***************************************************************************)
(* Every connection of the bound has been made: only a rtsp_server_stop    *)
(* could follow.  Any other state without a successor is a deadlock.       *)
(***************************************************************************)
AllServed == server.at = "accepting" /\ (\A c \in Clients : client[c].at = "done") /\ UNCHANGED vars

Next == AllServed \/ ServerStep \/ Outside \/ \E c \in Clients : ClientStep(c)

(***************************************************************************)
(* The FreeRTOS tasks run and every wait in them has a limit, so a task    *)
(* that can take a step takes one.  Nothing is assumed of senders, phones, *)
(* buttons or the callers of rtsp_server_stop and rtsp_server_start.       *)
(***************************************************************************)
Fairness == WF_vars(ServerStep) /\ \A c \in Clients : WF_vars(ClientStep(c))

Spec == Init /\ [][Next]_vars /\ Fairness

-----------------------------------------------------------------------------
(***************************************************************************)
(* rtsp_server.c:644: a replacement client must not start SETUP while the  *)
(* previous client is still destroying the process-wide resources: no task *)
(* is served while another is in its cleanup.                              *)
(***************************************************************************)
ReplacementWaits ==
  \A c, d \in Clients : client[c].at \in Serving => client[d].at \notin Closing

(***************************************************************************)
(* That holds until the server is first stopped, whatever joins expire and *)
(* whatever fails.                                                         *)
(***************************************************************************)
OneSessionAtATime == stops = 0 => ReplacementWaits

(***************************************************************************)
(* The receiver, the NTP client and the event port task, which work with   *)
(* a connection's sockets and keys, never outlive the task that started    *)
(* them, however the cleanup of that task and a restart interleave.        *)
(***************************************************************************)
NothingOutlivesItsTask ==
  \A r \in Resources \ {"dacp"} : owner[r] # None => client[owner[r]].at \in Serving \cup Closing

(***************************************************************************)
(* Until the server is first stopped, a step of one task takes no resource *)
(* from another task that is being served, does not touch its clock and    *)
(* does not tell the players that its session is over.                     *)
(***************************************************************************)
NoForeignTeardown ==
  [][\A c, d \in Clients :
       stops = 0 /\ c # d /\ client[c].at \in Serving /\ client'[d].at # client[d].at =>
         /\ \A r \in Resources : owner[r] = c => owner'[r] = c
         /\ ptp' = ptp
         /\ airplay \subseteq airplay']_vars

Quiet == server.at = "accepting" /\ \A c \in Clients : client[c].at \in {"outside", "done"}

(***************************************************************************)
(* If joins end in time and nothing runs out, then once the last client    *)
(* has left, through whatever chain of pauses and replacements, PTP runs   *)
(* again, every resource is free, and a session whose PAUSED was reported  *)
(* was taken over by the client that replaced it or reported as ended      *)
(* (rtsp_handlers.c:1800: the cleanup emits DISCONNECTED when the TCP      *)
(* connection closes).                                                     *)
(***************************************************************************)
QuietIsClean ==
  Quiet => ptp /\ airplay # {"active"} /\ \A r \in Resources : owner[r] = None

(***************************************************************************)
(* A task that has been told to stop leaves its slot, from a request, from *)
(* any step of its cleanup and from the grace period, unless the last      *)
(* steps of the slot's previous task wipe the request.                     *)
(***************************************************************************)
StopHonoured ==
  \A s \in Slots, c \in Clients :
    slots[s].task = c /\ slots[s].stop ~> slots[s].task # c \/ ~slots[s].stop

(***************************************************************************)
(* A connection that was accepted gets its task or is closed; the accept   *)
(* loop never stays in a join.                                             *)
(***************************************************************************)
Answered == \A c \in Clients : client[c].at = "held" ~> client[c].at # "held"
=============================================================================
