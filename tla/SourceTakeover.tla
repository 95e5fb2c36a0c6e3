---------------------------- MODULE SourceTakeover ----------------------------
(***************************************************************************)
(* Who plays: the DLNA renderer and its player task, the AirPlay events    *)
(* that displace it, the owner the source manager keeps, and the source    *)
(* that buttons and MQTT act on (dlna_renderer.c, source_manager.c,        *)
(* playback_control.c, main.c).  The output that the player takes and      *)
(* gives back is the business of OutputHandover.                           *)
(*                                                                         *)
(* A step is one access to what the tasks share.  Each task but the player *)
(* is in at most one call at a time: HTTP requests (DLNA control and the   *)
(* web interface) are served by one task, and the events of an AirPlay     *)
(* session follow one another.                                             *)
(***************************************************************************)
CONSTANTS
  WaitExpires,   \* may the 2 s wait for the player to end run out?
  CallsFail      \* may a task not be created?

ASSUME TakeoverAssumption == WaitExpires \in BOOLEAN /\ CallsFail \in BOOLEAN

VARIABLES
  owner,     \* s_current of the source manager
  source,    \* s_source of playback_control
  claimed,   \* s_airplay_active
  stop,      \* s_stop_requested
  pause,     \* s_pause_requested
  state,     \* s_state
  player,    \* where player_task is; "none" when s_player_task is NULL
  http,      \* where the request the HTTP task serves is
  emit,      \* where the listener of an AirPlay event is, for each task that emits
  session,   \* the AirPlay session
  services   \* AirPlay takes connections: the network monitor has not stopped it

dlnaFlags == <<stop, pause, state>>
vars == <<owner, source, claimed, dlnaFlags, player, http, emit, session, services>>

Emitters == {"session", "button"}

TypeOK ==
  /\ owner \in {"none", "dlna", "airplay"}
  /\ source \in {"none", "dlna", "airplay"}
  /\ claimed \in BOOLEAN /\ stop \in BOOLEAN /\ pause \in BOOLEAN
  /\ state \in {"stopped", "transitioning", "playing", "paused"}
  /\ player \in {"none", "begun", "aiming", "opening", "streaming", "closing", "releasing", "returning"}
  /\ http \in {"idle", "resuming", "checking", "stopping", "awaiting", "acquiring", "resetting", "creating",
               "announcing"}
  /\ emit \in [Emitters -> {"idle", "aiming", "claiming", "stopping", "awaiting", "releasing", "unaiming",
                            "toggling"}]
  /\ session \in {"none", "v1", "v2"}
  /\ services \in BOOLEAN
  /\ http \in {"acquiring", "resetting", "creating"} => player = "none"     \* one player task at a time

Init ==                         \* start_airplay_services has run
  /\ owner = "none" /\ source = "none" /\ claimed = FALSE
  /\ stop = FALSE /\ pause = FALSE /\ state = "stopped"
  /\ player = "none" /\ http = "idle" /\ emit = [e \in Emitters |-> "idle"] /\ session = "none"
  /\ services = TRUE

-----------------------------------------------------------------------------
(***************************************************************************)
(* What the tasks call.                                                    *)
(***************************************************************************)
ReleaseAnyway(s) == owner' = "none"     \* mutant: the owner is not compared

Release(s) == owner' = IF owner = s THEN "none" ELSE owner

-----------------------------------------------------------------------------
(***************************************************************************)
(* player_task.                                                            *)
(***************************************************************************)
PlayerAt(from, to) == player = from /\ player' = to
playerElse == <<claimed, http, emit, session, services>>

GiveWay ==                      \* AirPlay came first: nothing was taken, nothing is given back
  /\ claimed
  /\ PlayerAt("begun", "none")
  /\ state' = "stopped"
  /\ UNCHANGED <<owner, source, stop, pause, playerElse>>

Begin ==
  /\ ~claimed
  /\ PlayerAt("begun", "aiming")
  /\ state' = "transitioning"
  /\ UNCHANGED <<owner, source, stop, pause, playerElse>>

AimAtDlna ==                    \* the playback task is stopped, or the 2 s for it are over
  /\ PlayerAt("aiming", "opening")
  /\ source' = "dlna"
  /\ UNCHANGED <<owner, dlnaFlags, playerElse>>

Opened ==                       \* the first bytes of the media have arrived
  /\ ~stop /\ ~claimed
  /\ PlayerAt("opening", "streaming")
  /\ state' = "playing"
  /\ UNCHANGED <<owner, source, stop, pause, playerElse>>

NotOpened ==                    \* no connection, no data, stopped or displaced
  /\ PlayerAt("opening", "closing")
  /\ UNCHANGED <<owner, source, dlnaFlags, playerElse>>

FadedOut ==                     \* the block that was to end in silence is written
  /\ PlayerAt("streaming", "streaming") /\ pause /\ state # "paused"
  /\ pause' = FALSE /\ state' = "paused"
  /\ UNCHANGED <<owner, source, stop, playerElse>>

StreamEnds(failed) ==           \* end of file; a failure raises s_stop_requested
  /\ state # "paused"
  /\ player = "streaming" /\ player' = "closing"
  /\ stop' = (stop \/ failed)
  /\ UNCHANGED <<owner, source, pause, state, playerElse>>

StreamStoppedUnpaused ==        \* mutant: the wait of a paused player does not look at s_stop_requested
  /\ stop /\ state # "paused"
  /\ player = "streaming" /\ player' = "closing"
  /\ UNCHANGED <<owner, source, dlnaFlags, playerElse>>

StreamStopped ==                \* paused or not
  /\ stop
  /\ player = "streaming" /\ player' = "closing"
  /\ UNCHANGED <<owner, source, dlnaFlags, playerElse>>

ResetPlayer ==
  /\ PlayerAt("closing", "releasing")
  /\ state' = "stopped" /\ stop' = FALSE /\ pause' = FALSE
  /\ UNCHANGED <<owner, source, playerElse>>

ReleaseDlna ==
  /\ PlayerAt("releasing", "returning")
  /\ Release("dlna")
  /\ source' = IF source = "dlna" THEN "none" ELSE source
  /\ UNCHANGED <<dlnaFlags, playerElse>>

PlayerEnds ==                   \* with restore_airplay_output
  /\ PlayerAt("returning", "none")
  /\ source' = "airplay"
  /\ UNCHANGED <<owner, dlnaFlags, playerElse>>

-----------------------------------------------------------------------------
(***************************************************************************)
(* The HTTP task: Play, Pause and Stop of the AVTransport service, and     *)
(* dlna_renderer_play_uri.                                                 *)
(***************************************************************************)
HttpAt(from, to) == http = from /\ http' = to
httpElse == <<claimed, emit, session, services>>

Play ==                         \* a paused player is resumed, any other is replaced
  /\ ~claimed
  /\ HttpAt("idle", IF state = "paused" THEN "resuming" ELSE "checking")
  /\ UNCHANGED <<owner, source, dlnaFlags, player, httpElse>>

Resume ==                       \* whatever has happened to the player since the test
  /\ HttpAt("resuming", "idle")
  /\ state' = "playing"
  /\ UNCHANGED <<owner, source, stop, pause, player, httpElse>>

PlayUri ==
  /\ ~claimed
  /\ HttpAt("idle", "checking")
  /\ UNCHANGED <<owner, source, dlnaFlags, player, httpElse>>

CheckStart ==                   \* start_player
  /\ HttpAt("checking", IF claimed THEN "idle" ELSE IF player = "none" THEN "acquiring" ELSE "stopping")
  /\ UNCHANGED <<owner, source, dlnaFlags, player, httpElse>>

StopFirst ==
  /\ HttpAt("stopping", "awaiting")
  /\ stop' = TRUE
  /\ UNCHANGED <<owner, source, pause, state, player, httpElse>>

FirstStopped ==
  /\ player = "none"
  /\ HttpAt("awaiting", "acquiring")
  /\ state' = "stopped"
  /\ UNCHANGED <<owner, source, stop, pause, player, httpElse>>

FirstStays ==
  /\ WaitExpires /\ player # "none"
  /\ HttpAt("awaiting", "idle")
  /\ UNCHANGED <<owner, source, dlnaFlags, player, httpElse>>

AcquireDlna ==
  /\ HttpAt("acquiring", IF owner = "airplay" THEN "idle" ELSE "resetting")
  /\ owner' = IF owner = "airplay" THEN owner ELSE "dlna"
  /\ UNCHANGED <<source, dlnaFlags, player, httpElse>>

ResetFlags ==
  /\ HttpAt("resetting", "creating")
  /\ stop' = FALSE /\ pause' = FALSE
  /\ UNCHANGED <<owner, source, state, player, httpElse>>

CreatePlayer ==
  /\ HttpAt("creating", "announcing")
  /\ player' = "begun"
  /\ UNCHANGED <<owner, source, dlnaFlags, httpElse>>

NoPlayer ==
  /\ CallsFail
  /\ HttpAt("creating", "idle")
  /\ Release("dlna")
  /\ UNCHANGED <<source, dlnaFlags, player, httpElse>>

AnnounceThenReset ==            \* mutant: the flags are cleared once the task exists
  /\ HttpAt("announcing", "idle")
  /\ source' = "dlna"
  /\ stop' = FALSE
  /\ UNCHANGED <<owner, pause, state, player, httpElse>>

Announce ==
  /\ HttpAt("announcing", "idle")
  /\ source' = "dlna"
  /\ UNCHANGED <<owner, dlnaFlags, player, httpElse>>

Pause ==
  /\ HttpAt("idle", "idle") /\ state = "playing"
  /\ pause' = TRUE
  /\ UNCHANGED <<owner, source, stop, state, player, httpElse>>

Stop ==                         \* stop_player(false): does not wait
  /\ HttpAt("idle", "idle")
  /\ stop' = TRUE
  /\ state' = IF player = "none" THEN "stopped" ELSE state
  /\ UNCHANGED <<owner, source, pause, player, httpElse>>

-----------------------------------------------------------------------------
(***************************************************************************)
(* AirPlay events, which on_airplay_dlna_event handles in the task that    *)
(* emits them.  CLIENT_CONNECTED comes from AirPlay 2 only; an AirPlay 1   *)
(* session is first heard of when it plays.                                *)
(***************************************************************************)
EmitAt(e, from, to) == emit[e] = from /\ emit' = [emit EXCEPT ![e] = to]
emitElse == <<player, http, services>>

Connect(version) ==             \* AirPlay 2 acquires the output first
  /\ session = "none" /\ services
  /\ session' = version
  /\ owner' = IF version = "v2" THEN "airplay" ELSE owner
  /\ EmitAt("session", "idle", IF version = "v2" THEN "aiming" ELSE "claiming")
  /\ UNCHANGED <<source, claimed, dlnaFlags, emitElse>>

PlayingOrPaused ==
  /\ session # "none"
  /\ EmitAt("session", "idle", "claiming")
  /\ UNCHANGED <<owner, source, claimed, session, dlnaFlags, emitElse>>

Disconnect ==                   \* dlna_renderer_set_airplay_active(false) comes first
  /\ session # "none"
  /\ session' = "none" /\ claimed' = FALSE
  /\ EmitAt("session", "idle", "releasing")
  /\ UNCHANGED <<owner, source, dlnaFlags, emitElse>>

TakeSource ==
  /\ EmitAt("session", "aiming", "claiming")
  /\ source' = "airplay"
  /\ UNCHANGED <<owner, claimed, session, dlnaFlags, emitElse>>

Claim(e) ==                     \* dlna_renderer_set_airplay_active(true)
  /\ EmitAt(e, "claiming", IF claimed THEN "idle" ELSE "stopping")
  /\ claimed' = TRUE
  /\ UNCHANGED <<owner, source, session, dlnaFlags, emitElse>>

TellPlayer(e) ==
  /\ EmitAt(e, "stopping", "awaiting")
  /\ stop' = TRUE
  /\ UNCHANGED <<owner, source, claimed, session, pause, state, emitElse>>

PlayerGone(e) ==
  /\ player = "none"
  /\ EmitAt(e, "awaiting", "idle")
  /\ state' = "stopped"
  /\ UNCHANGED <<owner, source, claimed, session, stop, pause, emitElse>>

PlayerStays(e) ==
  /\ WaitExpires /\ player # "none"
  /\ EmitAt(e, "awaiting", "idle")
  /\ UNCHANGED <<owner, source, claimed, session, dlnaFlags, emitElse>>

ReleaseAirPlay ==
  /\ EmitAt("session", "releasing", "unaiming")
  /\ Release("airplay")
  /\ UNCHANGED <<source, claimed, session, dlnaFlags, emitElse>>

DropSource ==
  /\ EmitAt("session", "unaiming", "idle")
  /\ source' = "none"
  /\ UNCHANGED <<owner, claimed, session, dlnaFlags, emitElse>>

(***************************************************************************)
(* playback_control_play_pause, from a button or MQTT.  A sender that      *)
(* DACP controls is asked and nothing changes here; without one the local  *)
(* gate is turned, and listeners are told PAUSED or PLAYING: they do the   *)
(* same for both.                                                          *)
(***************************************************************************)
ToggleGate ==
  /\ source = "airplay"
  /\ EmitAt("button", "idle", "claiming")
  /\ UNCHANGED <<owner, source, claimed, session, dlnaFlags, emitElse>>

TogglePause ==
  /\ source = "dlna" /\ state \in {"playing", "paused"}
  /\ EmitAt("button", "idle", IF state = "paused" THEN "toggling" ELSE "idle")
  /\ pause' = (pause \/ state = "playing")
  /\ UNCHANGED <<owner, source, claimed, session, stop, state, emitElse>>

ToggleResume ==
  /\ EmitAt("button", "toggling", "idle")
  /\ state' = "playing"
  /\ UNCHANGED <<owner, source, claimed, session, stop, pause, emitElse>>

-----------------------------------------------------------------------------
(***************************************************************************)
(* The network monitor: stop_airplay_services, at its end, and             *)
(* start_airplay_services.                                                 *)
(***************************************************************************)
ServicesStopped ==
  /\ services /\ services' = FALSE
  /\ source' = "none"
  /\ UNCHANGED <<owner, claimed, dlnaFlags, player, http, emit, session>>

ServicesStarted ==
  /\ ~services /\ services' = TRUE
  /\ UNCHANGED <<owner, source, claimed, dlnaFlags, player, http, emit, session>>

-----------------------------------------------------------------------------
PlayerStep ==
  \/ GiveWay \/ Begin \/ AimAtDlna \/ Opened \/ NotOpened \/ FadedOut
  \/ StreamStopped \/ ResetPlayer \/ ReleaseDlna \/ PlayerEnds

Serve ==
  \/ Resume \/ CheckStart \/ StopFirst \/ FirstStopped \/ FirstStays \/ AcquireDlna \/ ResetFlags \/ CreatePlayer
  \/ NoPlayer \/ Announce

Listen(e) == Claim(e) \/ TellPlayer(e) \/ PlayerGone(e) \/ PlayerStays(e)
SessionStep == TakeSource \/ ReleaseAirPlay \/ DropSource

Requests == Play \/ PlayUri \/ Pause \/ Stop
Events == (\E version \in {"v1", "v2"} : Connect(version)) \/ PlayingOrPaused \/ Disconnect

Next ==
  \/ PlayerStep \/ (\E failed \in BOOLEAN : StreamEnds(failed))
  \/ Serve \/ (\E e \in Emitters : Listen(e)) \/ SessionStep
  \/ Requests \/ Events \/ ToggleGate \/ TogglePause \/ ToggleResume
  \/ ServicesStopped \/ ServicesStarted

(***************************************************************************)
(* The player is a FreeRTOS task, and every read, write and wait of its    *)
(* has a limit, those for the playback task included.  A stream may be     *)
(* endless, and nothing is assumed of those who make requests or emit      *)
(* events.                                                                 *)
(***************************************************************************)
Fairness == WF_vars(PlayerStep) /\ WF_vars(StreamStopped)

Spec == Init /\ [][Next]_vars /\ Fairness

-----------------------------------------------------------------------------
TakeoverIsHeard ==
  claimed /\ (\A e \in Emitters : emit[e] # "stopping") /\ player = "streaming" => stop

OwnershipSurvives == session = "v2" => owner = "airplay"

(***************************************************************************)
(* Whatever Play requests race with it, a finished takeover leaves no      *)
(* player that streams without having been told to stop: the flags that    *)
(* start_player clears and the two tests of s_airplay_active in            *)
(* player_task leave no gap.  And from its CLIENT_CONNECTED to its         *)
(* DISCONNECTED an AirPlay 2 session owns the output, also when the player *)
(* it displaced ends and releases late, or after the 2 s wait for it.      *)
(***************************************************************************)
TakeoverHolds == TypeOK /\ TakeoverIsHeard /\ OwnershipSurvives

(***************************************************************************)
(* A stop request ends the player, paused or not, whoever made it.         *)
(***************************************************************************)
StopEndsPlayer == stop /\ player # "none" ~> player = "none"
=============================================================================
