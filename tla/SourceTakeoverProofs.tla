------------------------- MODULE SourceTakeoverProofs -------------------------
(***************************************************************************)
(* Proofs about SourceTakeover, what a takeover by AirPlay guarantees, and *)
(* about OutputHandover, who writes to the output and that it comes back;  *)
(* whether or not waits run out and tasks or memory are refused, and       *)
(* however often the network monitor and the speaker test intrude.         *)
(***************************************************************************)
EXTENDS SourceTakeover, OutputHandover, TLAPS

-----------------------------------------------------------------------------
(***************************************************************************)
(* A player that streams in spite of a claim has been told to stop, or the *)
(* emitter of that claim is about to tell it.  The AirPlay session gives   *)
(* up the ownership only once it is over.                                  *)
(***************************************************************************)
ClaimIsTold ==
  claimed /\ player = "streaming" => stop \/ \E e \in Emitters : emit[e] = "stopping"

ReleasesAfterwards == emit["session"] \in {"releasing", "unaiming"} => session = "none"

ClaimKept == ClaimIsTold /\ ReleasesAfterwards /\ OwnershipSurvives

TakeoverInv == TypeOK /\ ClaimKept

-----------------------------------------------------------------------------
(***************************************************************************)
(* Types.                                                                  *)
(***************************************************************************)
LEMMA EmitTyped ==
  ASSUME TypeOK, NEW e \in Emitters, NEW from,
         NEW to \in {"idle", "aiming", "claiming", "stopping", "awaiting", "releasing", "unaiming", "toggling"},
         EmitAt(e, from, to)
  PROVE  /\ emit' \in [Emitters -> {"idle", "aiming", "claiming", "stopping", "awaiting", "releasing", "unaiming",
                                    "toggling"}]
         /\ emit[e] = from /\ emit'[e] = to
         /\ \A f \in Emitters \ {e} : emit'[f] = emit[f]
  BY DEF TypeOK, EmitAt

LEMMA PlayerTyped == TypeOK /\ (PlayerStep \/ \E failed \in BOOLEAN : StreamEnds(failed)) => TypeOK'
<1> SUFFICES ASSUME TypeOK, PlayerStep \/ \E failed \in BOOLEAN : StreamEnds(failed) PROVE TypeOK'
  OBVIOUS
<1> USE DEF TypeOK, PlayerAt, playerElse, dlnaFlags
<1>1. CASE GiveWay
  BY <1>1 DEF GiveWay
<1>2. CASE Begin
  BY <1>2 DEF Begin
<1>4. CASE AimAtDlna
  BY <1>4 DEF AimAtDlna
<1>5. CASE Opened
  BY <1>5 DEF Opened
<1>6. CASE NotOpened
  BY <1>6 DEF NotOpened
<1>8. CASE FadedOut
  <2>1. pause' \in BOOLEAN
    BY <1>8 DEF FadedOut
  <2> QED BY <1>8, <2>1 DEF FadedOut
<1>9. CASE StreamStopped
  BY <1>9 DEF StreamStopped
<1>10. CASE ResetPlayer
  <2>1. stop' \in BOOLEAN /\ pause' \in BOOLEAN
    BY <1>10 DEF ResetPlayer
  <2> QED BY <1>10, <2>1 DEF ResetPlayer
<1>11. CASE ReleaseDlna
  BY <1>11 DEF ReleaseDlna, Release
<1>14. CASE PlayerEnds
  BY <1>14 DEF PlayerEnds
<1>15. ASSUME NEW failed \in BOOLEAN, StreamEnds(failed) PROVE TypeOK'
  BY <1>15 DEF StreamEnds
<1> QED BY <1>1, <1>2, <1>4, <1>5, <1>6, <1>8, <1>9, <1>10, <1>11, <1>14, <1>15 DEF PlayerStep

LEMMA ServeTyped == TypeOK /\ (Serve \/ Requests) => TypeOK'
<1> SUFFICES ASSUME TypeOK, Serve \/ Requests PROVE TypeOK'
  OBVIOUS
<1> USE DEF TypeOK, HttpAt, httpElse, dlnaFlags
<1>1. CASE Resume
  BY <1>1 DEF Resume
<1>2. CASE CheckStart
  BY <1>2 DEF CheckStart
<1>3. CASE StopFirst
  BY <1>3 DEF StopFirst
<1>4. CASE FirstStopped
  BY <1>4 DEF FirstStopped
<1>5. CASE FirstStays
  BY <1>5 DEF FirstStays
<1>6. CASE AcquireDlna
  BY <1>6 DEF AcquireDlna
<1>7. CASE ResetFlags
  <2>1. stop' \in BOOLEAN /\ pause' \in BOOLEAN
    BY <1>7 DEF ResetFlags
  <2> QED BY <1>7, <2>1 DEF ResetFlags
<1>8. CASE CreatePlayer
  BY <1>8 DEF CreatePlayer
<1>9. CASE NoPlayer
  BY <1>9 DEF NoPlayer, Release
<1>10. CASE Announce
  BY <1>10 DEF Announce
<1>11. CASE Play \/ PlayUri
  BY <1>11 DEF Play, PlayUri
<1>12. CASE Pause \/ Stop
  <2>1. stop' \in BOOLEAN /\ pause' \in BOOLEAN
    BY <1>12 DEF Pause, Stop
  <2> QED BY <1>12, <2>1 DEF Pause, Stop
<1> QED BY <1>1, <1>2, <1>3, <1>4, <1>5, <1>6, <1>7, <1>8, <1>9, <1>10, <1>11, <1>12 DEF Serve, Requests

LEMMA ListenTyped == TypeOK /\ (\E e \in Emitters : Listen(e)) => TypeOK'
<1> SUFFICES ASSUME TypeOK, NEW e \in Emitters, Listen(e) PROVE TypeOK'
  OBVIOUS
<1> USE DEF emitElse, dlnaFlags
<1>1. CASE Claim(e)
  <2>1. EmitAt(e, "claiming", IF claimed THEN "idle" ELSE "stopping")
    BY <1>1 DEF Claim
  <2> QED BY <1>1, <2>1, EmitTyped DEF Claim, TypeOK
<1>2. CASE TellPlayer(e)
  BY <1>2, EmitTyped DEF TellPlayer, TypeOK
<1>3. CASE PlayerGone(e)
  BY <1>3, EmitTyped DEF PlayerGone, TypeOK
<1>4. CASE PlayerStays(e)
  BY <1>4, EmitTyped DEF PlayerStays, TypeOK
<1> QED BY <1>1, <1>2, <1>3, <1>4 DEF Listen

LEMMA SessionTyped == TypeOK /\ (SessionStep \/ Events \/ ToggleGate \/ TogglePause \/ ToggleResume) => TypeOK'
<1> SUFFICES ASSUME TypeOK, SessionStep \/ Events \/ ToggleGate \/ TogglePause \/ ToggleResume PROVE TypeOK'
  OBVIOUS
<1> USE DEF emitElse, dlnaFlags
<1>1. "session" \in Emitters /\ "button" \in Emitters
  BY DEF Emitters
<1>2. CASE TakeSource
  BY <1>1, <1>2, EmitTyped DEF TakeSource, TypeOK
<1>3. CASE ReleaseAirPlay
  BY <1>1, <1>3, EmitTyped DEF ReleaseAirPlay, Release, TypeOK
<1>4. CASE DropSource
  BY <1>1, <1>4, EmitTyped DEF DropSource, TypeOK
<1>5. ASSUME NEW version \in {"v1", "v2"}, Connect(version) PROVE TypeOK'
  <2>1. EmitAt("session", "idle", IF version = "v2" THEN "aiming" ELSE "claiming")
    BY <1>5 DEF Connect
  <2> QED BY <1>1, <1>5, <2>1, EmitTyped DEF Connect, TypeOK
<1>6. CASE PlayingOrPaused
  BY <1>1, <1>6, EmitTyped DEF PlayingOrPaused, TypeOK
<1>7. CASE Disconnect
  <2>1. claimed' \in BOOLEAN
    BY <1>7 DEF Disconnect
  <2> QED BY <1>1, <1>7, <2>1, EmitTyped DEF Disconnect, TypeOK
<1>8. CASE ToggleGate
  BY <1>1, <1>8, EmitTyped DEF ToggleGate, TypeOK
<1>9. CASE TogglePause
  <2>1. EmitAt("button", "idle", IF state = "paused" THEN "toggling" ELSE "idle")
    BY <1>9 DEF TogglePause
  <2> QED BY <1>1, <1>9, <2>1, EmitTyped DEF TogglePause, TypeOK
<1>10. CASE ToggleResume
  BY <1>1, <1>10, EmitTyped DEF ToggleResume, TypeOK
<1> QED BY <1>2, <1>3, <1>4, <1>5, <1>6, <1>7, <1>8, <1>9, <1>10 DEF SessionStep, Events

LEMMA MonitorTyped == TypeOK /\ (ServicesStopped \/ ServicesStarted) => TypeOK'
<1>1. ASSUME TypeOK, ServicesStopped \/ ServicesStarted
      PROVE  /\ services' \in BOOLEAN /\ source' \in {"none", "dlna", "airplay"}
             /\ UNCHANGED <<owner, claimed, stop, pause, state, player, http, emit, session>>
  BY <1>1 DEF TypeOK, ServicesStopped, ServicesStarted, dlnaFlags
<1> QED BY <1>1 DEF TypeOK

(***************************************************************************)
(* Every step keeps the types of all variables, and starts a player only   *)
(* when there is none.                                                     *)
(***************************************************************************)
LEMMA StepTyped == TypeOK /\ [Next]_vars => TypeOK'
<1>1. ASSUME TypeOK, UNCHANGED vars PROVE TypeOK'
  BY <1>1 DEF TypeOK, vars, dlnaFlags
<1> QED BY <1>1, PlayerTyped, ServeTyped, ListenTyped, SessionTyped, MonitorTyped DEF Next

-----------------------------------------------------------------------------
(***************************************************************************)
(* The claim.  A player that is about to stream looks at the flags after   *)
(* start_player has cleared them, so that no claim is overlooked.          *)
(***************************************************************************)
LEMMA PlayerKeepsClaim ==
  TypeOK /\ ClaimKept /\ (PlayerStep \/ \E failed \in BOOLEAN : StreamEnds(failed)) => ClaimKept'
<1> SUFFICES ASSUME TypeOK, ClaimKept, PlayerStep \/ \E failed \in BOOLEAN : StreamEnds(failed)
             PROVE  ClaimKept'
  OBVIOUS
<1> USE DEF ClaimKept, ClaimIsTold, ReleasesAfterwards, OwnershipSurvives, PlayerAt, playerElse
<1>1. CASE GiveWay \/ Begin
  BY <1>1 DEF GiveWay, Begin
<1>2. CASE AimAtDlna \/ NotOpened
  BY <1>2 DEF AimAtDlna, NotOpened
<1>3. CASE Opened
  BY <1>3 DEF Opened
<1>5. CASE FadedOut
  BY <1>5 DEF FadedOut
<1>6. CASE StreamStopped
  BY <1>6 DEF StreamStopped
<1>7. CASE ResetPlayer
  BY <1>7 DEF ResetPlayer
<1>8. CASE ReleaseDlna
  BY <1>8 DEF ReleaseDlna, Release
<1>9. CASE PlayerEnds
  BY <1>9 DEF PlayerEnds
<1>10. ASSUME NEW failed \in BOOLEAN, StreamEnds(failed) PROVE ClaimKept'
  BY <1>10 DEF StreamEnds
<1> QED BY <1>1, <1>2, <1>3, <1>5, <1>6, <1>7, <1>8, <1>9, <1>10 DEF PlayerStep

LEMMA RequestKeepsClaim == TypeOK /\ ClaimKept /\ (Serve \/ Requests) => ClaimKept'
<1> SUFFICES ASSUME TypeOK, ClaimKept, Serve \/ Requests PROVE ClaimKept'
  OBVIOUS
<1> USE DEF ClaimKept, ClaimIsTold, ReleasesAfterwards, OwnershipSurvives, HttpAt, httpElse
<1>1. CASE Resume \/ CheckStart \/ StopFirst \/ FirstStopped \/ FirstStays
  BY <1>1 DEF Resume, CheckStart, StopFirst, FirstStopped, FirstStays, dlnaFlags
<1>2. CASE AcquireDlna
  BY <1>2 DEF AcquireDlna, dlnaFlags
<1>3. CASE ResetFlags
  BY <1>3 DEF ResetFlags, TypeOK
<1>4. CASE CreatePlayer
  BY <1>4 DEF CreatePlayer
<1>5. CASE NoPlayer
  BY <1>5 DEF NoPlayer, Release, dlnaFlags
<1>6. CASE Announce
  BY <1>6 DEF Announce, dlnaFlags
<1>7. CASE Play \/ PlayUri \/ Pause \/ Stop
  BY <1>7 DEF Play, PlayUri, Pause, Stop, dlnaFlags
<1> QED BY <1>1, <1>2, <1>3, <1>4, <1>5, <1>6, <1>7 DEF Serve, Requests

LEMMA ListenKeepsClaim == TypeOK /\ ClaimKept /\ (\E e \in Emitters : Listen(e)) => ClaimKept'
<1> SUFFICES ASSUME TypeOK, ClaimKept, NEW e \in Emitters, Listen(e) PROVE ClaimKept'
  OBVIOUS
<1> USE DEF ClaimKept, ClaimIsTold, ReleasesAfterwards, OwnershipSurvives, emitElse
<1>1. CASE Claim(e)
  <2>1. EmitAt(e, "claiming", IF claimed THEN "idle" ELSE "stopping") /\ UNCHANGED <<owner, session, stop, player>>
    BY <1>1 DEF Claim, dlnaFlags
  <2>2. /\ emit[e] = "claiming" /\ emit'[e] = IF claimed THEN "idle" ELSE "stopping"
        /\ \A f \in Emitters \ {e} : emit'[f] = emit[f]
    BY <2>1, EmitTyped
  <2>3. ClaimIsTold'
    BY <2>1, <2>2
  <2>4. ReleasesAfterwards' /\ OwnershipSurvives'
    BY <2>1, <2>2 DEF Emitters
  <2> QED BY <2>3, <2>4
<1>2. CASE TellPlayer(e) \/ PlayerGone(e) \/ PlayerStays(e)
  <2>1. /\ emit[e] \in {"stopping", "awaiting"} /\ emit'[e] \in {"awaiting", "idle"}
        /\ \A f \in Emitters \ {e} : emit'[f] = emit[f]
    BY <1>2, EmitTyped DEF TellPlayer, PlayerGone, PlayerStays
  <2>2. UNCHANGED <<owner, session, claimed, player>>
    BY <1>2 DEF TellPlayer, PlayerGone, PlayerStays
  <2>3. stop' \/ (UNCHANGED stop /\ emit[e] = "awaiting")
    BY <1>2 DEF TellPlayer, PlayerGone, PlayerStays, dlnaFlags, EmitAt
  <2>4. ClaimIsTold'
    BY <2>1, <2>2, <2>3
  <2>5. ReleasesAfterwards' /\ OwnershipSurvives'
    BY <2>1, <2>2 DEF Emitters
  <2> QED BY <2>4, <2>5
<1> QED BY <1>1, <1>2 DEF Listen

LEMMA SessionKeepsClaim ==
  TypeOK /\ ClaimKept /\ (SessionStep \/ Events \/ ToggleGate \/ TogglePause \/ ToggleResume) => ClaimKept'
<1> SUFFICES ASSUME TypeOK, ClaimKept, SessionStep \/ Events \/ ToggleGate \/ TogglePause \/ ToggleResume
             PROVE  ClaimKept'
  OBVIOUS
<1> USE DEF ClaimKept, ClaimIsTold, ReleasesAfterwards, OwnershipSurvives, Emitters, dlnaFlags, emitElse
<1>1. "session" \in Emitters /\ "button" \in Emitters
  OBVIOUS
<1>2. CASE TakeSource
  BY <1>1, <1>2, EmitTyped DEF TakeSource
<1>3. CASE ReleaseAirPlay
  BY <1>1, <1>3, EmitTyped DEF ReleaseAirPlay, Release
<1>4. CASE DropSource
  BY <1>1, <1>4, EmitTyped DEF DropSource
<1>5. ASSUME NEW version \in {"v1", "v2"}, Connect(version) PROVE ClaimKept'
  <2>1. EmitAt("session", "idle", IF version = "v2" THEN "aiming" ELSE "claiming")
    BY <1>5 DEF Connect
  <2> QED BY <1>1, <1>5, <2>1, EmitTyped DEF Connect
<1>6. CASE PlayingOrPaused
  BY <1>1, <1>6, EmitTyped DEF PlayingOrPaused
<1>7. CASE Disconnect
  BY <1>1, <1>7, EmitTyped DEF Disconnect
<1>8. CASE ToggleGate
  BY <1>1, <1>8, EmitTyped DEF ToggleGate
<1>9. CASE TogglePause
  <2>1. EmitAt("button", "idle", IF state = "paused" THEN "toggling" ELSE "idle")
    BY <1>9 DEF TogglePause
  <2>2. UNCHANGED <<owner, session, claimed, player, stop>>
    BY <1>9 DEF TogglePause
  <2> QED BY <1>1, <2>1, <2>2, EmitTyped
<1>10. CASE ToggleResume
  BY <1>1, <1>10, EmitTyped DEF ToggleResume
<1> QED BY <1>2, <1>3, <1>4, <1>5, <1>6, <1>7, <1>8, <1>9, <1>10 DEF SessionStep, Events

LEMMA StepKeepsClaim == TypeOK /\ ClaimKept /\ [Next]_vars => ClaimKept'
<1> SUFFICES ASSUME TypeOK, ClaimKept, [Next]_vars PROVE ClaimKept'
  OBVIOUS
<1>1. ASSUME UNCHANGED <<claimed, player, stop, emit, session, owner>> PROVE ClaimKept'
  BY <1>1 DEF ClaimKept, ClaimIsTold, ReleasesAfterwards, OwnershipSurvives
<1>2. ASSUME UNCHANGED vars \/ ServicesStopped \/ ServicesStarted
      PROVE  UNCHANGED <<claimed, player, stop, emit, session, owner>>
  BY <1>2 DEF vars, dlnaFlags, ServicesStopped, ServicesStarted
<1> QED BY <1>1, <1>2, PlayerKeepsClaim, RequestKeepsClaim, ListenKeepsClaim, SessionKeepsClaim DEF Next

-----------------------------------------------------------------------------
(***************************************************************************)
(* The theorems.                                                           *)
(***************************************************************************)
LEMMA InitInv == Init => TakeoverInv
<1> SUFFICES ASSUME Init PROVE TakeoverInv
  OBVIOUS
<1>1. TypeOK
  <2>1. claimed \in BOOLEAN /\ stop \in BOOLEAN /\ pause \in BOOLEAN
    BY DEF Init
  <2> QED BY <2>1 DEF Init, TypeOK
<1>3. ClaimKept
  BY DEF Init, ClaimKept, ClaimIsTold, ReleasesAfterwards, OwnershipSurvives, Emitters
<1> QED BY <1>1, <1>3 DEF TakeoverInv

(***************************************************************************)
(* The inductive invariant holds: a player that streams in spite of a      *)
(* claim has been told to stop or is about to be, and a session that has   *)
(* begun keeps the output.                                                 *)
(***************************************************************************)
THEOREM TakeoverInvariant == Spec => []TakeoverInv
<1>1. TakeoverInv /\ [Next]_vars => TakeoverInv'
  BY StepTyped, StepKeepsClaim DEF TakeoverInv
<1> QED BY <1>1, InitInv, PTL DEF Spec

(***************************************************************************)
(* A finished takeover leaves no player that streams untold, and an        *)
(* AirPlay 2 session owns the output until it disconnects.                 *)
(***************************************************************************)
THEOREM TakeoverAlwaysHolds == Spec => []TakeoverHolds
<1>1. TakeoverInv => TakeoverHolds
  BY DEF TakeoverInv, ClaimKept, ClaimIsTold, TakeoverHolds, TakeoverIsHeard
<1> QED BY <1>1, TakeoverInvariant, PTL
-----------------------------------------------------------------------------
(***************************************************************************)
(* The output.  Whatever the callers do, as long as nothing has gone       *)
(* amiss there is at most one playback task, the handle is its own, one    *)
(* that is to leave is waited for, and one that has left although it is    *)
(* wanted again is about to be replaced.                                   *)
(***************************************************************************)
OneTask == "crossed" \notin amiss => (Alive = 0 /\ ~handle) \/ (Alive = 1 /\ handle)
LeaverAwaited == amiss = {} /\ handle /\ ~running => \E c \in Callers : call[c] = "waiting"
EnderReplaced == amiss = {} /\ ending > 0 /\ running => \E c \in Callers : call[c] = "creating"

Orderly == OneTask /\ LeaverAwaited /\ EnderReplaced

LEMMA PlaybackOrderly ==
  OutputTypeOK /\ Orderly /\ PlaybackTask => OutputTypeOK' /\ Orderly'
<1> SUFFICES ASSUME OutputTypeOK, Orderly, PlaybackTask PROVE OutputTypeOK' /\ Orderly'
  OBVIOUS
<1> USE DEF OutputTypeOK, Orderly, OneTask, LeaverAwaited, EnderReplaced, Alive
<1>1. CASE LeaveLoop
  BY <1>1 DEF LeaveLoop
<1>2. CASE ClearHandle
  <2>1. ending > 0 /\ ending' = ending - 1 /\ UNCHANGED <<running, looping, call, amiss>>
    BY <1>2 DEF ClearHandle
  <2>2. ~handle' /\ handle' \in BOOLEAN
    BY <1>2 DEF ClearHandle
  <2>3. OutputTypeOK'
    BY <2>1, <2>2
  <2>4. OneTask'
    BY <2>1, <2>2
  <2> QED BY <2>1, <2>2, <2>3, <2>4
<1> QED BY <1>1, <1>2 DEF PlaybackTask

LEMMA CallMoves ==
  ASSUME OutputTypeOK, NEW c \in Callers, NEW from, NEW to \in Calls, CallAt(c, from, to)
  PROVE  /\ call' \in [Callers -> Calls] /\ call[c] = from /\ call'[c] = to
         /\ \A d \in Callers \ {c} : call'[d] = call[d]
  BY DEF OutputTypeOK, CallAt

LEMMA TestMoves ==
  ASSUME OutputTypeOK, NEW c \in Callers, TestToStop(c) \/ TestToStart(c) \/ CallStop(c) \/ CallStart(c)
  PROVE  /\ call' \in [Callers -> Calls] /\ call[c] \in {"none", "stopping", "starting"}
         /\ call'[c] \in {"none", "stopping", "starting", "telling", "raising"}
         /\ \A d \in Callers \ {c} : call'[d] = call[d]
         /\ UNCHANGED <<handle, running, looping, ending, amiss>>
<1>1. CASE TestToStop(c)
  <2>1. CallAt(c, "stopping", IF handle THEN "telling" ELSE "none")
    BY <1>1 DEF TestToStop
  <2> QED BY <1>1, <2>1, CallMoves DEF TestToStop, Calls, taskElse
<1>2. CASE TestToStart(c)
  <2>1. CallAt(c, "starting", IF handle THEN "none" ELSE "raising")
    BY <1>2 DEF TestToStart
  <2> QED BY <1>2, <2>1, CallMoves DEF TestToStart, Calls, taskElse
<1>3. CASE CallStop(c) \/ CallStart(c)
  BY <1>3, CallMoves DEF CallStop, CallStart, Calls, taskElse
<1> QED BY <1>1, <1>2, <1>3

LEMMA CallOrderly ==
  ASSUME OutputTypeOK, Orderly, NEW c \in Callers, OutputCall(c) \/ CallStop(c) \/ CallStart(c)
  PROVE  OutputTypeOK' /\ Orderly'
<1> USE DEF Orderly, OneTask, LeaverAwaited, EnderReplaced, Alive
<1>0. looping \in Nat /\ ending \in Nat /\ handle \in BOOLEAN /\ running \in BOOLEAN /\ amiss \subseteq Mishaps
  BY DEF OutputTypeOK
<1>1. CASE TestToStop(c) \/ TestToStart(c) \/ CallStop(c) \/ CallStart(c)
  <2>1. /\ call' \in [Callers -> Calls] /\ call[c] \in {"none", "stopping", "starting"}
        /\ \A d \in Callers \ {c} : call'[d] = call[d]
        /\ UNCHANGED <<handle, running, looping, ending, amiss>>
    BY <1>1, TestMoves
  <2>2. OutputTypeOK' /\ OneTask'
    BY <2>1 DEF OutputTypeOK
  <2>3. \A d \in Callers : call[d] \in {"waiting", "creating"} => call'[d] = call[d]
    BY <2>1
  <2> QED BY <2>1, <2>2, <2>3
<1>2. CASE TellToLeave(c)
  <2>1. CallAt(c, "telling", "waiting") /\ running' = FALSE /\ UNCHANGED <<handle, looping, ending, amiss>>
    BY <1>2 DEF TellToLeave, taskElse
  <2> QED BY <1>0, <2>1, CallMoves DEF OutputTypeOK, Calls
<1>3. CASE SeeItGone(c)
  <2>1. CallAt(c, "waiting", "none") /\ ~handle /\ UNCHANGED <<handle, running, looping, ending, amiss>>
    BY <1>3 DEF SeeItGone, taskElse
  <2> QED BY <1>0, <2>1, CallMoves DEF OutputTypeOK, Calls
<1>4. CASE GiveUpWaiting(c)
  <2>1. /\ CallAt(c, "waiting", "none") /\ UNCHANGED <<handle, running, looping, ending>>
        /\ amiss' = IF running THEN amiss ELSE amiss \cup {"expired"}
    BY <1>4 DEF GiveUpWaiting, taskElse
  <2>2. amiss' \subseteq Mishaps /\ ("crossed" \in amiss <=> "crossed" \in amiss')
    BY <1>0, <2>1 DEF Mishaps
  <2> QED BY <1>0, <2>1, <2>2, CallMoves DEF OutputTypeOK, Calls
<1>5. CASE RaiseRunning(c)
  <2>1. CallAt(c, "raising", "creating") /\ running' = TRUE /\ UNCHANGED <<handle, looping, ending, amiss>>
    BY <1>5 DEF RaiseRunning, taskElse
  <2> QED BY <1>0, <2>1, CallMoves DEF OutputTypeOK, Calls
<1>6. CASE Create(c)
  <2>1. /\ CallAt(c, "creating", "none") /\ handle' = TRUE /\ looping' = looping + 1 /\ UNCHANGED <<running, ending>>
        /\ amiss' = IF Crossed THEN amiss \cup {"crossed"} ELSE {}
    BY <1>6 DEF Create
  <2>2. amiss' \subseteq Mishaps /\ (Crossed => "crossed" \in amiss') /\ (~Crossed => Alive = 0 /\ running)
    BY <1>0, <2>1 DEF Mishaps, Crossed
  <2> QED BY <1>0, <2>1, <2>2, CallMoves DEF OutputTypeOK, Calls
<1>7. CASE CreateInVain(c)
  <2>1. /\ CallAt(c, "creating", "none") /\ handle' = TRUE /\ ending' = ending + 1 /\ UNCHANGED <<running, looping>>
        /\ amiss' = amiss \cup {"uncreated"} \cup (IF Crossed THEN {"crossed"} ELSE {})
    BY <1>7 DEF CreateInVain
  <2>2. amiss' \subseteq Mishaps /\ "uncreated" \in amiss' /\ (Crossed => "crossed" \in amiss')
        /\ (~Crossed => Alive = 0)
    BY <1>0, <2>1 DEF Mishaps, Crossed
  <2> QED BY <1>0, <2>1, <2>2, CallMoves DEF OutputTypeOK, Calls
<1>8. CASE NotCreated(c)
  <2>1. /\ CallAt(c, "creating", "none") /\ UNCHANGED <<handle, running, looping, ending>>
        /\ amiss' = amiss \cup {"uncreated"}
    BY <1>8 DEF NotCreated, taskElse
  <2>2. amiss' \subseteq Mishaps /\ ("crossed" \in amiss <=> "crossed" \in amiss') /\ amiss' # {}
    BY <1>0, <2>1 DEF Mishaps
  <2> QED BY <1>0, <2>1, <2>2, CallMoves DEF OutputTypeOK, Calls
<1> QED BY <1>1, <1>2, <1>3, <1>4, <1>5, <1>6, <1>7, <1>8 DEF OutputCall
(***************************************************************************)
(* Where the three callers are.  One that is about to stop the output, has *)
(* stopped it, or is starting it again, is pledged to start it: as long as *)
(* nothing goes amiss, a silent output has such a caller.                  *)
(***************************************************************************)
Stops == {"stopping", "telling", "waiting"}
Starts == {"starting", "raising", "creating"}

Taking(c) ==
  \/ c = "player" /\ dlna = "taking"
  \/ c = "monitor" /\ monitor = "stopping"
  \/ c = "test" /\ test = "taking"

Holding(c) ==
  \/ c = "player" /\ dlna \in {"writing", "retuning", "resuming"}
  \/ c = "monitor" /\ monitor = "down"
  \/ c = "test" /\ test = "writing"

Returning(c) ==
  \/ c = "player" /\ dlna = "returning"
  \/ c = "monitor" /\ monitor = "sounding"
  \/ c = "test" /\ test = "returning"

Pledged(c) == Taking(c) \/ Holding(c) \/ (Returning(c) /\ ~Returned(c))

Calling == \A c \in Callers : (call[c] \in Stops => Taking(c)) /\ (call[c] \in Starts => Returning(c))
Promised == amiss = {} /\ ~Sounding => \E c \in Callers : Pledged(c)
RateKept == rate = "media" => dlna \in {"writing", "retuning"}

(***************************************************************************)
(* A player in whose life nobody intrudes is alone with the playback task: *)
(* the task has been told to leave, and nobody starts it.                  *)
(***************************************************************************)
Alone == ~disturbed /\ dlna # "none" => monitor = "up" /\ test = "none"
Told == ~disturbed /\ dlna = "taking" /\ call["player"] = "waiting" => ~running
Silenced == Holding("player") \/ (Taking("player") /\ Returned("player"))
Hushed == ~disturbed /\ "crossed" \notin amiss /\ looping > 0 /\ Silenced => "expired" \in amiss /\ ~running

HandoverInv ==
  HandoverTypeOK /\ Orderly /\ Calling /\ Promised /\ RateKept /\ Alone /\ Told /\ Hushed

LEMMA CallersKnown == Callers = {"player", "monitor", "test"}
  BY HandoverAssumption

(* A step of a call moves only that caller, within the same call. *)
LEMMA CallStays ==
  ASSUME OutputTypeOK, NEW c \in Callers, OutputCall(c)
  PROVE  /\ call' \in [Callers -> Calls]
         /\ \A d \in Callers \ {c} : call'[d] = call[d]
         /\ \/ call[c] \in Stops /\ call'[c] \in Stops \cup {"none"} /\ UNCHANGED <<handle, looping, ending>>
            \/ call[c] \in Starts /\ call'[c] \in Starts \cup {"none"}
<1>1. CASE TestToStop(c)
  <2>1. CallAt(c, "stopping", IF handle THEN "telling" ELSE "none") /\ UNCHANGED <<handle, looping, ending>>
    BY <1>1 DEF TestToStop, taskElse
  <2> QED BY <2>1, CallMoves DEF Calls, Stops
<1>2. CASE TestToStart(c)
  <2>1. CallAt(c, "starting", IF handle THEN "none" ELSE "raising")
    BY <1>2 DEF TestToStart
  <2> QED BY <2>1, CallMoves DEF Calls, Starts
<1>3. CASE TellToLeave(c)
  BY <1>3, CallMoves DEF Calls, Stops, TellToLeave, taskElse
<1>4. CASE SeeItGone(c)
  BY <1>4, CallMoves DEF Calls, Stops, SeeItGone, taskElse
<1>5. CASE GiveUpWaiting(c)
  BY <1>5, CallMoves DEF Calls, Stops, GiveUpWaiting, taskElse
<1>6. CASE RaiseRunning(c)
  BY <1>6, CallMoves DEF Calls, Starts, RaiseRunning
<1>7. CASE Create(c)
  BY <1>7, CallMoves DEF Calls, Starts, Create
<1>8. CASE CreateInVain(c)
  BY <1>8, CallMoves DEF Calls, Starts, CreateInVain
<1>9. CASE NotCreated(c)
  BY <1>9, CallMoves DEF Calls, Starts, NotCreated
<1> QED BY <1>1, <1>2, <1>3, <1>4, <1>5, <1>6, <1>7, <1>8, <1>9 DEF OutputCall

(* A call that returns with the output silent leaves another that will start it. *)
LEMMA CallPromised ==
  ASSUME HandoverInv, NEW c \in Callers, OutputCall(c), UNCHANGED <<dlna, monitor, test>>
  PROVE  Promised'
<1> USE DEF Promised
<1>0. OutputTypeOK /\ Orderly /\ Calling /\ OutputTypeOK' /\ Orderly'
  BY CallOrderly DEF HandoverInv, HandoverTypeOK
<1>1. \A d \in Callers : (Taking(d) <=> Taking(d)') /\ (Holding(d) <=> Holding(d)') /\ (Returning(d) <=> Returning(d)')
  BY DEF Taking, Holding, Returning
<1>2. \A d \in Callers : Pledged(d) /\ d # c => Pledged(d)'
  BY <1>0, <1>1, CallStays DEF Pledged, Returned
<1>3. call[c] \in Stops => Pledged(c)'
  BY <1>0, <1>1 DEF Pledged, Calling
<1>4. call[c] \in Starts /\ call'[c] # "none" => Pledged(c)'
  BY <1>0, <1>1 DEF Pledged, Calling, Returned
<1>5. CASE TestToStart(c)
  <2>1. CallAt(c, "starting", IF handle THEN "none" ELSE "raising") /\ UNCHANGED <<handle, running, looping, ending, amiss>>
    BY <1>5 DEF TestToStart, taskElse
  <2>2. CASE ~handle
    <3>1. call[c] \in Starts /\ call'[c] # "none"
      BY <1>0, <2>1, <2>2, CallMoves DEF Starts, Calls
    <3> QED BY <1>4, <3>1
  <2>3. CASE handle
    <3> SUFFICES ASSUME amiss = {}, ~Sounding PROVE \E d \in Callers : Pledged(d)'
      BY <2>1 DEF Sounding
    <3>1. call[c] = "starting"
      BY <2>1 DEF CallAt
    <3>2. CASE ~running
      <4>1. PICK d \in Callers : call[d] = "waiting"
        BY <1>0, <2>3, <3>2 DEF Orderly, LeaverAwaited
      <4> QED BY <1>0, <1>2, <3>1, <4>1 DEF Calling, Pledged, Stops
    <3>3. CASE running
      <4>1. looping \in Nat /\ ending \in Nat /\ looping + ending = 1
        BY <1>0, <2>3 DEF Orderly, OneTask, Alive, OutputTypeOK
      <4>2. looping # 1 \/ ending # 0
        BY <2>3, <3>3 DEF Sounding
      <4>3. ending > 0
        BY <4>1, <4>2
      <4>4. PICK d \in Callers : call[d] = "creating"
        BY <1>0, <3>3, <4>3 DEF Orderly, EnderReplaced
      <4> QED BY <1>0, <1>2, <3>1, <4>4 DEF Calling, Pledged, Starts, Returned
    <3> QED BY <3>2, <3>3
  <2> QED BY <2>2, <2>3
<1>6. CASE RaiseRunning(c)
  <2>1. call[c] \in Starts /\ call'[c] # "none"
    BY <1>0, <1>6, CallMoves DEF RaiseRunning, Starts, Calls
  <2> QED BY <1>4, <2>1
<1>7. CASE Create(c)
  <2>1. /\ handle' = TRUE /\ looping' = looping + 1 /\ UNCHANGED <<running, ending>>
        /\ amiss' = IF Crossed THEN amiss \cup {"crossed"} ELSE {}
    BY <1>7 DEF Create
  <2>2. CASE Crossed
    BY <2>1, <2>2
  <2>3. CASE ~Crossed
    <3>1. looping = 0 /\ ending = 0 /\ running
      BY <1>0, <2>3 DEF Crossed, Alive, OutputTypeOK
    <3>2. handle' /\ running' /\ looping' = 1 /\ ending' = 0
      BY <2>1, <3>1
    <3> QED BY <3>2 DEF Sounding
  <2> QED BY <2>2, <2>3
<1>8. CASE CreateInVain(c) \/ NotCreated(c)
  <2>1. "uncreated" \in amiss'
    BY <1>8 DEF CreateInVain, NotCreated
  <2> QED BY <2>1
<1>9. CASE TestToStop(c) \/ TellToLeave(c) \/ SeeItGone(c) \/ GiveUpWaiting(c)
  <2>1. call[c] \in Stops
    BY <1>9 DEF TestToStop, TellToLeave, SeeItGone, GiveUpWaiting, CallAt, Stops
  <2> QED BY <1>3, <2>1
<1> QED BY <1>5, <1>6, <1>7, <1>8, <1>9 DEF OutputCall

(* Nobody but an undisturbed player calls, and it does not start before it is done. *)
LEMMA CallHushed ==
  ASSUME HandoverInv, NEW c \in Callers, OutputCall(c), UNCHANGED <<dlna, monitor, test, disturbed>>
  PROVE  Told' /\ Hushed'
<1>0. OutputTypeOK /\ OneTask /\ Calling /\ Told /\ Hushed /\ Alone
  BY DEF HandoverInv, HandoverTypeOK, Orderly
<1> SUFFICES ASSUME ~disturbed, dlna \in {"taking", "writing", "retuning", "resuming"} PROVE Told' /\ Hushed'
  BY DEF Told, Hushed, Silenced, Holding, Taking
<1>1. c = "player"
  <2>1. monitor = "up" /\ test = "none"
    BY <1>0 DEF Alone
  <2>2. c = "player" \/ c = "monitor" \/ c = "test"
    BY CallersKnown
  <2>3. Taking(c) \/ Returning(c)
    BY <1>0, CallStays DEF Calling
  <2> QED BY <2>1, <2>2, <2>3 DEF Taking, Returning
<1>2. call[c] \in Stops /\ dlna = "taking"
  BY <1>0, <1>1, CallStays DEF Calling, Taking, Returning
<1>3. handle \in BOOLEAN /\ running \in BOOLEAN /\ looping \in Nat /\ ending \in Nat
  BY <1>0 DEF OutputTypeOK
<1>4. "crossed" \notin amiss /\ ~handle => looping = 0
  BY <1>0, <1>3 DEF OneTask, Alive
<1> USE DEF Told, Hushed, Silenced, Holding, Taking, Returned
<1>5. CASE TestToStop(c)
  <2>1. CallAt(c, "stopping", IF handle THEN "telling" ELSE "none") /\ UNCHANGED <<handle, running, looping, ending, amiss>>
    BY <1>5 DEF TestToStop, taskElse
  <2>2. call'[c] = IF handle THEN "telling" ELSE "none"
    BY <1>0, <2>1, CallMoves DEF Calls
  <2> QED BY <1>1, <1>2, <1>4, <2>1, <2>2
<1>6. CASE TellToLeave(c)
  <2>1. ~running' /\ call'[c] = "waiting"
    BY <1>0, <1>6, CallMoves DEF TellToLeave, Calls
  <2> QED BY <1>1, <1>2, <2>1
<1>7. CASE SeeItGone(c)
  <2>1. ~handle /\ call'[c] = "none" /\ UNCHANGED <<looping, amiss>>
    BY <1>0, <1>7, CallMoves DEF SeeItGone, taskElse, Calls
  <2> QED BY <1>1, <1>2, <1>4, <2>1
<1>8. CASE GiveUpWaiting(c)
  <2>1. call[c] = "waiting" /\ call'[c] = "none" /\ running' = running
    BY <1>0, <1>8, CallMoves DEF GiveUpWaiting, Calls, CallAt
  <2>2. ~running
    BY <1>0, <1>1, <1>2, <2>1
  <2>3. "expired" \in amiss'
    BY <1>8, <2>2 DEF GiveUpWaiting
  <2> QED BY <1>1, <1>2, <2>1, <2>2, <2>3
<1>9. CASE TestToStart(c) \/ RaiseRunning(c) \/ Create(c) \/ CreateInVain(c) \/ NotCreated(c)
  <2>1. call[c] \notin Stops
    BY <1>9 DEF TestToStart, RaiseRunning, Create, CreateInVain, NotCreated, CallAt, Stops
  <2> QED BY <1>2, <2>1
<1> QED BY <1>5, <1>6, <1>7, <1>8, <1>9 DEF OutputCall

LEMMA OutputKeeps == HandoverInv /\ OutputStep => HandoverInv'
<1> SUFFICES ASSUME HandoverInv, OutputStep PROVE HandoverInv'
  OBVIOUS
<1>0. UNCHANGED <<dlna, rate, monitor, test, disturbed, intrusions>>
  BY DEF OutputStep
<1>1. OutputTypeOK /\ Orderly /\ Calling /\ Promised /\ RateKept /\ Alone /\ Told /\ Hushed /\ HandoverTypeOK
  BY DEF HandoverInv, HandoverTypeOK
<1>2. RateKept' /\ Alone'
  BY <1>0, <1>1 DEF RateKept, Alone
<1>3. OutputTypeOK' => HandoverTypeOK'
  BY <1>0, <1>1 DEF HandoverTypeOK
<1>4. CASE PlaybackTask
  <2>1. OutputTypeOK' /\ Orderly'
    BY <1>1, <1>4, PlaybackOrderly
  <2>2. UNCHANGED <<call, running, amiss>> /\ ~Sounding
    BY <1>1, <1>4 DEF PlaybackTask, LeaveLoop, ClearHandle, Sounding
  <2>3. looping \in Nat /\ (looping' > 0 => looping > 0)
    BY <1>1, <1>4 DEF PlaybackTask, LeaveLoop, ClearHandle, OutputTypeOK
  <2>4. Calling'
    BY <1>0, <1>1, <2>2 DEF Calling, Taking, Returning
  <2>5. Promised'
    <3>1. amiss = {} => \E c \in Callers : Pledged(c)
      BY <1>1, <2>2 DEF Promised
    <3>2. \A c \in Callers : Pledged(c) => Pledged(c)'
      BY <1>0, <2>2 DEF Pledged, Taking, Holding, Returning, Returned
    <3> QED BY <2>2, <3>1, <3>2 DEF Promised
  <2>6. Told' /\ Hushed'
    BY <1>0, <1>1, <2>2, <2>3 DEF Told, Hushed, Silenced, Holding, Taking, Returned
  <2> QED BY <1>2, <1>3, <2>1, <2>4, <2>5, <2>6 DEF HandoverInv
<1>5. ASSUME NEW c \in Callers, OutputCall(c) PROVE HandoverInv'
  <2>1. OutputTypeOK' /\ Orderly'
    BY <1>1, <1>5, CallOrderly
  <2>2. Calling'
    <3>1. \A d \in Callers : (Taking(d) <=> Taking(d)') /\ (Returning(d) <=> Returning(d)')
      BY <1>0 DEF Taking, Returning
    <3>2. \A d \in Callers : /\ call'[d] \in Stops => call[d] \in Stops
                             /\ call'[d] \in Starts => call[d] \in Starts
      BY <1>1, <1>5, CallStays DEF Stops, Starts
    <3> QED BY <1>1, <3>1, <3>2 DEF Calling
  <2>3. Promised'
    BY <1>0, <1>5, CallPromised
  <2>4. Told' /\ Hushed'
    BY <1>0, <1>5, CallHushed
  <2> QED BY <1>2, <1>3, <2>1, <2>2, <2>3, <2>4 DEF HandoverInv
<1> QED BY <1>4, <1>5 DEF OutputStep
(* What the callers do between their calls leaves the playback task alone. *)
LEMMA Between ==
  ASSUME OutputTypeOK, Orderly,
         \/ UNCHANGED outputVars
         \/ \E c \in Callers : CallStop(c) \/ CallStart(c)
  PROVE  OutputTypeOK' /\ Orderly' /\ UNCHANGED <<handle, running, looping, ending, amiss>>
<1>1. CASE UNCHANGED outputVars
  <2>1. UNCHANGED <<handle, running, looping, ending, call, amiss>>
    BY <1>1 DEF outputVars
  <2> QED BY <2>1 DEF OutputTypeOK, Orderly, OneTask, LeaverAwaited, EnderReplaced, Alive
<1>2. ASSUME NEW c \in Callers, CallStop(c) \/ CallStart(c)
      PROVE  OutputTypeOK' /\ Orderly' /\ UNCHANGED <<handle, running, looping, ending, amiss>>
  BY <1>2, CallOrderly, TestMoves
<1> QED BY <1>1, <1>2

(* One caller moves; the others stay where they are. *)
Moves(c) ==
  \/ UNCHANGED call
  \/ /\ call[c] = "none" /\ call' \in [Callers -> Calls] /\ call'[c] \in {"stopping", "starting"}
     /\ \A d \in Callers \ {c} : call'[d] = call[d]

LEMMA CallsMove ==
  ASSUME OutputTypeOK, NEW c \in Callers, CallStop(c) \/ CallStart(c)
  PROVE  Moves(c) /\ (CallStop(c) => call'[c] = "stopping") /\ (CallStart(c) => call'[c] = "starting")
<1>1. CASE CallStop(c)
  <2>1. CallAt(c, "none", "stopping")
    BY <1>1 DEF CallStop
  <2>2. call[c] = "none" /\ call' \in [Callers -> Calls] /\ call'[c] = "stopping"
        /\ \A d \in Callers \ {c} : call'[d] = call[d]
    BY <2>1, CallMoves DEF Calls
  <2>3. ~CallStart(c)
    <3>1. CallStart(c) => call'[c] = "starting"
      BY CallMoves DEF CallStart, Calls
    <3> QED BY <2>2, <3>1
  <2> QED BY <2>2, <2>3 DEF Moves
<1>2. CASE CallStart(c)
  <2>1. CallAt(c, "none", "starting")
    BY <1>2 DEF CallStart
  <2>2. call[c] = "none" /\ call' \in [Callers -> Calls] /\ call'[c] = "starting"
        /\ \A d \in Callers \ {c} : call'[d] = call[d]
    BY <2>1, CallMoves DEF Calls
  <2>3. ~CallStop(c)
    <3>1. CallStop(c) => call'[c] = "stopping"
      BY CallMoves DEF CallStop, Calls
    <3> QED BY <2>2, <3>1
  <2> QED BY <2>2, <2>3 DEF Moves
<1> QED BY <1>1, <1>2

LEMMA PlayerKeeps == HandoverInv /\ PlayDlna => HandoverInv'
<1> SUFFICES ASSUME HandoverInv, PlayDlna PROVE HandoverInv'
  OBVIOUS
<1>0. /\ OutputTypeOK /\ Orderly /\ Calling /\ Promised /\ RateKept /\ Alone /\ Told /\ Hushed /\ HandoverTypeOK
      /\ dlna \in {"none", "begun", "taking", "writing", "retuning", "resuming", "returning"}
      /\ disturbed \in BOOLEAN
  BY DEF HandoverInv, HandoverTypeOK
<1> USE DEF PlayDlna, BeginPlayer, AirPlayFirst, TakeOutput, OpenMedia, FormatKnown, MediaEnds, RestoreRate,
            RestoreOutput, PlayerReturns, DlnaAt, Returned
<1>1. UNCHANGED <<monitor, test, intrusions>> /\ call["player"] = "none"
  BY DEF dlnaElse
<1>2. UNCHANGED outputVars \/ (dlna' = "taking" /\ CallStop("player")) \/ (dlna' = "returning" /\ CallStart("player"))
  OBVIOUS
<1>3. "player" \in Callers
  BY CallersKnown
<1>4. OutputTypeOK' /\ Orderly' /\ UNCHANGED <<handle, running, looping, ending, amiss>>
  BY <1>0, <1>2, <1>3, Between
<1>5. Moves("player") /\ (call'["player"] = "none" \/ (dlna' = "taking" /\ call'["player"] = "stopping")
                          \/ (dlna' = "returning" /\ call'["player"] = "starting"))
  BY <1>0, <1>1, <1>2, <1>3, CallsMove DEF Moves, outputVars
<1>6. \A c \in Callers \ {"player"} : call'[c] = call[c]
  BY <1>5 DEF Moves
<1>7. HandoverTypeOK'
  <2>1. disturbed' \in BOOLEAN
    BY <1>0 DEF Intruded
  <2> QED BY <1>0, <1>1, <1>4, <2>1 DEF HandoverTypeOK
<1>8. Calling'
  BY <1>0, <1>1, <1>5, <1>6 DEF Calling, Taking, Returning, Stops, Starts
<1>9. Promised'
  <2>1. Sounding <=> Sounding'
    BY <1>4 DEF Sounding
  <2>2. ASSUME NEW c \in Callers, Pledged(c) PROVE Pledged(c)'
    <3>1. CASE c # "player"
      BY <1>1, <1>6, <2>2, <3>1 DEF Pledged, Taking, Holding, Returning
    <3>2. CASE c = "player"
      <4>1. dlna \in {"taking", "writing", "retuning", "resuming"}
        BY <1>1, <2>2, <3>2 DEF Pledged, Taking, Holding, Returning
      <4>2. dlna' \in {"writing", "retuning", "resuming"} \/ (CallStart("player") /\ dlna' = "returning")
        BY <4>1
      <4>3. CallStart("player") => call'["player"] # "none"
        BY <1>0, <1>3, CallsMove
      <4> QED BY <3>2, <4>2, <4>3 DEF Pledged, Taking, Holding, Returning
    <3> QED BY <3>1, <3>2
  <2> QED BY <1>0, <1>4, <2>1, <2>2 DEF Promised
<1>10. RateKept'
  BY <1>0 DEF RateKept
<1>11. Alone'
  <2>1. CASE BeginPlayer
    BY <1>1, <2>1 DEF Alone, Intruded
  <2>2. CASE ~BeginPlayer
    <3>1. disturbed' = disturbed /\ dlna # "none"
      BY <2>2
    <3> QED BY <1>0, <1>1, <3>1 DEF Alone
  <2> QED BY <2>1, <2>2
<1>12. Told'
  BY <1>0, <1>5 DEF Told
<1>13. Hushed'
  <2> SUFFICES ASSUME ~disturbed', "crossed" \notin amiss, looping > 0, Silenced' PROVE "expired" \in amiss /\ ~running
    BY <1>4 DEF Hushed
  <2>1. dlna' \in {"writing", "retuning", "resuming"} \/ (dlna' = "taking" /\ call'["player"] = "none")
    BY DEF Silenced, Holding, Taking
  <2>2. CallStop("player") => call'["player"] # "none"
    BY <1>0, <1>3, CallsMove
  <2>3. dlna \in {"taking", "writing", "retuning", "resuming"} /\ disturbed' = disturbed
    BY <2>1, <2>2
  <2> QED BY <1>0, <1>1, <2>3 DEF Hushed, Silenced, Holding, Taking
<1> QED BY <1>4, <1>7, <1>8, <1>9, <1>10, <1>11, <1>12, <1>13 DEF HandoverInv

LEMMA MonitorKeeps == HandoverInv /\ Supervise => HandoverInv'
<1> SUFFICES ASSUME HandoverInv, Supervise PROVE HandoverInv'
  OBVIOUS
<1>0. /\ OutputTypeOK /\ Orderly /\ Calling /\ Promised /\ RateKept /\ Alone /\ Told /\ Hushed /\ HandoverTypeOK
      /\ monitor \in {"up", "stopping", "down", "sounding"} /\ disturbed \in BOOLEAN
      /\ intrusions \in 0..MaxIntrusions /\ MaxIntrusions \in Nat
  BY HandoverAssumption DEF HandoverInv, HandoverTypeOK
<1> USE DEF Supervise, StopServices, OutputStopped, StartServices, OutputStarted, StartFails, MonitorAt, Returned
<1>1. UNCHANGED <<dlna, rate, test>> /\ call["monitor"] = "none"
  BY DEF monitorElse
<1>2. \/ UNCHANGED outputVars
      \/ monitor' = "stopping" /\ CallStop("monitor")
      \/ monitor' = "sounding" /\ CallStart("monitor")
  OBVIOUS
<1>3. "monitor" \in Callers /\ "player" \in Callers
  BY CallersKnown
<1>4. OutputTypeOK' /\ Orderly' /\ UNCHANGED <<handle, running, looping, ending, amiss>>
  BY <1>0, <1>2, <1>3, Between
<1>5. Moves("monitor") /\ (call'["monitor"] = "none" \/ (monitor' = "stopping" /\ call'["monitor"] = "stopping")
                           \/ (monitor' = "sounding" /\ call'["monitor"] = "starting"))
  BY <1>0, <1>1, <1>2, <1>3, CallsMove DEF Moves, outputVars
<1>6. \A c \in Callers \ {"monitor"} : call'[c] = call[c]
  BY <1>5 DEF Moves
<1>7. disturbed' \/ (disturbed' = disturbed /\ monitor # "up")
  BY DEF Intrude
<1>8. HandoverTypeOK'
  <2>1. disturbed' \in BOOLEAN
    BY <1>0 DEF Intrude
  <2>2. intrusions' \in 0..MaxIntrusions
    BY <1>0 DEF Intrude
  <2> QED BY <1>0, <1>1, <1>4, <2>1, <2>2 DEF HandoverTypeOK
<1>9. Calling'
  BY <1>0, <1>1, <1>5, <1>6 DEF Calling, Taking, Returning, Stops, Starts
<1>10. Promised'
  <2>1. Sounding <=> Sounding'
    BY <1>4 DEF Sounding
  <2>2. ASSUME NEW c \in Callers, Pledged(c) PROVE Pledged(c)'
    <3>1. CASE c # "monitor"
      BY <1>1, <1>6, <2>2, <3>1 DEF Pledged, Taking, Holding, Returning
    <3>2. CASE c = "monitor"
      <4>1. monitor \in {"stopping", "down"}
        BY <1>1, <2>2, <3>2 DEF Pledged, Taking, Holding, Returning
      <4>2. monitor' \in {"stopping", "down"} \/ (CallStart("monitor") /\ monitor' = "sounding")
        BY <4>1
      <4>3. CallStart("monitor") => call'["monitor"] # "none"
        BY <1>0, <1>3, CallsMove
      <4> QED BY <3>2, <4>2, <4>3 DEF Pledged, Taking, Holding, Returning
    <3> QED BY <3>1, <3>2
  <2> QED BY <1>0, <1>4, <2>1, <2>2 DEF Promised
<1>11. RateKept' /\ Alone' /\ Told' /\ Hushed'
  <2>1. call'["player"] = call["player"]
    BY <1>3, <1>6
  <2>2. RateKept'
    BY <1>0, <1>1 DEF RateKept
  <2>3. ~disturbed' => dlna' = "none"
    BY <1>0, <1>1, <1>7 DEF Alone
  <2> QED BY <2>2, <2>3 DEF Alone, Told, Hushed, Silenced, Holding, Taking
<1> QED BY <1>4, <1>8, <1>9, <1>10, <1>11 DEF HandoverInv

LEMMA TestKeeps == HandoverInv /\ TestSpeaker => HandoverInv'
<1> SUFFICES ASSUME HandoverInv, TestSpeaker PROVE HandoverInv'
  OBVIOUS
<1>0. /\ OutputTypeOK /\ Orderly /\ Calling /\ Promised /\ RateKept /\ Alone /\ Told /\ Hushed /\ HandoverTypeOK
      /\ test \in {"none", "begun", "taking", "writing", "returning"} /\ disturbed \in BOOLEAN
      /\ intrusions \in 0..MaxIntrusions /\ MaxIntrusions \in Nat
  BY HandoverAssumption DEF HandoverInv, HandoverTypeOK
<1> USE DEF TestSpeaker, StartTest, NoMemory, HushForTest, TestSounds, TestStops, TestEnds, TestAt, Returned
<1>1. UNCHANGED <<dlna, rate, monitor>> /\ call["test"] = "none"
  BY DEF testElse
<1>2. \/ UNCHANGED outputVars
      \/ test' = "taking" /\ CallStop("test")
      \/ test' = "returning" /\ CallStart("test")
  OBVIOUS
<1>3. "test" \in Callers /\ "player" \in Callers
  BY CallersKnown
<1>4. OutputTypeOK' /\ Orderly' /\ UNCHANGED <<handle, running, looping, ending, amiss>>
  BY <1>0, <1>2, <1>3, Between
<1>5. Moves("test") /\ (call'["test"] = "none" \/ (test' = "taking" /\ call'["test"] = "stopping")
                        \/ (test' = "returning" /\ call'["test"] = "starting"))
  BY <1>0, <1>1, <1>2, <1>3, CallsMove DEF Moves, outputVars
<1>6. \A c \in Callers \ {"test"} : call'[c] = call[c]
  BY <1>5 DEF Moves
<1>7. disturbed' \/ (disturbed' = disturbed /\ test # "none")
  BY DEF Intrude
<1>8. HandoverTypeOK'
  <2>1. disturbed' \in BOOLEAN
    BY <1>0 DEF Intrude
  <2>2. intrusions' \in 0..MaxIntrusions
    BY <1>0 DEF Intrude
  <2> QED BY <1>0, <1>1, <1>4, <2>1, <2>2 DEF HandoverTypeOK
<1>9. Calling'
  BY <1>0, <1>1, <1>5, <1>6 DEF Calling, Taking, Returning, Stops, Starts
<1>10. Promised'
  <2>1. Sounding <=> Sounding'
    BY <1>4 DEF Sounding
  <2>2. ASSUME NEW c \in Callers, Pledged(c) PROVE Pledged(c)'
    <3>1. CASE c # "test"
      BY <1>1, <1>6, <2>2, <3>1 DEF Pledged, Taking, Holding, Returning
    <3>2. CASE c = "test"
      <4>1. test \in {"taking", "writing"}
        BY <1>1, <2>2, <3>2 DEF Pledged, Taking, Holding, Returning
      <4>2. test' = "writing" \/ (CallStart("test") /\ test' = "returning")
        BY <4>1
      <4>3. CallStart("test") => call'["test"] # "none"
        BY <1>0, <1>3, CallsMove
      <4> QED BY <3>2, <4>2, <4>3 DEF Pledged, Taking, Holding, Returning
    <3> QED BY <3>1, <3>2
  <2> QED BY <1>0, <1>4, <2>1, <2>2 DEF Promised
<1>11. RateKept' /\ Alone' /\ Told' /\ Hushed'
  <2>2. RateKept'
    BY <1>0, <1>1 DEF RateKept
  <2>3. ~disturbed' => dlna' = "none"
    BY <1>0, <1>1, <1>7 DEF Alone
  <2> QED BY <2>2, <2>3 DEF Alone, Told, Hushed, Silenced, Holding, Taking
<1> QED BY <1>4, <1>8, <1>9, <1>10, <1>11 DEF HandoverInv

LEMMA HandoverInitInv == HandoverInit => HandoverInv
<1> SUFFICES ASSUME HandoverInit PROVE HandoverInv
  OBVIOUS
<1>1. handle /\ running /\ looping = 1 /\ ending = 0 /\ call = [c \in Callers |-> "none"] /\ amiss = {}
  BY DEF HandoverInit, OutputInit
<1>2. dlna = "none" /\ rate = "airplay" /\ monitor = "up" /\ test = "none" /\ ~disturbed /\ intrusions = 0
  BY DEF HandoverInit
<1>3. handle \in BOOLEAN /\ running \in BOOLEAN /\ disturbed \in BOOLEAN
  BY DEF HandoverInit, OutputInit
<1>4. OutputTypeOK
  BY <1>1, <1>3 DEF OutputTypeOK, Calls
<1>5. HandoverTypeOK
  BY <1>2, <1>3, <1>4, HandoverAssumption DEF HandoverTypeOK
<1>6. Orderly
  BY <1>1 DEF Orderly, OneTask, LeaverAwaited, EnderReplaced, Alive
<1>7. Calling /\ Promised
  BY <1>1 DEF Calling, Promised, Sounding, Stops, Starts
<1>8. RateKept /\ Alone /\ Told /\ Hushed
  BY <1>2 DEF RateKept, Alone, Told, Hushed, Silenced, Holding, Taking
<1> QED BY <1>5, <1>6, <1>7, <1>8 DEF HandoverInv

LEMMA HandoverStep == HandoverInv /\ [HandoverNext]_handoverVars => HandoverInv'
<1> SUFFICES ASSUME HandoverInv, [HandoverNext]_handoverVars PROVE HandoverInv'
  OBVIOUS
<1>1. CASE UNCHANGED handoverVars
  <2>1. UNCHANGED <<handle, running, looping, ending, call, amiss>>
        /\ UNCHANGED <<dlna, rate, monitor, test, disturbed, intrusions>>
    BY <1>1 DEF handoverVars, outputVars
  <2> QED BY <2>1 DEF HandoverInv, HandoverTypeOK, OutputTypeOK, Orderly, OneTask, LeaverAwaited, EnderReplaced,
        Calling, Promised, RateKept, Alone, Told, Hushed, Silenced, Pledged, Holding, Taking, Returning, Returned,
        Sounding, Alive
<1> QED BY <1>1, OutputKeeps, PlayerKeeps, MonitorKeeps, TestKeeps DEF HandoverNext

(***************************************************************************)
(* The inductive invariant of the handover: at most one playback task, its *)
(* handle kept, a leaving one awaited, a silent output pledged, and an     *)
(* undisturbed player alone with a task that has been told to leave.       *)
(***************************************************************************)
THEOREM HandoverInvariant == HandoverSpec => []HandoverInv
<1> QED BY HandoverInitInv, HandoverStep, PTL DEF HandoverSpec

(***************************************************************************)
(* While a player that nobody intrudes on writes, no playback task does,   *)
(* but one that was told to leave and did not within 2 s; as long as no    *)
(* start has crossed another call.                                         *)
(***************************************************************************)
THEOREM OneWriterAlways == HandoverSpec => []OneWriter
<1>1. HandoverInv => OneWriter
  BY DEF HandoverInv, Hushed, Silenced, Holding, OneWriter
<1> QED BY <1>1, HandoverInvariant, PTL

(***************************************************************************)
(* At rest the output is AirPlay's, and sounds unless a start failed, a    *)
(* stop gave up waiting or a start crossed another call since the last     *)
(* start that did what it should.                                          *)
(***************************************************************************)
THEOREM OutputAlwaysComesBack == HandoverSpec => []OutputComesBack
<1>1. HandoverInv => OutputComesBack
  <2> SUFFICES ASSUME HandoverInv, AtRest PROVE rate = "airplay" /\ (amiss = {} => Sounding)
    BY DEF OutputComesBack
  <2>1. rate = "airplay"
    BY DEF HandoverInv, HandoverTypeOK, RateKept, AtRest
  <2>2. \A c \in Callers : ~Pledged(c)
    BY CallersKnown DEF Pledged, Taking, Holding, Returning, AtRest
  <2> QED BY <2>1, <2>2 DEF HandoverInv, Promised
<1> QED BY <1>1, HandoverInvariant, PTL
=============================================================================
