---------------------------- MODULE OutputHandover ----------------------------
(***************************************************************************)
(* Who writes to I2S.  The DLNA player (dlna_renderer.c) and the speaker   *)
(* test (audio_test.c) write themselves, with the playback task of         *)
(* AudioOutput stopped before and started after; the network monitor       *)
(* (main.c) stops and starts it with the AirPlay services.  None of the    *)
(* three asks for the others.  When a player begins, and what ends it, is  *)
(* the business of SourceTakeover.                                         *)
(***************************************************************************)
EXTENDS AudioOutput

CONSTANT
  MaxIntrusions  \* bound: restarts of the services, starts of them that fail, and speaker tests

ASSUME HandoverAssumption == Callers = {"player", "monitor", "test"} /\ MaxIntrusions \in Nat

VARIABLES
  dlna,      \* where player_task is
  rate,      \* whose sample rate I2S runs at
  monitor,   \* where the network monitor is
  test,      \* where the speaker test is
  disturbed, \* history: a restart or a test was under way in the life of the player
  intrusions

handoverVars == <<outputVars, dlna, rate, monitor, test, disturbed, intrusions>>

HandoverTypeOK ==
  /\ OutputTypeOK
  /\ dlna \in {"none", "begun", "taking", "writing", "retuning", "resuming", "returning"}
  /\ rate \in {"airplay", "media"}
  /\ monitor \in {"up", "stopping", "down", "sounding"}
  /\ test \in {"none", "begun", "taking", "writing", "returning"}
  /\ disturbed \in BOOLEAN /\ intrusions \in 0..MaxIntrusions

HandoverInit ==                 \* start_airplay_services has run
  /\ OutputInit
  /\ dlna = "none" /\ rate = "airplay" /\ monitor = "up" /\ test = "none"
  /\ disturbed = FALSE /\ intrusions = 0

OutputStep ==
  /\ PlaybackTask \/ \E c \in Callers : OutputCall(c)
  /\ UNCHANGED <<dlna, rate, monitor, test, disturbed, intrusions>>

-----------------------------------------------------------------------------
(***************************************************************************)
(* player_task.  A call of audio_output_stop or _start has returned before *)
(* the next step.                                                          *)
(***************************************************************************)
DlnaAt(from, to) == Returned("player") /\ dlna = from /\ dlna' = to
dlnaElse == <<monitor, test, intrusions>>

Intruded == monitor # "up" \/ test # "none"

BeginPlayer ==
  /\ DlnaAt("none", "begun")
  /\ disturbed' = Intruded
  /\ UNCHANGED <<outputVars, rate, dlnaElse>>

AirPlayFirst ==                      \* AirPlay came first
  /\ DlnaAt("begun", "none")
  /\ UNCHANGED <<outputVars, rate, disturbed, dlnaElse>>

TakeOutputKept ==               \* mutant: the playback task is not stopped
  /\ DlnaAt("begun", "taking")
  /\ UNCHANGED <<outputVars, rate, disturbed, dlnaElse>>

TakeOutput ==
  /\ DlnaAt("begun", "taking") /\ CallStop("player")
  /\ UNCHANGED <<rate, disturbed, dlnaElse>>

OpenMedia ==
  /\ DlnaAt("taking", "writing")
  /\ UNCHANGED <<outputVars, rate, disturbed, dlnaElse>>

FormatKnown ==                  \* the first decoded block sets the sample rate
  /\ DlnaAt("writing", "writing")
  /\ rate' = "media"
  /\ UNCHANGED <<outputVars, disturbed, dlnaElse>>

MediaEnds ==                    \* or could not be opened: DLNA is stopped and has released the output
  /\ DlnaAt("writing", "retuning")
  /\ UNCHANGED <<outputVars, rate, disturbed, dlnaElse>>

RestoreRate ==
  /\ DlnaAt("retuning", "resuming")
  /\ rate' = "airplay"
  /\ UNCHANGED <<outputVars, disturbed, dlnaElse>>

RestoreNothing ==               \* mutant: the playback task is not started again
  /\ DlnaAt("resuming", "returning")
  /\ UNCHANGED <<outputVars, rate, disturbed, dlnaElse>>

RestoreOutput ==
  /\ DlnaAt("resuming", "returning") /\ CallStart("player")
  /\ UNCHANGED <<rate, disturbed, dlnaElse>>

PlayerReturns ==
  /\ DlnaAt("returning", "none")
  /\ UNCHANGED <<outputVars, rate, disturbed, dlnaElse>>

-----------------------------------------------------------------------------
(***************************************************************************)
(* The network monitor: stop_airplay_services and start_airplay_services,  *)
(* which stops the output again when the RTSP server cannot be started.    *)
(***************************************************************************)
Intrude == intrusions < MaxIntrusions /\ intrusions' = intrusions + 1 /\ disturbed' = TRUE

MonitorAt(from, to) == Returned("monitor") /\ monitor = from /\ monitor' = to
monitorElse == <<dlna, rate, test>>

StopServices ==
  /\ Intrude
  /\ MonitorAt("up", "stopping") /\ CallStop("monitor")
  /\ UNCHANGED monitorElse

OutputStopped ==
  /\ MonitorAt("stopping", "down")
  /\ UNCHANGED <<outputVars, disturbed, intrusions, monitorElse>>

StartServices ==
  /\ MonitorAt("down", "sounding") /\ CallStart("monitor")
  /\ UNCHANGED <<disturbed, intrusions, monitorElse>>

OutputStarted ==
  /\ MonitorAt("sounding", "up")
  /\ UNCHANGED <<outputVars, disturbed, intrusions, monitorElse>>

StartFails ==
  /\ MemoryShort /\ Intrude
  /\ MonitorAt("sounding", "stopping") /\ CallStop("monitor")
  /\ UNCHANGED monitorElse

Supervise == StopServices \/ OutputStopped \/ StartServices \/ OutputStarted \/ StartFails

-----------------------------------------------------------------------------
(***************************************************************************)
(* The speaker test, which begins only when maintenance_audio_is_idle: a   *)
(* player is not that before it has stopped.                               *)
(***************************************************************************)
TestAt(from, to) == Returned("test") /\ test = from /\ test' = to
testElse == <<dlna, rate, monitor>>

Idle == dlna \notin {"taking", "writing"}

StartTest ==
  /\ Idle /\ Intrude
  /\ TestAt("none", "begun")
  /\ UNCHANGED <<outputVars, testElse>>

NoMemory ==
  /\ MemoryShort
  /\ TestAt("begun", "none")
  /\ UNCHANGED <<outputVars, disturbed, intrusions, testElse>>

HushForTest ==
  /\ TestAt("begun", "taking") /\ CallStop("test")
  /\ UNCHANGED <<disturbed, intrusions, testElse>>

TestSounds ==
  /\ TestAt("taking", "writing")
  /\ UNCHANGED <<outputVars, disturbed, intrusions, testElse>>

TestStops ==
  /\ TestAt("writing", "returning") /\ CallStart("test")
  /\ UNCHANGED <<disturbed, intrusions, testElse>>

TestEnds ==
  /\ TestAt("returning", "none")
  /\ UNCHANGED <<outputVars, disturbed, intrusions, testElse>>

TestSpeaker == StartTest \/ NoMemory \/ HushForTest \/ TestSounds \/ TestStops \/ TestEnds

-----------------------------------------------------------------------------
PlayDlna ==
  \/ BeginPlayer \/ AirPlayFirst \/ TakeOutput \/ OpenMedia \/ FormatKnown \/ MediaEnds
  \/ RestoreRate \/ RestoreOutput \/ PlayerReturns

HandoverNext == OutputStep \/ PlayDlna \/ Supervise \/ TestSpeaker

HandoverSpec == HandoverInit /\ [][HandoverNext]_handoverVars

-----------------------------------------------------------------------------
(***************************************************************************)
(* audio_output.c:273: while DLNA writes to I2S or sets its sample rate,   *)
(* no playback task does, unless the player did not wait long enough for   *)
(* one that has been told to leave.  For a player in whose life no restart *)
(* of the services and no speaker test is under way: both start the        *)
(* playback task without asking whose output it is.  And as long as no     *)
(* start has crossed another call and left two playback tasks.             *)
(***************************************************************************)
OneWriter ==
  /\ HandoverTypeOK
  /\ /\ dlna \in {"writing", "retuning", "resuming"} /\ looping > 0
     /\ ~disturbed /\ "crossed" \notin amiss
     => "expired" \in amiss /\ ~running

(***************************************************************************)
(* "DLNA playback ended; AirPlay remained available" (dlna_renderer.c:     *)
(* 764): whenever the services run and neither a player nor a test is      *)
(* left, I2S is at AirPlay's sample rate, and exactly one playback task    *)
(* runs, however stops and starts by three tasks interleaved; unless,      *)
(* since the last start that did what it should, another failed, a stop    *)
(* gave up waiting, or a start crossed another call.                       *)
(***************************************************************************)
AtRest == dlna = "none" /\ test = "none" /\ monitor = "up"

OutputComesBack == AtRest => rate = "airplay" /\ (amiss = {} => Sounding)
=============================================================================
