-------------------------- MODULE ServiceSupervisor --------------------------
(***************************************************************************)
(* The start and stop of the AirPlay services: app_main, which starts them *)
(* at boot, network_monitor_task, which makes them follow the network      *)
(* (main.c), the firmware upload, which stops the RTSP server alone        *)
(* (web_server.c), the server task as they see it (rtsp_server.c), the     *)
(* playback task (audio_output.c), and the connection flags that Ethernet  *)
(* and Wi-Fi set (ethernet.c, wifi.c).                                     *)
(*                                                                         *)
(* A step is one access to what the tasks share.  The test of the server   *)
(* handle and the creation of the server task are one step.  Safe mode, in *)
(* which nothing is started, and Bluetooth are left out.                   *)
(***************************************************************************)
EXTENDS Naturals

CONSTANTS
  Faults,        \* what may go wrong, of the set below
  MaxLinkEvents, \* how often a link changes
  MaxUploads     \* how many firmware uploads are tried

(***************************************************************************)
(* "create": the server task cannot be created.  "bind": it finds its port *)
(* taken.  "wait": it takes more than the 2 s it is given to end.          *)
(* "clock": ptp_clock_init fails.  "mute": the playback task cannot be     *)
(* created, or finds no memory.  "late": it takes more than the 2 s it is  *)
(* given to leave.  "slow boot": app_main is still within                  *)
(* start_airplay_services when the monitor first wakes.  "early stop": a   *)
(* stop comes before the new server task has its socket, or just before it *)
(* sets server_running, and is lost.                                       *)
(***************************************************************************)
ASSUME SupervisorAssumption ==
  /\ Faults \subseteq {"create", "bind", "wait", "clock", "mute", "late", "slow boot", "early stop"}
  /\ MaxLinkEvents \in Nat /\ MaxUploads \in Nat

VARIABLES
  eth,      \* ethernet_is_connected()
  wifi,     \* wifi_is_connected()
  radio,    \* s_wifi_initialized
  bounced,  \* wifi_disconnect_count() differs from the count that the monitor saw last
  monitor,  \* locals of network_monitor_task: had_eth, wifi_started, dns_running, and what it read this time
  started,  \* s_airplay_started
  infra,    \* s_airplay_infrastructure_ready
  at,       \* where app_main and the monitor are
  upload,   \* where the upload handler is
  server,   \* where server_task is; "none" when server_task_handle is NULL
  running,  \* server_running
  socket,   \* server_socket >= 0
  stale,    \* the RTSP sockets belong to a Wi-Fi association that is over
  output,   \* the playback task: "on", "leaving" its loop or without memory, "off" when its handle is NULL
  amiss,    \* history: since it was last created as it should, a start of it failed or a stop gave up on it
  astray,   \* history: an upload ended while the services did not run, or without a new server
  events, uploads

Callers == {"app", "monitor"}

links == <<eth, wifi, radio, bounced>>
flags == <<started, infra>>
rtsp == <<server, running, socket, stale>>
playback == <<output, amiss>>
counts == <<events, uploads>>
supervisorVars == <<links, monitor, flags, at, upload, rtsp, playback, astray, counts>>

Steps == {"idle", "starting", "initialising", "sounding", "creating", "serving", "awaiting", "undoing", "undone",
          "marking", "stopping", "joining", "hushing", "clearing"}
MonitorSteps == {"woken", "looked", "portal", "network"}

SupervisorTypeOK ==
  /\ eth \in BOOLEAN /\ wifi \in BOOLEAN /\ radio \in BOOLEAN /\ bounced \in BOOLEAN
  /\ wifi => radio              \* wifi_stop takes the flag down too
  /\ monitor \in [hadEth : BOOLEAN, wifiStarted : BOOLEAN, dns : BOOLEAN, eth : BOOLEAN, wifi : BOOLEAN]
  /\ started \in BOOLEAN /\ infra \in BOOLEAN
  /\ at \in [Callers -> Steps \cup MonitorSteps] /\ at["app"] \in Steps
  /\ upload \in {"idle", "stopping", "joining", "receiving", "restarting", "awaiting"}
  /\ server \in {"none", "begun", "binding", "listening", "accepting", "closing"}
  /\ running \in BOOLEAN /\ socket \in BOOLEAN /\ stale \in BOOLEAN
  /\ output \in {"on", "leaving", "off"} /\ amiss \in BOOLEAN /\ astray \in BOOLEAN
  /\ events \in 0..MaxLinkEvents /\ uploads \in 0..MaxUploads

(***************************************************************************)
(* app_main has just created the monitor.  Wi-Fi is started at boot unless *)
(* Ethernet is connected.                                                  *)
(***************************************************************************)
SupervisorInit ==
  /\ eth \in BOOLEAN /\ radio = ~eth /\ wifi \in {FALSE, ~eth} /\ bounced = FALSE
  /\ monitor = [hadEth |-> eth, wifiStarted |-> wifi \/ ~eth, dns |-> ~(eth \/ wifi), eth |-> eth, wifi |-> wifi]
  /\ started = FALSE /\ infra = FALSE
  /\ at = [c \in Callers |-> IF c = "app" /\ (eth \/ wifi) THEN "starting" ELSE "idle"]
  /\ upload = "idle"
  /\ server = "none" /\ running = FALSE /\ socket = FALSE /\ stale = FALSE
  /\ output = "off" /\ amiss = FALSE /\ astray = FALSE
  /\ events = 0 /\ uploads = 0

Network == eth \/ wifi

-----------------------------------------------------------------------------
(***************************************************************************)
(* The links, as the event loop sees them.                                 *)
(***************************************************************************)
LinkEvent ==
  /\ events < MaxLinkEvents /\ events' = events + 1
  /\ UNCHANGED <<radio, monitor, flags, at, upload, server, running, socket, playback, astray, uploads>>

EthernetUp == ~eth /\ eth' = TRUE /\ LinkEvent /\ UNCHANGED <<wifi, bounced, stale>>
EthernetDown == eth /\ eth' = FALSE /\ LinkEvent /\ UNCHANGED <<wifi, bounced, stale>>
WifiUp == radio /\ ~wifi /\ wifi' = TRUE /\ LinkEvent /\ UNCHANGED <<eth, bounced, stale>>

WifiDisconnected ==
  /\ wifi /\ wifi' = FALSE /\ bounced' = TRUE
  /\ stale' = (server # "none")
  /\ LinkEvent /\ UNCHANGED eth

WifiBounce ==                   \* an outage so brief that nobody sees the flag
  /\ wifi /\ bounced' = TRUE
  /\ stale' = (server # "none")
  /\ LinkEvent /\ UNCHANGED <<eth, wifi>>

-----------------------------------------------------------------------------
(***************************************************************************)
(* server_task, and the task that plays.                                   *)
(***************************************************************************)
ServerAt(from, to) == server = from /\ server' = to
serverElse == <<links, monitor, flags, at, upload, playback, astray, counts>>

OpenSocket ==
  /\ ServerAt("begun", "binding")
  /\ socket' = TRUE /\ stale' = FALSE
  /\ UNCHANGED <<running, serverElse>>

Bind ==                         \* and listen
  /\ socket
  /\ ServerAt("binding", "listening")
  /\ UNCHANGED <<running, socket, stale, serverElse>>

BindFails ==                    \* the port is taken, or a stop has closed the socket
  /\ ~socket \/ "bind" \in Faults
  /\ ServerAt("binding", "none")
  /\ socket' = FALSE /\ stale' = FALSE
  /\ UNCHANGED <<running, serverElse>>

Serve ==
  /\ ServerAt("listening", "accepting")
  /\ running' = TRUE
  /\ UNCHANGED <<socket, stale, serverElse>>

LeaveLoop ==
  /\ ~running
  /\ ServerAt("accepting", "closing")
  /\ UNCHANGED <<running, socket, stale, serverElse>>

ServerEnds ==
  /\ ServerAt("closing", "none")
  /\ socket' = FALSE /\ stale' = FALSE
  /\ UNCHANGED <<running, serverElse>>

PlaybackTaskLeaves ==
  /\ output = "leaving" /\ output' = "off"
  /\ UNCHANGED <<amiss, links, monitor, flags, at, upload, rtsp, astray, counts>>

ServerStep == OpenSocket \/ Bind \/ BindFails \/ Serve \/ LeaveLoop \/ ServerEnds

-----------------------------------------------------------------------------
(***************************************************************************)
(* What they call: rtsp_server_start and stop, audio_output_start and      *)
(* stop.                                                                   *)
(***************************************************************************)
StopServer ==
  /\ "early stop" \in Faults \/ server \notin {"begun", "listening"}
  /\ running' = FALSE /\ socket' = FALSE
  /\ UNCHANGED <<server, stale>>

CreateServer == server = "none" /\ server' = "begun" /\ UNCHANGED <<running, socket, stale>>
Refused == server # "none" /\ running      \* ESP_ERR_INVALID_STATE at once
Leaving == server # "none" /\ ~running     \* wait for it
Busy == "wait" \in Faults /\ server \in {"accepting", "closing"}     \* joining a client of its own for up to 7 s
Joined == server = "none" \/ Busy \/ Refused      \* 2 s are over: it is busy, or another has started it again

(***************************************************************************)
(* AudioOutput has these calls access by access, with three callers at     *)
(* once.  Here they come one after another (but for a slow boot, when two  *)
(* tasks could be created).  A start fails without a word, and so does a   *)
(* stop whose 2 s run out on a task that is leaving; a start that meets    *)
(* such a task takes it for one that plays.                                *)
(***************************************************************************)
CreateOutput ==
  \/ output' = "on" /\ amiss' = FALSE
  \/ "mute" \in Faults /\ output' \in {"off", "leaving"} /\ amiss' = TRUE

StopOutput == output' = IF output = "on" THEN "leaving" ELSE output

OutputStopped == output # "leaving" /\ amiss' = amiss
OutputStays == "late" \in Faults /\ output = "leaving" /\ amiss' = TRUE

-----------------------------------------------------------------------------
(***************************************************************************)
(* start_airplay_services and stop_airplay_services.                       *)
(***************************************************************************)
At(c, from, to) == at[c] = from /\ at' = [at EXCEPT ![c] = to]
callElse == <<links, monitor, upload, astray, counts>>

AfterStart(c) == IF c = "monitor" THEN "network" ELSE "idle"
AfterStop(c) == IF c # "monitor" THEN "idle" ELSE IF monitor.eth \/ monitor.wifi THEN "starting" ELSE "portal"

TestStarted(c) ==
  /\ At(c, "starting", IF started THEN AfterStart(c) ELSE IF infra THEN "sounding" ELSE "initialising")
  /\ UNCHANGED <<flags, rtsp, playback, callElse>>

InitInfrastructure(c) ==
  /\ At(c, "initialising", "sounding")
  /\ infra' = TRUE
  /\ UNCHANGED <<started, rtsp, playback, callElse>>

ClockFails(c) ==
  /\ "clock" \in Faults
  /\ At(c, "initialising", AfterStart(c))
  /\ started' = FALSE
  /\ UNCHANGED <<infra, rtsp, playback, callElse>>

TestOutput(c) ==
  /\ At(c, "sounding", IF output = "off" THEN "creating" ELSE "serving")
  /\ UNCHANGED <<flags, rtsp, playback, callElse>>

Sound(c) ==
  /\ At(c, "creating", "serving")
  /\ CreateOutput
  /\ UNCHANGED <<flags, rtsp, callElse>>

StartServer(c) ==
  /\ CreateServer
  /\ \/ At(c, "serving", "marking")
     \/ At(c, "awaiting", "marking")
  /\ UNCHANGED <<flags, playback, callElse>>

ServerNotCreated(c) ==
  /\ server = "none" /\ "create" \in Faults
  /\ \/ At(c, "serving", "undoing")
     \/ At(c, "awaiting", "undoing")
  /\ UNCHANGED <<flags, rtsp, playback, callElse>>

ServerRefuses(c) ==
  /\ Refused
  /\ At(c, "serving", "undoing")
  /\ UNCHANGED <<flags, rtsp, playback, callElse>>

AwaitServer(c) ==
  /\ Leaving
  /\ At(c, "serving", "awaiting")
  /\ UNCHANGED <<flags, rtsp, playback, callElse>>

ServerStays(c) ==
  /\ Busy \/ Refused
  /\ At(c, "awaiting", "undoing")
  /\ UNCHANGED <<flags, rtsp, playback, callElse>>

OutputKept(c) ==                \* mutant: a failed start leaves the output on
  /\ At(c, "undoing", "undone")
  /\ UNCHANGED <<flags, rtsp, playback, callElse>>

UndoOutput(c) ==
  /\ At(c, "undoing", "undone")
  /\ StopOutput
  /\ UNCHANGED <<amiss, flags, rtsp, callElse>>

StartFailed(c) ==
  /\ OutputStopped \/ OutputStays
  /\ At(c, "undone", AfterStart(c))
  /\ started' = FALSE
  /\ UNCHANGED <<infra, rtsp, output, callElse>>

MarkStarted(c) ==
  /\ At(c, "marking", AfterStart(c))
  /\ started' = TRUE
  /\ UNCHANGED <<infra, rtsp, playback, callElse>>

StopRtsp(c) ==
  /\ At(c, "stopping", IF started THEN "joining" ELSE AfterStop(c))
  /\ IF started THEN StopServer ELSE UNCHANGED rtsp
  /\ UNCHANGED <<flags, playback, callElse>>

JoinServer(c) ==
  /\ Joined
  /\ At(c, "joining", "hushing")
  /\ UNCHANGED <<flags, rtsp, playback, callElse>>

Hush(c) ==
  /\ At(c, "hushing", "clearing")
  /\ StopOutput
  /\ UNCHANGED <<amiss, flags, rtsp, callElse>>

ClearStarted(c) ==
  /\ OutputStopped \/ OutputStays
  /\ At(c, "clearing", AfterStop(c))
  /\ started' = FALSE
  /\ UNCHANGED <<infra, rtsp, output, callElse>>

Proceed(c) ==
  \/ TestStarted(c) \/ InitInfrastructure(c) \/ ClockFails(c) \/ TestOutput(c) \/ Sound(c)
  \/ StartServer(c) \/ ServerNotCreated(c) \/ ServerRefuses(c) \/ AwaitServer(c) \/ ServerStays(c) \/ UndoOutput(c) \/ StartFailed(c) \/ MarkStarted(c)
  \/ StopRtsp(c) \/ JoinServer(c) \/ Hush(c) \/ ClearStarted(c)

-----------------------------------------------------------------------------
(***************************************************************************)
(* One turn of network_monitor_task, every 2 s.                            *)
(***************************************************************************)
monitorElse == <<flags, upload, rtsp, playback, astray, counts>>

LookAtEthernet ==               \* Wi-Fi gives way to Ethernet, and starts again, not yet connected, when Ethernet is lost
  LET arrives == eth /\ ~monitor.hadEth /\ monitor.wifiStarted
      leaves == ~eth /\ monitor.hadEth
  IN /\ "slow boot" \in Faults \/ at["app"] = "idle"
     /\ At("monitor", "idle", IF leaves THEN "looked" ELSE "woken")
     /\ radio' = IF arrives THEN FALSE ELSE radio \/ leaves
     /\ wifi' = (wifi /\ ~arrives)
     /\ bounced' = (bounced \/ (arrives /\ wifi))
     /\ monitor' = [monitor EXCEPT !.hadEth = eth, !.eth = eth, !.wifi = FALSE,
                                   !.wifiStarted = IF arrives THEN FALSE ELSE @ \/ leaves]
     /\ UNCHANGED <<eth, monitorElse>>

LookAtWifi ==
  /\ At("monitor", "woken", "looked")
  /\ monitor' = [monitor EXCEPT !.wifi = wifi]
  /\ UNCHANGED <<links, monitorElse>>

BounceUnseen ==                 \* mutant: only the connection flags are compared
  /\ At("monitor", "looked", IF monitor.eth \/ monitor.wifi THEN "starting" ELSE "stopping")
  /\ bounced' = FALSE
  /\ UNCHANGED <<eth, wifi, radio, monitor, monitorElse>>

Decide ==                       \* a Wi-Fi bounce restarts the services, the loss of the network stops them
  LET linkBounced == ~monitor.eth /\ monitor.wifi /\ bounced
      lost == ~(monitor.eth \/ monitor.wifi)
  IN /\ At("monitor", "looked", IF lost \/ (linkBounced /\ started) THEN "stopping" ELSE "starting")
     /\ bounced' = FALSE
     /\ UNCHANGED <<eth, wifi, radio, monitor, monitorElse>>

PortalForgotten ==              \* mutant: the captive portal is not offered again
  /\ At("monitor", "portal", "idle")
  /\ UNCHANGED <<links, monitor, monitorElse>>

OpenPortal ==
  /\ At("monitor", "portal", "idle")
  /\ monitor' = [monitor EXCEPT !.dns = TRUE]
  /\ UNCHANGED <<links, monitorElse>>

ClosePortal ==
  /\ At("monitor", "network", "idle")
  /\ monitor' = [monitor EXCEPT !.dns = FALSE]
  /\ UNCHANGED <<links, monitorElse>>

Watch == LookAtEthernet \/ LookAtWifi \/ Decide \/ OpenPortal \/ ClosePortal

-----------------------------------------------------------------------------
(***************************************************************************)
(* ota_update_handler.  An upload that succeeds ends in a restart of the   *)
(* device, of which nothing here is left.                                  *)
(***************************************************************************)
UploadAt(from, to) == upload = from /\ upload' = to
uploadElse == <<links, monitor, flags, at, playback, events>>

StartUpload ==
  /\ uploads < MaxUploads /\ uploads' = uploads + 1
  /\ UploadAt("idle", "joining")
  /\ StopServer
  /\ UNCHANGED <<astray, uploadElse>>

Receive ==
  /\ Joined
  /\ UploadAt("joining", "receiving")
  /\ UNCHANGED <<rtsp, astray, uploads, uploadElse>>

UploadFails ==
  /\ UploadAt("receiving", "restarting")
  /\ UNCHANGED <<rtsp, astray, uploads, uploadElse>>

RestartServer ==                \* whether the services are meant to run or not
  /\ CreateServer
  /\ UploadAt("restarting", "idle") \/ UploadAt("awaiting", "idle")
  /\ astray' = (astray \/ ~started \/ \E c \in Callers : at[c] # "idle")
  /\ UNCHANGED <<uploads, uploadElse>>

RestartWaits ==
  /\ Leaving
  /\ UploadAt("restarting", "awaiting")
  /\ UNCHANGED <<rtsp, astray, uploads, uploadElse>>

RestartNeedless ==              \* the monitor has started it again
  /\ Refused
  /\ UploadAt("restarting", "idle") \/ UploadAt("awaiting", "idle")
  /\ UNCHANGED <<rtsp, astray, uploads, uploadElse>>

RestartFails ==                 \* it does not end within 2 s, or cannot be created
  /\ \/ Busy /\ UploadAt("awaiting", "idle")
     \/ "create" \in Faults /\ server = "none" /\ (UploadAt("restarting", "idle") \/ UploadAt("awaiting", "idle"))
  /\ astray' = TRUE
  /\ UNCHANGED <<rtsp, uploads, uploadElse>>

HandleUpload == Receive \/ RestartServer \/ RestartWaits \/ RestartNeedless \/ RestartFails

-----------------------------------------------------------------------------
Links == EthernetUp \/ EthernetDown \/ WifiUp \/ WifiDisconnected \/ WifiBounce

SupervisorNext ==
  \/ Links \/ ServerStep \/ PlaybackTaskLeaves
  \/ (\E c \in Callers : Proceed(c)) \/ Watch
  \/ StartUpload \/ UploadFails \/ HandleUpload

(***************************************************************************)
(* Every task runs on.  A server task that is created again and again is   *)
(* created in the end, and so with the infrastructure.  Nothing is assumed *)
(* of links and uploads, which may hang, nor of the playback task's        *)
(* creation.                                                               *)
(***************************************************************************)
SupervisorFairness ==
  /\ WF_supervisorVars(ServerStep) /\ WF_supervisorVars(PlaybackTaskLeaves)
  /\ WF_supervisorVars(Watch) /\ WF_supervisorVars(HandleUpload)
  /\ \A c \in Callers : WF_supervisorVars(Proceed(c)) /\ SF_supervisorVars(StartServer(c))
                        /\ SF_supervisorVars(InitInfrastructure(c))

SupervisorSpec == SupervisorInit /\ [][SupervisorNext]_supervisorVars /\ SupervisorFairness

-----------------------------------------------------------------------------
Resting == (\A c \in Callers : at[c] = "idle") /\ upload = "idle"

Serving == server \in {"begun", "binding", "listening"} \/ (server = "accepting" /\ running)

Ready == started /\ server = "accepting" /\ running /\ socket /\ (output = "on" \/ amiss)

(***************************************************************************)
(* Whenever nobody is within a start, a stop or an upload,                 *)
(* s_airplay_started is true to the RTSP server, whatever failed half way  *)
(* and whoever came in between, unless an upload went astray; and the      *)
(* playback task never plays without it.  It is true to the playback task  *)
(* too unless, since one was last created, another could not be, or a stop *)
(* gave up waiting for one to leave: nobody looks at either.               *)
(***************************************************************************)
FlagIsTrue ==
  /\ SupervisorTypeOK
  /\ Resting /\ ~astray => /\ (started <=> Serving)
                           /\ (output = "on" => started)
                           /\ amiss \/ (started <=> output # "off")

(***************************************************************************)
(* main.c:195-197: sockets of a Wi-Fi association that is over are         *)
(* rebuilt, also when the outage began and ended between two looks of the  *)
(* monitor, unless Ethernet carries the services.                          *)
(***************************************************************************)
StaleIsRebuilt == stale ~> ~stale \/ eth \/ astray

(***************************************************************************)
(* When the network stays, AirPlay is ready in the end and stays so,       *)
(* whatever came before: bounces, a change from Wi-Fi to Ethernet, failed  *)
(* starts.  It may be mute: a playback task that could not be created, or  *)
(* was leaving when it was started again, is not tried again.  When the    *)
(* network is gone for good, the services are stopped and the captive      *)
(* portal answers.  Of uploads this covers one that is rejected while the  *)
(* services run and nobody starts or stops them, and a new server comes up *)
(* after it; any other goes astray.  An upload may hang for ever           *)
(* (ota.c:100).                                                            *)
(***************************************************************************)
AirPlayComesBack == <>[]Network => <>[]Ready
PortalComesBack == <>[]~Network => <>[](monitor.dns /\ server = "none" /\ output = "off")

ServicesFollowNetwork ==
  \/ AirPlayComesBack /\ PortalComesBack
  \/ <>[](upload # "idle") \/ <>astray
=============================================================================
