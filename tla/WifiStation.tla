---------------------------- MODULE WifiStation ----------------------------
(***************************************************************************)
(* The Wi-Fi station and the setup access point (network/wifi.c), and the  *)
(* two ways in which the web interface changes the credentials: saved at   *)
(* once (web_server.c), or staged in NVS, tried at the next boot and then  *)
(* promoted or dropped (web_api_v3.c, settings.c).  The device may be      *)
(* restarted and the power may fail between any two steps.                 *)
(*                                                                         *)
(* A step is one event as its handler treats it, except that each key of   *)
(* NVS is written in a step of its own: ESP-IDF makes it durable in        *)
(* nvs_set_str, before nvs_commit.  The setup timer tests and closes in    *)
(* one step, since no five attempts fail in between.  wifi_stop, which     *)
(* Ethernet causes, is in ServiceSupervisor.                               *)
(***************************************************************************)
EXTENDS Naturals, FiniteSets

CONSTANTS
  Networks,     \* each stands for an SSID with its password
  None,         \* no value under a key of NVS
  Reenable,     \* AP_REENABLE_THRESHOLD
  MaxRequests,  \* bound on web requests
  MaxCuts,      \* bound on power cuts and restarts by the user
  MaxChanges    \* bound on changes of what the air offers

ASSUME StationAssumption ==
  /\ IsFiniteSet(Networks) /\ None \notin Networks
  /\ Reenable \in Nat \ {0} /\ {MaxRequests, MaxCuts, MaxChanges} \subseteq Nat

VARIABLES
  saved, staged, \* NVS: the pairs under wifi_ssid, wifi_pass and pending_ssid, pending_pass
  up,            \* the device has booted
  config,        \* the pair that the station is configured with
  trial,         \* s_pending_credential_test
  link,          \* "idle", "trying", or "connected" (s_sta_connected)
  retry,         \* s_retry_num, which stops counting above the threshold
  retryTimer,    \* s_retry_timer is armed
  ap,            \* WIFI_MODE_APSTA: the setup access point is there
  apTimer,       \* s_ap_shutdown_timer is armed
  handler,       \* where the event handler is
  held,          \* the pair that settings_promote_pending_wifi_credentials has read
  web,           \* the request that the web server is at
  air,           \* the networks that accept their pair now
  proven,        \* history: networks once connected to, or saved directly
  excused,       \* history: what a property leaves out, see Properties
  requests, cuts, changes

nvs == <<saved, staged>>
timers == <<retryTimer, ap, apTimer>>
history == <<proven, excused>>
bounds == <<requests, cuts, changes>>
vars == <<nvs, up, config, trial, link, retry, timers, handler, held, web, air, history, bounds>>

Pair(n) == [ssid |-> n, pass |-> n]
Pairs == [ssid : Networks \cup {None}, pass : Networks \cup {None}]
Missing == Pair(None)
Complete(p) == p.ssid # None /\ p.pass # None      \* both keys can be read
Whole(p) == Complete(p) /\ p.ssid = p.pass         \* and belong together
Accepted == Whole(config) /\ config.ssid \in air

NoRequest == [kind |-> "none", network |-> None, next |-> "done"]
Requests == [kind : {"save", "stage"}, network : Networks, next : {"ssid", "pass", "done"}]
PromoteSteps == {"save ssid", "save pass", "drop ssid", "drop pass"}

TypeOK ==
  /\ saved \in Pairs /\ staged \in Pairs /\ config \in Pairs /\ held \in Pairs
  /\ up \in BOOLEAN /\ trial \in BOOLEAN /\ retryTimer \in BOOLEAN /\ ap \in BOOLEAN /\ apTimer \in BOOLEAN
  /\ link \in {"idle", "trying", "connected"} /\ retry \in 0..(Reenable + 1)
  /\ link = "connected" => retry = 0
  /\ handler \in {"waiting", "erase ssid", "erase pass", "restart", "settle"} \cup PromoteSteps
  /\ web \in Requests \cup {NoRequest}
  /\ air \subseteq Networks /\ proven \subseteq Networks
  /\ excused \subseteq {"save cut", "promotion given up", "staged in trial", "save and promotion"}
  /\ requests \in 0..MaxRequests /\ cuts \in 0..MaxCuts /\ changes \in 0..MaxChanges

RamCleared ==
  /\ up' = FALSE /\ config' = Missing /\ trial' = FALSE /\ link' = "idle" /\ retry' = 0
  /\ retryTimer' = FALSE /\ ap' = FALSE /\ apTimer' = FALSE
  /\ handler' = "waiting" /\ held' = Missing /\ web' = NoRequest

Init ==
  /\ saved \in {Missing} \cup {Pair(n) : n \in Networks} /\ staged = Missing
  /\ up = FALSE /\ config = Missing /\ trial = FALSE /\ link = "idle" /\ retry = 0
  /\ retryTimer = FALSE /\ ap = FALSE /\ apTimer = FALSE
  /\ handler = "waiting" /\ held = Missing /\ web = NoRequest
  /\ air \in SUBSET Networks /\ proven = {saved.ssid} \ {None} /\ excused = {}
  /\ requests = 0 /\ cuts = 0 /\ changes = 0

-----------------------------------------------------------------------------
(***************************************************************************)
(* Boot, restart, power cut, and the air.                                  *)
(***************************************************************************)
Boot ==                         \* wifi_init_apsta, STA_START and the first connection attempt
  /\ ~up /\ up' = TRUE
  /\ trial' = Complete(staged)
  /\ config' = IF Complete(staged) THEN staged ELSE IF Complete(saved) THEN saved ELSE Missing
  /\ link' = IF Complete(config') THEN "trying" ELSE "idle"
  /\ retry' = 0 /\ ap' = TRUE
  /\ UNCHANGED <<nvs, retryTimer, apTimer, handler, held, web, air, history, bounds>>

CutShort == IF web.kind = "save" /\ web.next = "pass" THEN {"save cut"} ELSE {}

Reset ==
  /\ up
  /\ excused' = excused \cup CutShort
  /\ RamCleared
  /\ UNCHANGED <<nvs, air, proven, requests, changes>>

PowerCut == cuts < MaxCuts /\ cuts' = cuts + 1 /\ Reset
RestartAfterTrial == handler = "restart" /\ Reset /\ UNCHANGED cuts
RestartAfterSave == web.kind = "save" /\ web.next = "done" /\ Reset /\ UNCHANGED cuts

AirChanges ==
  /\ changes < MaxChanges /\ changes' = changes + 1
  /\ air' \in SUBSET Networks \ {air}
  /\ UNCHANGED <<nvs, up, config, trial, link, retry, timers, handler, held, web, history, requests, cuts>>

-----------------------------------------------------------------------------
(***************************************************************************)
(* Events of the station, and its two timers.                              *)
(***************************************************************************)
stationElse == <<nvs, up, config, trial, held, web, air, requests, cuts, changes>>

CountFailure ==
  /\ handler = "waiting" /\ apTimer' = FALSE
  /\ retry' = IF retry > Reenable THEN retry ELSE retry + 1
  /\ UNCHANGED <<proven, stationElse>>

TryAgain == link' = "trying" /\ UNCHANGED <<handler, retryTimer, ap, excused>>

BackOff ==                      \* and, the first time, enable the setup access point
  /\ link' = "idle" /\ retryTimer' = TRUE
  /\ ap' = (ap \/ retry + 1 = Reenable)
  /\ UNCHANGED <<handler, excused>>

GiveUpTrial(next) ==
  /\ link' = "idle" /\ handler' = next
  /\ excused' = excused \cup IF Whole(saved) THEN {} ELSE {"promotion given up"}
  /\ UNCHANGED <<retryTimer, ap>>

ThresholdMissed ==              \* mutant: the access point is enabled one failure too late
  /\ CountFailure
  /\ IF retry < Reenable THEN TryAgain ELSE BackOff

TrialForgotten ==               \* mutant: a trial is treated as any other outage
  /\ CountFailure
  /\ IF retry + 1 < Reenable THEN TryAgain ELSE BackOff

StagedKept ==                   \* mutant: a trial that failed is not cleared before the restart
  /\ CountFailure
  /\ IF retry + 1 < Reenable THEN TryAgain
     ELSE IF trial /\ retry + 1 = Reenable THEN GiveUpTrial("restart") ELSE BackOff

Disconnected ==                 \* WIFI_EVENT_STA_DISCONNECTED
  /\ CountFailure
  /\ IF retry + 1 < Reenable THEN TryAgain
     ELSE IF trial /\ retry + 1 = Reenable THEN GiveUpTrial("erase ssid") ELSE BackOff

LinkFails == link # "idle" /\ ~Accepted /\ Disconnected     \* an attempt, or a connection

GotIp ==
  /\ handler = "waiting" /\ link = "trying" /\ Accepted
  /\ retry' = 0 /\ link' = "connected"
  /\ held' = IF trial THEN staged ELSE held
  /\ handler' = IF trial /\ Complete(staged) THEN "save ssid" ELSE "settle"
  /\ proven' = proven \cup {config.ssid}
  /\ UNCHANGED <<nvs, up, config, trial, timers, web, air, excused, bounds>>

RetryTimerFires ==
  /\ up /\ retryTimer /\ retryTimer' = FALSE
  /\ link' = IF Complete(config) /\ link # "connected" THEN "trying" ELSE link
  /\ UNCHANGED <<retry, ap, apTimer, handler, history, stationElse>>

SetupWindowEnds ==              \* ap_shutdown_timer_callback
  /\ up /\ apTimer /\ apTimer' = FALSE
  /\ ap' = (ap /\ link # "connected")
  /\ UNCHANGED <<link, retry, retryTimer, handler, history, stationElse>>

-----------------------------------------------------------------------------
(***************************************************************************)
(* What the event handler does to NVS.                                     *)
(***************************************************************************)
handlerElse == <<up, config, link, retry, retryTimer, ap, held, web, air, proven, bounds>>
HandlerAt(from, to) == handler = from /\ handler' = to

DropFirst ==                    \* mutant: the staged pair is cleared before it is saved
  /\ HandlerAt("save ssid", "save pass")
  /\ saved' = [saved EXCEPT !.ssid = held.ssid] /\ staged' = Missing
  /\ UNCHANGED <<trial, apTimer, excused, handlerElse>>

PromoteSsid ==
  /\ HandlerAt("save ssid", "save pass")
  /\ saved' = [saved EXCEPT !.ssid = held.ssid]
  /\ excused' = excused \cup IF web.kind = "save" THEN {"save and promotion"} ELSE {}
  /\ UNCHANGED <<staged, trial, apTimer, handlerElse>>

PromotePass ==
  /\ HandlerAt("save pass", "drop ssid")
  /\ saved' = [saved EXCEPT !.pass = held.pass]
  /\ excused' = excused \cup IF web.kind = "save" THEN {"save and promotion"} ELSE {}
  /\ UNCHANGED <<staged, trial, apTimer, handlerElse>>

DropStaged ==                   \* settings_clear_pending_wifi_credentials
  /\ \/ HandlerAt("drop ssid", "drop pass") /\ staged' = [staged EXCEPT !.ssid = None] /\ UNCHANGED trial
     \/ HandlerAt("drop pass", "settle") /\ staged' = [staged EXCEPT !.pass = None] /\ trial' = FALSE
     \/ HandlerAt("erase ssid", "erase pass") /\ staged' = [staged EXCEPT !.ssid = None] /\ UNCHANGED trial
     \/ HandlerAt("erase pass", "restart") /\ staged' = [staged EXCEPT !.pass = None] /\ UNCHANGED trial
  /\ UNCHANGED <<saved, apTimer, excused, handlerElse>>

PromotionFails ==               \* NVS is full or worn: the trial goes on
  /\ handler \in PromoteSteps /\ handler' = "settle"
  /\ \/ UNCHANGED staged
     \/ handler = "drop ssid" /\ staged' = [staged EXCEPT !.pass = None]
  /\ UNCHANGED <<saved, trial, apTimer, excused, handlerElse>>

EraseFails ==                   \* nobody looks: the restart comes, and another trial if both keys are left
  /\ HandlerAt("erase ssid", "erase pass") \/ HandlerAt("erase pass", "restart")
  /\ UNCHANGED <<nvs, trial, apTimer, excused, handlerElse>>

Settle ==                       \* the setup access point stays for SETUP_AP_GRACE_SECONDS
  /\ HandlerAt("settle", "waiting")
  /\ apTimer' = (apTimer \/ ap)
  /\ UNCHANGED <<nvs, trial, excused, handlerElse>>

-----------------------------------------------------------------------------
(***************************************************************************)
(* The web interface.  It answers over the network or the access point,    *)
(* one request at a time.                                                  *)
(***************************************************************************)
webElse == <<up, config, trial, link, retry, timers, handler, held, air, cuts, changes>>

Ask(kind, n) ==
  /\ up /\ web = NoRequest /\ requests < MaxRequests
  /\ ap \/ link = "connected"
  /\ kind = "stage" => ~(link = "connected" /\ config.ssid = n /\ saved.pass = n)    \* already connected
  /\ requests' = requests + 1
  /\ web' = [kind |-> kind, network |-> n, next |-> "ssid"]
  /\ excused' = excused \cup IF kind = "stage" /\ trial THEN {"staged in trial"} ELSE {}
  /\ UNCHANGED <<nvs, proven, webElse>>

WriteSsid ==
  /\ web.next = "ssid" /\ web' = [web EXCEPT !.next = "pass"]
  /\ saved' = IF web.kind = "save" THEN [saved EXCEPT !.ssid = web.network] ELSE saved
  /\ staged' = IF web.kind = "stage" THEN [staged EXCEPT !.ssid = web.network] ELSE staged
  /\ excused' = excused \cup
       IF web.kind = "save" /\ handler \in {"save ssid", "save pass"} THEN {"save and promotion"} ELSE {}
  /\ UNCHANGED <<proven, requests, webElse>>

WritePass ==
  /\ web.next = "pass"
  /\ saved' = IF web.kind = "save" THEN [saved EXCEPT !.pass = web.network] ELSE saved
  /\ staged' = IF web.kind = "stage" THEN [staged EXCEPT !.pass = web.network] ELSE staged
  /\ web' = IF web.kind = "save" THEN [web EXCEPT !.next = "done"] ELSE NoRequest
  /\ proven' = IF web.kind = "save" THEN proven \cup {web.network} ELSE proven
  /\ UNCHANGED <<excused, requests, webElse>>

-----------------------------------------------------------------------------
EventLoop == LinkFails \/ GotIp \/ PromoteSsid \/ PromotePass \/ DropStaged \/ Settle
Restarts == RestartAfterTrial \/ RestartAfterSave \/ Boot

Next ==
  \/ EventLoop \/ PromotionFails \/ EraseFails \/ RetryTimerFires \/ SetupWindowEnds
  \/ Restarts \/ PowerCut \/ AirChanges
  \/ (\E n \in Networks : Ask("save", n) \/ Ask("stage", n)) \/ WriteSsid \/ WritePass

(***************************************************************************)
(* The event loop, the timers and a request that has begun go on, and      *)
(* every attempt ends in success or failure (an access point that          *)
(* associates but never gives an address is left out).  NVS that is asked  *)
(* to erase a key again and again does so in the end.  Users, the power    *)
(* and the air owe nothing.                                                *)
(***************************************************************************)
Fairness ==
  /\ WF_vars(EventLoop) /\ WF_vars(RetryTimerFires) /\ WF_vars(SetupWindowEnds)
  /\ WF_vars(Restarts) /\ WF_vars(WriteSsid \/ WritePass)
  /\ SF_vars(DropStaged)

Spec == Init /\ [][Next]_vars /\ Fairness

-----------------------------------------------------------------------------
(***************************************************************************)
(* Properties.  What they leave out, and why: "save cut", a power cut      *)
(* between the two keys of a direct save; "save and promotion", a direct   *)
(* save while a promotion writes the same keys; "promotion given up", a    *)
(* promotion was cut and when it was to be repeated the network was gone;  *)
(* "staged in trial", another pair was staged while one was tried.         *)
(***************************************************************************)

AboutToRestart == handler \in {"erase ssid", "erase pass", "restart"}

NeverStranded ==    \* except during the first quick retries
  up /\ ~AboutToRestart => link = "connected" \/ ap \/ (link = "trying" /\ retry < Reenable)

KeepsTrying ==      \* an attempt is under way, a retry scheduled, or the end of the trial near
  up /\ Complete(config) => link # "idle" \/ retryTimer \/ AboutToRestart

(***************************************************************************)
(* wifi.c:30-32: somebody can always reach the device, over its network or *)
(* over the setup access point, and a station with credentials that is not *)
(* connected has not given up.  The threshold is tested with ==, so a      *)
(* count that steps over it would leave the access point off for good.     *)
(***************************************************************************)
StaysReachable == TypeOK /\ NeverStranded /\ KeepsTrying

MixedIsStaged ==    \* while a saved key misses its partner, the whole new pair is still staged
  ~Whole(saved) /\ saved # Missing /\ web = NoRequest => Whole(staged) \/ excused # {}

SavedIsProven == Whole(saved) => saved.ssid \in proven \/ excused # {}

(***************************************************************************)
(* A pair that works is never lost to a trial: what a trial saves is what  *)
(* has just been connected to ("The credential test passed",               *)
(* settings.c:377), and between its two keys the next boot can repeat the  *)
(* promotion, wherever the power failed.                                   *)
(***************************************************************************)
CredentialsSafe == MixedIsStaged /\ SavedIsProven

(***************************************************************************)
(* Every trial ends: in a promotion, or in a restart.  NVS that refuses a  *)
(* write keeps a connected one going, and one that has failed begins again *)
(* after the restart when NVS has refused to erase its pair.               *)
(***************************************************************************)
TrialEnds == trial ~> ~trial \/ link = "connected"

(***************************************************************************)
(* When the saved network, and no other, is there for good, the device is  *)
(* on it in the end, after whatever trials, outages and power cuts.        *)
(***************************************************************************)
ComesBack ==
  \A n \in Networks :
    <>[](air = {n} /\ saved = Pair(n)) => <>[](link = "connected" /\ config = Pair(n)) \/ <>("staged in trial" \in excused)
=============================================================================
