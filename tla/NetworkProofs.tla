---------------------------- MODULE NetworkProofs ----------------------------
(***************************************************************************)
(* Proofs about the network side, for any number of requests, power cuts   *)
(* and changes of the air.  WifiStation: the device stays reachable, and a *)
(* trial never loses a pair that works.  ServiceSupervisor: at rest        *)
(* s_airplay_started is true to the server task and the playback task.     *)
(***************************************************************************)
EXTENDS WifiStation, ServiceSupervisor, TLAPS

-----------------------------------------------------------------------------
(***************************************************************************)
(* The inductive invariant.  As long as nothing is excused, a trial is of  *)
(* the pair that the station is configured with, a promotion copies that   *)
(* pair, and whoever takes the staged pair away finds the saved one whole. *)
(***************************************************************************)
HalfSaved == web.kind = "save" /\ web.next = "pass"
Mixed == saved # Missing /\ ~Whole(saved)

QuietWhenDown == ~up => web = NoRequest /\ handler = "waiting" /\ link = "idle"

TrialIsConfigured == trial => web.kind # "stage" /\ (staged = config \/ ~Complete(staged))

PromotesProven ==
  handler \in {"save ssid", "save pass"} =>
    /\ trial /\ staged = held /\ Whole(held) /\ held.ssid \in proven
    /\ handler = "save pass" => saved.ssid = held.ssid

DropsBehindWhole ==
  handler \in {"drop ssid", "drop pass", "erase ssid", "erase pass", "restart"} => Whole(saved) \/ HalfSaved

MixedOnTrial == Mixed /\ ~HalfSaved => Whole(staged) /\ (up => trial)

SavesInOrder ==
  web.kind = "save" => /\ web.next = "pass" => saved.ssid = web.network
                       /\ web.next = "done" => Whole(saved)

PassIsProven == saved.pass \in proven \cup {None}

Unexcused ==
  /\ TrialIsConfigured /\ PromotesProven /\ DropsBehindWhole
  /\ MixedOnTrial /\ SavesInOrder /\ PassIsProven

CredentialInv == QuietWhenDown /\ (excused = {} => Unexcused)
StationInv == StaysReachable /\ CredentialInv

-----------------------------------------------------------------------------
(***************************************************************************)
(* Types.                                                                  *)
(***************************************************************************)
LEMMA NoneIsNoNetwork == None \notin Networks
  BY StationAssumption

LEMMA BoundsAreNatural ==
  Reenable \in Nat /\ Reenable >= 1 /\ MaxRequests \in Nat /\ MaxCuts \in Nat /\ MaxChanges \in Nat
  BY StationAssumption

LEMMA CountTyped == \A m \in Nat : \A n \in 0..m : n < m => n + 1 \in 0..m
  OBVIOUS

LEMMA ZeroTyped == 0 \in 0..(Reenable + 1)
  BY BoundsAreNatural

LEMMA MissingTyped == Missing \in Pairs
  BY DEF Missing, Pair, Pairs

LEMMA PairTyped ==
  ASSUME NEW p \in Pairs, NEW n \in Networks \cup {None}
  PROVE  /\ [p EXCEPT !.ssid = n] \in Pairs /\ [p EXCEPT !.pass = n] \in Pairs
         /\ [p EXCEPT !.ssid = n].ssid = n /\ [p EXCEPT !.ssid = n].pass = p.pass
         /\ [p EXCEPT !.pass = n].pass = n /\ [p EXCEPT !.pass = n].ssid = p.ssid
  BY DEF Pairs

LEMMA ResetTyped == TypeOK /\ Reset /\ cuts' \in 0..MaxCuts => TypeOK'
<1> SUFFICES ASSUME TypeOK, Reset, cuts' \in 0..MaxCuts PROVE TypeOK'
  OBVIOUS
<1>1. UNCHANGED nvs /\ UNCHANGED <<air, proven, requests, changes>> /\ RamCleared
  BY DEF Reset
<1>2. excused' \subseteq {"save cut", "promotion given up", "staged in trial", "save and promotion"}
  BY DEF Reset, CutShort, TypeOK
<1>3. up' \in BOOLEAN /\ trial' \in BOOLEAN /\ retryTimer' \in BOOLEAN /\ ap' \in BOOLEAN /\ apTimer' \in BOOLEAN
  BY DEF Reset, RamCleared
<1>4. 0 \in 0..(Reenable + 1)
  BY ZeroTyped
<1> QED BY <1>1, <1>2, <1>3, <1>4, MissingTyped DEF RamCleared, TypeOK, nvs

LEMMA BootTyped == TypeOK /\ Boot => TypeOK'
<1> SUFFICES ASSUME TypeOK, Boot PROVE TypeOK'
  OBVIOUS
<1>1. up' \in BOOLEAN /\ ap' \in BOOLEAN
  BY DEF Boot
<1>2. trial' \in BOOLEAN
  BY DEF Boot, Complete
<1>3. config' \in Pairs
  BY MissingTyped DEF Boot, TypeOK
<1>4. link' \in {"idle", "trying"}
  BY DEF Boot
<1>5. retry' \in 0..(Reenable + 1)
  BY ZeroTyped DEF Boot
<1> QED BY <1>1, <1>2, <1>3, <1>4, <1>5 DEF Boot, TypeOK, nvs, history, bounds

LEMMA DisconnectedTyped == TypeOK /\ Disconnected => TypeOK'
<1> SUFFICES ASSUME TypeOK, Disconnected PROVE TypeOK'
  OBVIOUS
<1>1. retry' \in 0..(Reenable + 1)
  <2>1. retry \in 0..(Reenable + 1) /\ retry' = IF retry > Reenable THEN retry ELSE retry + 1
    BY DEF Disconnected, CountFailure, TypeOK
  <2> QED BY <2>1, BoundsAreNatural
<1>2. apTimer' \in BOOLEAN /\ retryTimer' \in BOOLEAN
  BY DEF Disconnected, CountFailure, TryAgain, BackOff, GiveUpTrial, TypeOK
<1>3. ap' \in BOOLEAN
  BY DEF Disconnected, TryAgain, BackOff, GiveUpTrial, TypeOK
<1>4. link' \in {"idle", "trying"}
  BY DEF Disconnected, TryAgain, BackOff, GiveUpTrial
<1>5. handler' \in {handler, "erase ssid"}
  BY DEF Disconnected, TryAgain, BackOff, GiveUpTrial
<1>6. excused' \subseteq excused \cup {"promotion given up"}
  BY DEF Disconnected, TryAgain, BackOff, GiveUpTrial
<1>7. UNCHANGED <<proven, stationElse>>
  BY DEF Disconnected, CountFailure
<1> QED BY <1>1, <1>2, <1>3, <1>4, <1>5, <1>6, <1>7 DEF TypeOK, stationElse, nvs

LEMMA EventTyped == TypeOK /\ (GotIp \/ RetryTimerFires \/ SetupWindowEnds \/ AirChanges) => TypeOK'
<1> SUFFICES ASSUME TypeOK, GotIp \/ RetryTimerFires \/ SetupWindowEnds \/ AirChanges PROVE TypeOK'
  OBVIOUS
<1> USE DEF TypeOK, nvs, timers, history, bounds, stationElse
<1>1. CASE GotIp
  <2>1. held' \in Pairs /\ handler' \in {"save ssid", "settle"}
    BY <1>1 DEF GotIp
  <2>2. retry' \in 0..(Reenable + 1)
    BY <1>1, ZeroTyped DEF GotIp
  <2>3. proven' \subseteq Networks
    BY <1>1 DEF GotIp, Accepted
  <2> QED BY <1>1, <2>1, <2>2, <2>3 DEF GotIp, PromoteSteps
<1>2. CASE RetryTimerFires
  <2>1. retryTimer' \in BOOLEAN
    BY <1>2 DEF RetryTimerFires
  <2>2. link' \in {"idle", "trying", "connected"} /\ (link' = "connected" => link = "connected")
    BY <1>2 DEF RetryTimerFires
  <2> QED BY <1>2, <2>1, <2>2 DEF RetryTimerFires
<1>3. CASE SetupWindowEnds
  <2>1. apTimer' \in BOOLEAN /\ ap' \in BOOLEAN
    BY <1>3 DEF SetupWindowEnds
  <2> QED BY <1>3, <2>1 DEF SetupWindowEnds
<1>4. CASE AirChanges
  <2>1. changes' \in 0..MaxChanges
    <3>1. changes \in 0..MaxChanges /\ changes < MaxChanges /\ changes' = changes + 1
      BY <1>4 DEF AirChanges
    <3> QED BY <3>1, BoundsAreNatural, CountTyped
  <2> QED BY <1>4, <2>1 DEF AirChanges
<1> QED BY <1>1, <1>2, <1>3, <1>4

LEMMA HandlerTyped ==
  TypeOK /\ (PromoteSsid \/ PromotePass \/ DropStaged \/ PromotionFails \/ EraseFails \/ Settle) => TypeOK'
<1> SUFFICES ASSUME TypeOK, PromoteSsid \/ PromotePass \/ DropStaged \/ PromotionFails \/ EraseFails \/ Settle
             PROVE  TypeOK'
  OBVIOUS
<1> USE DEF TypeOK, nvs, bounds, handlerElse, HandlerAt, PromoteSteps
<1>1. CASE PromoteSsid
  <2>1. held.ssid \in Networks \cup {None}
    BY DEF Pairs
  <2>2. saved' \in Pairs
    BY <1>1, <2>1, PairTyped DEF PromoteSsid
  <2> QED BY <1>1, <2>2 DEF PromoteSsid
<1>2. CASE PromotePass
  <2>1. held.pass \in Networks \cup {None}
    BY DEF Pairs
  <2>2. saved' \in Pairs
    BY <1>2, <2>1, PairTyped DEF PromotePass
  <2> QED BY <1>2, <2>2 DEF PromotePass
<1>3. CASE DropStaged
  <2>1. staged' \in Pairs
    <3>1. staged \in Pairs /\ (staged' = [staged EXCEPT !.ssid = None] \/ staged' = [staged EXCEPT !.pass = None])
      BY <1>3 DEF DropStaged
    <3> QED BY <3>1 DEF Pairs
  <2>2. trial' \in BOOLEAN
    BY <1>3 DEF DropStaged
  <2>3. handler' \in {"drop pass", "settle", "erase pass", "restart"}
    BY <1>3 DEF DropStaged
  <2> QED BY <1>3, <2>1, <2>2, <2>3 DEF DropStaged
<1>4. CASE PromotionFails
  <2>1. staged \in Pairs /\ (staged' = staged \/ staged' = [staged EXCEPT !.pass = None])
    BY <1>4 DEF PromotionFails
  <2>2. staged' \in Pairs
    BY <2>1 DEF Pairs
  <2> QED BY <1>4, <2>2 DEF PromotionFails
<1>6. CASE EraseFails
  BY <1>6 DEF EraseFails
<1>5. CASE Settle
  <2>1. apTimer' \in BOOLEAN
    BY <1>5 DEF Settle
  <2> QED BY <1>5, <2>1 DEF Settle
<1> QED BY <1>1, <1>2, <1>3, <1>4, <1>5, <1>6

LEMMA RequestTyped ==
  ASSUME web \in Requests \cup {NoRequest}, web.next \in {"ssid", "pass"}
  PROVE  web \in Requests /\ web.network \in Networks
  BY DEF Requests, NoRequest

LEMMA WebTyped ==
  TypeOK /\ ((\E n \in Networks : Ask("save", n) \/ Ask("stage", n)) \/ WriteSsid \/ WritePass) => TypeOK'
<1> USE DEF TypeOK, nvs, timers, webElse
<1>1. ASSUME TypeOK, NEW n \in Networks, NEW kind \in {"save", "stage"}, Ask(kind, n) PROVE TypeOK'
  <2>1. web' \in Requests
    BY <1>1 DEF Ask, Requests
  <2>2. excused' \subseteq excused \cup {"staged in trial"}
    BY <1>1 DEF Ask
  <2>3. requests' \in 0..MaxRequests
    <3>1. requests \in 0..MaxRequests /\ requests < MaxRequests /\ requests' = requests + 1
      BY <1>1 DEF Ask
    <3> QED BY <3>1, BoundsAreNatural, CountTyped
  <2> QED BY <1>1, <2>1, <2>2, <2>3 DEF Ask
<1>2. ASSUME TypeOK, WriteSsid PROVE TypeOK'
  <2>1. web \in Requests /\ web.network \in Networks
    BY <1>2, RequestTyped DEF WriteSsid
  <2>2. web' \in Requests
    BY <1>2, <2>1 DEF WriteSsid, Requests
  <2>3. saved' \in Pairs /\ staged' \in Pairs
    BY <1>2, <2>1, PairTyped DEF WriteSsid
  <2>4. excused' \subseteq excused \cup {"save and promotion"}
    BY <1>2 DEF WriteSsid
  <2> QED BY <1>2, <2>2, <2>3, <2>4 DEF WriteSsid
<1>3. ASSUME TypeOK, WritePass PROVE TypeOK'
  <2>1. web \in Requests /\ web.network \in Networks
    BY <1>3, RequestTyped DEF WritePass
  <2>2. web' \in Requests \cup {NoRequest}
    BY <1>3, <2>1 DEF WritePass, Requests
  <2>3. saved' \in Pairs /\ staged' \in Pairs
    BY <1>3, <2>1, PairTyped DEF WritePass
  <2>4. proven' \subseteq Networks
    BY <1>3, <2>1 DEF WritePass
  <2> QED BY <1>3, <2>2, <2>3, <2>4 DEF WritePass
<1> QED BY <1>1, <1>2, <1>3

LEMMA StepTyped == TypeOK /\ [Next]_vars => TypeOK'
<1> SUFFICES ASSUME TypeOK, [Next]_vars PROVE TypeOK'
  OBVIOUS
<1>1. CASE UNCHANGED vars
  BY <1>1 DEF TypeOK, vars, nvs, timers, history, bounds
<1>2. CASE PowerCut
  <2>1. cuts' \in 0..MaxCuts
    <3>1. cuts \in 0..MaxCuts /\ cuts < MaxCuts /\ cuts' = cuts + 1
      BY <1>2 DEF PowerCut, TypeOK
    <3> QED BY <3>1, BoundsAreNatural, CountTyped
  <2> QED BY <1>2, <2>1, ResetTyped DEF PowerCut
<1>3. CASE RestartAfterTrial \/ RestartAfterSave
  BY <1>3, ResetTyped DEF RestartAfterTrial, RestartAfterSave, TypeOK
<1> QED BY <1>1, <1>2, <1>3, BootTyped, DisconnectedTyped, EventTyped, HandlerTyped, WebTyped
     DEF Next, EventLoop, Restarts, LinkFails

-----------------------------------------------------------------------------
(***************************************************************************)
(* Reachability.  The steps of the handler and of the web interface do not *)
(* touch the radio, and leave the handler about to restart when it is.     *)
(***************************************************************************)
Reachable == NeverStranded /\ KeepsTrying

LEMMA RadioKept ==
  ASSUME Reachable, UNCHANGED <<up, config, link, retry, retryTimer, ap>>, AboutToRestart => AboutToRestart'
  PROVE  Reachable'
  BY DEF Reachable, NeverStranded, KeepsTrying, Complete

LEMMA FailureKeepsReachable == TypeOK /\ Reachable /\ LinkFails => Reachable'
<1> SUFFICES ASSUME TypeOK, Reachable, LinkFails PROVE Reachable'
  OBVIOUS
<1>1. /\ handler = "waiting" /\ link # "idle" /\ UNCHANGED <<up, config>>
      /\ retry' = IF retry > Reenable THEN retry ELSE retry + 1
      /\ retry \in Nat /\ Reenable \in Nat /\ Reenable >= 1 /\ (link = "connected" => retry = 0)
      /\ link \in {"idle", "trying", "connected"}
  <2>1. handler = "waiting" /\ link # "idle" /\ UNCHANGED <<up, config>>
    BY DEF LinkFails, Disconnected, CountFailure, stationElse
  <2>2. retry' = IF retry > Reenable THEN retry ELSE retry + 1
    BY DEF LinkFails, Disconnected, CountFailure
  <2>3. retry \in 0..(Reenable + 1) /\ (link = "connected" => retry = 0) /\ link \in {"idle", "trying", "connected"}
    BY DEF TypeOK
  <2> QED BY <2>1, <2>2, <2>3, BoundsAreNatural
<1>2. CASE retry + 1 < Reenable
  <2>1. link' = "trying" /\ retry' < Reenable
    BY <1>1, <1>2 DEF LinkFails, Disconnected, TryAgain
  <2> QED BY <2>1 DEF Reachable, NeverStranded, KeepsTrying
<1>3. CASE ~(retry + 1 < Reenable) /\ trial /\ retry + 1 = Reenable
  <2>1. handler' = "erase ssid"
    BY <1>3 DEF LinkFails, Disconnected, GiveUpTrial
  <2> QED BY <2>1 DEF Reachable, NeverStranded, KeepsTrying, AboutToRestart
<1>4. CASE ~(retry + 1 < Reenable) /\ ~(trial /\ retry + 1 = Reenable)
  <2>1. BackOff
    BY <1>4 DEF LinkFails, Disconnected
  <2>2. retryTimer'
    BY <2>1 DEF BackOff
  <2>3. up => ap'
    <3>1. CASE retry + 1 = Reenable
      BY <2>1, <3>1 DEF BackOff
    <3>2. CASE retry + 1 # Reenable
      <4>1. link = "trying" /\ ~(retry < Reenable)
        BY <1>1, <1>4, <3>2
      <4>2. up => ap
        BY <1>1, <4>1 DEF Reachable, NeverStranded, AboutToRestart
      <4> QED BY <2>1, <4>2 DEF BackOff
    <3> QED BY <3>1, <3>2
  <2> QED BY <1>1, <2>2, <2>3 DEF Reachable, NeverStranded, KeepsTrying
<1> QED BY <1>2, <1>3, <1>4

LEMMA StepKeepsReachable == TypeOK /\ Reachable /\ [Next]_vars => Reachable'
<1> SUFFICES ASSUME TypeOK, Reachable, [Next]_vars PROVE Reachable'
  OBVIOUS
<1>1. CASE UNCHANGED vars \/ AirChanges
  BY <1>1, RadioKept DEF vars, AirChanges, timers, AboutToRestart
<1>2. CASE PowerCut \/ RestartAfterTrial \/ RestartAfterSave
  BY <1>2 DEF PowerCut, RestartAfterTrial, RestartAfterSave, Reset, RamCleared, Reachable, NeverStranded, KeepsTrying
<1>3. CASE Boot
  <2>1. ap' /\ (Complete(config') => link' # "idle")
    BY <1>3 DEF Boot
  <2>2. Complete(config)' => link' # "idle"
    BY <2>1 DEF Complete
  <2> QED BY <2>1, <2>2 DEF Reachable, NeverStranded, KeepsTrying
<1>4. CASE LinkFails
  BY <1>4, FailureKeepsReachable
<1>5. CASE GotIp
  BY <1>5 DEF GotIp, Reachable, NeverStranded, KeepsTrying
<1>6. CASE RetryTimerFires
  <2>1. /\ UNCHANGED <<up, config, retry, ap, handler>>
        /\ link' = IF Complete(config) /\ link # "connected" THEN "trying" ELSE link
    BY <1>6 DEF RetryTimerFires, stationElse
  <2>2. NeverStranded'
    <3>1. CASE link = "idle"
      BY <2>1, <3>1 DEF Reachable, NeverStranded, AboutToRestart
    <3>2. CASE link # "idle"
      BY <2>1, <3>2 DEF Reachable, NeverStranded, AboutToRestart
    <3> QED BY <3>1, <3>2
  <2>3. KeepsTrying'
    BY <2>1 DEF KeepsTrying, Complete
  <2> QED BY <2>2, <2>3 DEF Reachable
<1>7. CASE SetupWindowEnds
  <2>1. UNCHANGED <<up, config, link, retry, retryTimer, handler>> /\ (ap' <=> ap /\ link # "connected")
    BY <1>7 DEF SetupWindowEnds, stationElse
  <2> QED BY <2>1 DEF Reachable, NeverStranded, KeepsTrying, AboutToRestart, Complete
<1>8. CASE PromoteSsid \/ PromotePass \/ PromotionFails \/ EraseFails \/ Settle
  BY <1>8, RadioKept
     DEF PromoteSsid, PromotePass, PromotionFails, EraseFails, Settle, HandlerAt, PromoteSteps, handlerElse, AboutToRestart
<1>9. CASE DropStaged
  BY <1>9, RadioKept DEF DropStaged, HandlerAt, handlerElse, AboutToRestart
<1>10. CASE (\E n \in Networks : Ask("save", n) \/ Ask("stage", n)) \/ WriteSsid \/ WritePass
  <2>1. UNCHANGED webElse
    BY <1>10 DEF Ask, WriteSsid, WritePass
  <2> QED BY <2>1, RadioKept DEF webElse, timers, AboutToRestart
<1> QED BY <1>1, <1>2, <1>3, <1>4, <1>5, <1>6, <1>7, <1>8, <1>9, <1>10 DEF Next, EventLoop, Restarts

-----------------------------------------------------------------------------
(***************************************************************************)
(* Credentials.  What a step excuses stays excused, so that each action    *)
(* has to be looked at only when it excuses nothing.                       *)
(***************************************************************************)
LEMMA ExcusesStay == [Next]_vars => excused \subseteq excused'
<1> SUFFICES ASSUME [Next]_vars PROVE excused \subseteq excused'
  OBVIOUS
<1>1. CASE UNCHANGED vars \/ AirChanges \/ Boot
  BY <1>1 DEF vars, AirChanges, Boot, history
<1>2. CASE PowerCut \/ RestartAfterTrial \/ RestartAfterSave
  BY <1>2 DEF PowerCut, RestartAfterTrial, RestartAfterSave, Reset
<1>3. CASE LinkFails
  BY <1>3 DEF LinkFails, Disconnected, TryAgain, BackOff, GiveUpTrial
<1>4. CASE GotIp \/ RetryTimerFires \/ SetupWindowEnds
  BY <1>4 DEF GotIp, RetryTimerFires, SetupWindowEnds, history
<1>5. CASE PromoteSsid \/ PromotePass \/ PromotionFails \/ EraseFails \/ Settle \/ DropStaged
  BY <1>5 DEF PromoteSsid, PromotePass, PromotionFails, EraseFails, Settle, DropStaged
<1>6. CASE (\E n \in Networks : Ask("save", n) \/ Ask("stage", n)) \/ WriteSsid \/ WritePass
  BY <1>6 DEF Ask, WriteSsid, WritePass
<1> QED BY <1>1, <1>2, <1>3, <1>4, <1>5, <1>6 DEF Next, EventLoop, Restarts

LEMMA StepStaysQuiet == TypeOK /\ QuietWhenDown /\ [Next]_vars => QuietWhenDown'
<1> SUFFICES ASSUME TypeOK, QuietWhenDown, [Next]_vars PROVE QuietWhenDown'
  OBVIOUS
<1> USE DEF QuietWhenDown
<1>1. CASE UNCHANGED vars \/ AirChanges
  BY <1>1 DEF vars, AirChanges
<1>2. CASE PowerCut \/ RestartAfterTrial \/ RestartAfterSave
  BY <1>2 DEF PowerCut, RestartAfterTrial, RestartAfterSave, Reset, RamCleared
<1>3. CASE Boot
  BY <1>3 DEF Boot
<1>4. CASE LinkFails \/ GotIp
  <2>1. link # "idle" /\ UNCHANGED up
    BY <1>4 DEF LinkFails, Disconnected, CountFailure, stationElse, GotIp
  <2> QED BY <2>1
<1>5. CASE RetryTimerFires \/ SetupWindowEnds
  BY <1>5 DEF RetryTimerFires, SetupWindowEnds, stationElse
<1>6. CASE PromoteSsid \/ PromotePass \/ PromotionFails \/ EraseFails \/ Settle \/ DropStaged
  <2>1. handler # "waiting" /\ UNCHANGED up
    BY <1>6 DEF PromoteSsid, PromotePass, PromotionFails, EraseFails, Settle, DropStaged, HandlerAt, PromoteSteps, handlerElse
  <2> QED BY <2>1
<1>7. ASSUME NEW n \in Networks, Ask("save", n) \/ Ask("stage", n) PROVE QuietWhenDown'
  BY <1>7 DEF Ask, webElse
<1>8. CASE WriteSsid \/ WritePass
  <2>1. web.next \in {"ssid", "pass"} /\ NoRequest.next = "done"
    BY <1>8 DEF WriteSsid, WritePass, NoRequest
  <2>2. UNCHANGED up
    BY <1>8 DEF WriteSsid, WritePass, webElse
  <2> QED BY <2>1, <2>2
<1> QED BY <1>1, <1>2, <1>3, <1>4, <1>5, <1>6, <1>7, <1>8 DEF Next, EventLoop, Restarts

LEMMA CredentialsKept ==
  ASSUME Unexcused, UNCHANGED <<nvs, up, config, trial, held, web, proven>>,
         handler' \in {handler, "waiting", "settle"}
  PROVE  Unexcused'
<1> USE DEF Unexcused, nvs
<1>1. TrialIsConfigured'
  BY DEF TrialIsConfigured, Complete
<1>2. PromotesProven'
  BY DEF PromotesProven, Whole, Complete
<1>3. DropsBehindWhole' /\ MixedOnTrial' /\ SavesInOrder' /\ PassIsProven'
  BY DEF DropsBehindWhole, MixedOnTrial, SavesInOrder, PassIsProven, Mixed, HalfSaved, Whole, Complete
<1> QED BY <1>1, <1>2, <1>3

LEMMA FailureKeepsCredentials ==
  ASSUME TypeOK, Unexcused, LinkFails, excused' = {}
  PROVE  Unexcused'
<1>1. UNCHANGED <<nvs, up, config, trial, held, web, proven>> /\ handler = "waiting"
  BY DEF LinkFails, Disconnected, CountFailure, stationElse
<1>2. CASE handler' = handler
  BY <1>1, <1>2, CredentialsKept
<1>3. CASE handler' # handler
  <2>1. handler' = "erase ssid" /\ Whole(saved)
    BY <1>3 DEF LinkFails, Disconnected, TryAgain, BackOff, GiveUpTrial
  <2>2. DropsBehindWhole' /\ PromotesProven'
    BY <1>1, <2>1 DEF DropsBehindWhole, PromotesProven, Whole, Complete, nvs
  <2>3. TrialIsConfigured' /\ MixedOnTrial' /\ SavesInOrder' /\ PassIsProven'
    BY <1>1 DEF Unexcused, TrialIsConfigured, MixedOnTrial, SavesInOrder, PassIsProven, Mixed, HalfSaved, Whole,
                Complete, nvs
  <2> QED BY <2>2, <2>3 DEF Unexcused
<1> QED BY <1>2, <1>3

LEMMA GotIpKeepsCredentials ==
  ASSUME TypeOK, Unexcused, GotIp
  PROVE  Unexcused'
<1>1. /\ UNCHANGED <<nvs, up, config, trial, web>> /\ Whole(config) /\ proven' = proven \cup {config.ssid}
      /\ handler' = IF trial /\ Complete(staged) THEN "save ssid" ELSE "settle"
      /\ trial => held' = staged
  BY DEF GotIp, Accepted
<1>2. PromotesProven'
  <2>1. CASE trial /\ Complete(staged)
    <3>1. staged = config
      BY <2>1 DEF Unexcused, TrialIsConfigured
    <3> QED BY <1>1, <2>1, <3>1 DEF PromotesProven, nvs, Whole, Complete
  <2>2. CASE ~(trial /\ Complete(staged))
    BY <1>1, <2>2 DEF PromotesProven
  <2> QED BY <2>1, <2>2
<1>3. DropsBehindWhole'
  BY <1>1 DEF DropsBehindWhole
<1>4. TrialIsConfigured' /\ MixedOnTrial' /\ SavesInOrder' /\ PassIsProven'
  BY <1>1 DEF Unexcused, TrialIsConfigured, MixedOnTrial, SavesInOrder, PassIsProven, Mixed, HalfSaved, Whole,
              Complete, nvs
<1> QED BY <1>2, <1>3, <1>4 DEF Unexcused

LEMMA PromotionKeepsCredentials ==
  ASSUME TypeOK, Unexcused, PromoteSsid \/ PromotePass, excused' = {}
  PROVE  Unexcused'
<1>1. /\ handler \in {"save ssid", "save pass"} /\ web.kind # "save"
      /\ UNCHANGED <<staged, up, config, trial, held, web, proven>>
  BY DEF PromoteSsid, PromotePass, HandlerAt, handlerElse
<1>2. trial /\ staged = held /\ Whole(held) /\ held.ssid \in proven
  BY <1>1 DEF Unexcused, PromotesProven
<1>3. held.ssid \in Networks \cup {None} /\ held.pass \in Networks \cup {None} /\ saved \in Pairs
  BY DEF TypeOK, Pairs
<1>4. TrialIsConfigured' /\ SavesInOrder'
  BY <1>1 DEF Unexcused, TrialIsConfigured, SavesInOrder, Complete
<1>5. MixedOnTrial'
  BY <1>1, <1>2 DEF MixedOnTrial, Whole, Complete
<1>6. CASE PromoteSsid
  <2>1. handler' = "save pass" /\ saved'.ssid = held.ssid /\ saved'.pass = saved.pass
    BY <1>3, <1>6, PairTyped DEF PromoteSsid, HandlerAt
  <2>2. PromotesProven' /\ DropsBehindWhole' /\ PassIsProven'
    BY <1>1, <1>2, <2>1 DEF PromotesProven, DropsBehindWhole, Unexcused, PassIsProven, Whole, Complete
  <2> QED BY <1>4, <1>5, <2>2 DEF Unexcused
<1>7. CASE PromotePass
  <2>1. handler = "save pass" /\ handler' = "drop ssid" /\ saved'.pass = held.pass /\ saved'.ssid = saved.ssid
    BY <1>3, <1>7, PairTyped DEF PromotePass, HandlerAt
  <2>2. saved'.ssid = held.ssid
    BY <2>1 DEF Unexcused, PromotesProven
  <2>3. DropsBehindWhole'
    BY <1>2, <2>1, <2>2 DEF DropsBehindWhole, Whole, Complete
  <2>4. PromotesProven' /\ PassIsProven'
    BY <1>1, <1>2, <2>1 DEF PromotesProven, PassIsProven, Whole, Complete
  <2> QED BY <1>4, <1>5, <2>3, <2>4 DEF Unexcused
<1> QED BY <1>6, <1>7

LEMMA DropKeepsCredentials ==
  ASSUME TypeOK, Unexcused, DropStaged
  PROVE  Unexcused'
<1>1. /\ handler \in {"drop ssid", "drop pass", "erase ssid", "erase pass"}
      /\ handler' \in {"drop pass", "settle", "erase pass", "restart"}
      /\ UNCHANGED <<saved, up, config, held, web, proven>> /\ (trial' => trial)
  <2>1. handler \in {"drop ssid", "drop pass", "erase ssid", "erase pass"}
    BY DEF DropStaged, HandlerAt
  <2>2. handler' \in {"drop pass", "settle", "erase pass", "restart"}
    BY DEF DropStaged, HandlerAt
  <2>3. UNCHANGED <<saved, up, config, held, web, proven>>
    BY DEF DropStaged, handlerElse
  <2>4. trial' => trial
    BY DEF DropStaged
  <2> QED BY <2>1, <2>2, <2>3, <2>4
<1>2. Whole(saved) \/ HalfSaved
  BY <1>1 DEF Unexcused, DropsBehindWhole
<1>3. ~Complete(staged')
  <2>1. staged \in Pairs /\ (staged' = [staged EXCEPT !.ssid = None] \/ staged' = [staged EXCEPT !.pass = None])
    BY DEF TypeOK, DropStaged
  <2>2. staged'.ssid = None \/ staged'.pass = None
    BY <2>1 DEF Pairs
  <2> QED BY <2>2 DEF Complete
<1>4. TrialIsConfigured'
  BY <1>1, <1>3 DEF Unexcused, TrialIsConfigured, Complete
<1>5. PromotesProven'
  BY <1>1 DEF PromotesProven
<1>6. DropsBehindWhole' /\ MixedOnTrial'
  BY <1>1, <1>2 DEF DropsBehindWhole, MixedOnTrial, Mixed, HalfSaved, Whole, Complete
<1>7. SavesInOrder' /\ PassIsProven'
  BY <1>1 DEF Unexcused, SavesInOrder, PassIsProven, Whole, Complete
<1> QED BY <1>4, <1>5, <1>6, <1>7 DEF Unexcused

LEMMA RefusalKeepsCredentials ==
  ASSUME TypeOK, Unexcused, PromotionFails \/ EraseFails
  PROVE  Unexcused'
<1>1. UNCHANGED <<saved, up, config, trial, held, web, proven>> /\ staged \in Pairs
  BY DEF PromotionFails, EraseFails, handlerElse, nvs, TypeOK
<1>2. CASE UNCHANGED staged
  <2>1. \/ handler' = "settle"
        \/ handler \in {"erase ssid", "erase pass"} /\ handler' \in {"erase pass", "restart"}
    BY DEF PromotionFails, EraseFails, HandlerAt
  <2> QED BY <1>1, <1>2, <2>1 DEF Unexcused, TrialIsConfigured, PromotesProven, DropsBehindWhole, MixedOnTrial, Mixed,
        HalfSaved, SavesInOrder, PassIsProven, Whole, Complete
<1>3. CASE ~UNCHANGED staged
  <2>1. handler = "drop ssid" /\ handler' = "settle" /\ staged' = [staged EXCEPT !.pass = None]
    BY <1>3 DEF PromotionFails, EraseFails, nvs
  <2>2. ~Complete(staged')
    BY <1>1, <2>1 DEF Complete, Pairs
  <2>3. Whole(saved) \/ HalfSaved
    BY <2>1 DEF Unexcused, DropsBehindWhole
  <2>4. TrialIsConfigured' /\ PromotesProven' /\ DropsBehindWhole'
    BY <1>1, <2>1, <2>2 DEF Unexcused, TrialIsConfigured, PromotesProven, DropsBehindWhole, Complete
  <2>5. MixedOnTrial'
    BY <1>1, <2>3 DEF MixedOnTrial, Mixed, HalfSaved, Whole, Complete
  <2>6. SavesInOrder' /\ PassIsProven'
    BY <1>1 DEF Unexcused, SavesInOrder, PassIsProven, Whole, Complete
  <2> QED BY <2>4, <2>5, <2>6 DEF Unexcused
<1> QED BY <1>2, <1>3

LEMMA AskKeepsCredentials ==
  ASSUME TypeOK, Unexcused, NEW kind \in {"save", "stage"}, NEW n \in Networks, Ask(kind, n), excused' = {}
  PROVE  Unexcused'
<1>1. /\ UNCHANGED <<nvs, up, config, trial, held, proven, handler>> /\ web = NoRequest
      /\ web' = [kind |-> kind, network |-> n, next |-> "ssid"]
  BY DEF Ask, webElse
<1>2. trial => kind # "stage"
  BY DEF Ask
<1>3. ~HalfSaved /\ ~HalfSaved'
  BY <1>1 DEF HalfSaved, NoRequest
<1>4. TrialIsConfigured'
  BY <1>1, <1>2 DEF Unexcused, TrialIsConfigured, Complete, nvs
<1>5. PromotesProven' /\ DropsBehindWhole' /\ MixedOnTrial'
  BY <1>1, <1>3 DEF Unexcused, PromotesProven, DropsBehindWhole, MixedOnTrial, Mixed, Whole, Complete, nvs
<1>6. SavesInOrder' /\ PassIsProven'
  BY <1>1 DEF Unexcused, SavesInOrder, PassIsProven, nvs
<1> QED BY <1>4, <1>5, <1>6 DEF Unexcused

LEMMA WriteSsidKeepsCredentials ==
  ASSUME TypeOK, QuietWhenDown, Unexcused, WriteSsid, excused' = {}
  PROVE  Unexcused'
<1>1. /\ web.next = "ssid" /\ web \in Requests /\ web.network \in Networks
      /\ web' = [web EXCEPT !.next = "pass"] /\ web' \in Requests
      /\ UNCHANGED <<up, config, trial, held, proven, handler>>
  <2>1. web.next = "ssid" /\ web \in Requests /\ web.network \in Networks
    BY RequestTyped DEF TypeOK, WriteSsid
  <2>2. web' = [web EXCEPT !.next = "pass"] /\ web' \in Requests
    BY <2>1 DEF WriteSsid, Requests
  <2>3. UNCHANGED <<up, config, trial, held, proven, handler>>
    BY DEF WriteSsid, webElse
  <2> QED BY <2>1, <2>2, <2>3
<1>2. web'.kind = web.kind /\ web'.network = web.network /\ web'.next = "pass" /\ web.kind \in {"save", "stage"}
  BY <1>1 DEF Requests
<1>3. CASE web.kind = "save"
  <2>1. handler \notin {"save ssid", "save pass"}
    BY <1>3 DEF WriteSsid
  <2>2. staged' = staged /\ saved'.ssid = web.network /\ saved'.pass = saved.pass
    <3>1. saved' = [saved EXCEPT !.ssid = web.network] /\ saved \in Pairs /\ staged' = staged
      BY <1>3 DEF WriteSsid, TypeOK
    <3> QED BY <3>1 DEF Pairs
  <2>3. HalfSaved'
    BY <1>2, <1>3 DEF HalfSaved
  <2>4. TrialIsConfigured'
    BY <1>1, <1>2, <2>2 DEF Unexcused, TrialIsConfigured, Complete
  <2>5. PromotesProven' /\ DropsBehindWhole' /\ MixedOnTrial'
    BY <1>1, <2>1, <2>3 DEF PromotesProven, DropsBehindWhole, MixedOnTrial
  <2>6. SavesInOrder' /\ PassIsProven'
    BY <1>1, <1>2, <2>2 DEF Unexcused, SavesInOrder, PassIsProven
  <2> QED BY <2>4, <2>5, <2>6 DEF Unexcused
<1>4. CASE web.kind = "stage"
  <2>1. ~trial /\ up
    BY <1>1, <1>4 DEF Unexcused, TrialIsConfigured, QuietWhenDown, NoRequest
  <2>2. saved' = saved
    BY <1>4 DEF WriteSsid
  <2>3. handler \notin {"save ssid", "save pass"} /\ ~Mixed /\ ~HalfSaved /\ ~HalfSaved'
    BY <1>2, <1>4, <2>1 DEF Unexcused, PromotesProven, MixedOnTrial, HalfSaved
  <2>4. TrialIsConfigured' /\ PromotesProven'
    BY <1>1, <2>1, <2>3 DEF TrialIsConfigured, PromotesProven
  <2>5. DropsBehindWhole' /\ MixedOnTrial'
    BY <1>1, <2>2, <2>3 DEF Unexcused, DropsBehindWhole, MixedOnTrial, Mixed, Whole, Complete
  <2>6. SavesInOrder' /\ PassIsProven'
    BY <1>1, <1>2, <1>4, <2>2 DEF Unexcused, SavesInOrder, PassIsProven
  <2> QED BY <2>4, <2>5, <2>6 DEF Unexcused
<1> QED BY <1>2, <1>3, <1>4

LEMMA WritePassKeepsCredentials ==
  ASSUME TypeOK, QuietWhenDown, Unexcused, WritePass
  PROVE  Unexcused'
<1>1. /\ web.next = "pass" /\ web \in Requests /\ web.network \in Networks
      /\ UNCHANGED <<up, config, trial, held, handler>>
  <2>1. web.next = "pass" /\ web \in Requests /\ web.network \in Networks
    BY RequestTyped DEF TypeOK, WritePass
  <2>2. UNCHANGED <<up, config, trial, held, handler>>
    BY DEF WritePass, webElse
  <2> QED BY <2>1, <2>2
<1>2. web.kind \in {"save", "stage"} /\ NoRequest.kind = "none"
  BY <1>1 DEF Requests, NoRequest
<1>3. CASE web.kind = "save"
  <2>1. /\ web'.kind = "save" /\ web'.next = "done" /\ web'.network = web.network /\ staged' = staged
        /\ proven' = proven \cup {web.network}
    BY <1>1, <1>3 DEF WritePass, Requests
  <2>2. saved'.pass = web.network /\ saved'.ssid = web.network
    <3>1. saved' = [saved EXCEPT !.pass = web.network] /\ saved \in Pairs /\ saved.ssid = web.network
      BY <1>1, <1>3 DEF WritePass, TypeOK, Unexcused, SavesInOrder
    <3> QED BY <3>1 DEF Pairs
  <2>3. Whole(saved)'
    BY <1>1, <2>2, NoneIsNoNetwork DEF Whole, Complete
  <2>4. handler \in {"save ssid", "save pass"} => handler # "save pass" \/ saved'.ssid = held.ssid
    BY <1>1, <1>3, <2>2 DEF Unexcused, PromotesProven, SavesInOrder
  <2>5. TrialIsConfigured' /\ PromotesProven'
    BY <1>1, <1>3, <2>1, <2>4 DEF Unexcused, TrialIsConfigured, PromotesProven, Whole, Complete
  <2>6. DropsBehindWhole' /\ MixedOnTrial' /\ SavesInOrder' /\ PassIsProven'
    BY <1>1, <2>1, <2>2, <2>3 DEF DropsBehindWhole, MixedOnTrial, Mixed, SavesInOrder, PassIsProven
  <2> QED BY <2>5, <2>6 DEF Unexcused
<1>4. CASE web.kind = "stage"
  <2>1. ~trial /\ up
    BY <1>1, <1>2, <1>4 DEF Unexcused, TrialIsConfigured, QuietWhenDown
  <2>2. saved' = saved /\ proven' = proven /\ web' = NoRequest
    BY <1>4 DEF WritePass
  <2>3. handler \notin {"save ssid", "save pass"} /\ ~Mixed /\ ~HalfSaved /\ ~HalfSaved'
    BY <1>2, <1>4, <2>1, <2>2 DEF Unexcused, PromotesProven, MixedOnTrial, HalfSaved
  <2>4. TrialIsConfigured' /\ PromotesProven'
    BY <1>1, <2>1, <2>3 DEF TrialIsConfigured, PromotesProven
  <2>5. DropsBehindWhole' /\ MixedOnTrial'
    BY <1>1, <2>2, <2>3 DEF Unexcused, DropsBehindWhole, MixedOnTrial, Mixed, Whole, Complete
  <2>6. SavesInOrder' /\ PassIsProven'
    BY <1>2, <2>2 DEF Unexcused, SavesInOrder, PassIsProven
  <2> QED BY <2>4, <2>5, <2>6 DEF Unexcused
<1> QED BY <1>2, <1>3, <1>4

LEMMA ResetKeepsCredentials ==
  ASSUME TypeOK, Unexcused, Reset, excused' = {}
  PROVE  Unexcused'
<1>1. UNCHANGED <<saved, staged, proven>> /\ up' = FALSE /\ trial' = FALSE /\ handler' = "waiting" /\ web' = NoRequest
  BY DEF Reset, RamCleared, nvs
<1>2. ~HalfSaved /\ NoRequest.kind = "none"
  BY DEF Reset, CutShort, HalfSaved, NoRequest
<1>3. TrialIsConfigured' /\ PromotesProven' /\ DropsBehindWhole'
  BY <1>1 DEF TrialIsConfigured, PromotesProven, DropsBehindWhole
<1>4. MixedOnTrial'
  BY <1>1, <1>2 DEF Unexcused, MixedOnTrial, Mixed, Whole, Complete
<1>5. SavesInOrder' /\ PassIsProven'
  BY <1>1, <1>2 DEF Unexcused, SavesInOrder, PassIsProven
<1> QED BY <1>3, <1>4, <1>5 DEF Unexcused

LEMMA BootKeepsCredentials ==
  ASSUME TypeOK, QuietWhenDown, Unexcused, Boot
  PROVE  Unexcused'
<1>1. /\ UNCHANGED <<saved, staged, proven, held, handler, web>> /\ handler = "waiting" /\ web = NoRequest
      /\ (trial' <=> Complete(staged)) /\ (Complete(staged) => config' = staged)
  <2>1. UNCHANGED <<saved, staged, proven, held, handler, web>>
    BY DEF Boot, nvs, history
  <2>2. handler = "waiting" /\ web = NoRequest
    BY DEF Boot, QuietWhenDown
  <2>3. (trial' <=> Complete(staged)) /\ (Complete(staged) => config' = staged)
    BY DEF Boot
  <2> QED BY <2>1, <2>2, <2>3
<1>2. NoRequest.kind = "none"
  BY DEF NoRequest
<1>3. TrialIsConfigured' /\ PromotesProven' /\ DropsBehindWhole'
  BY <1>1, <1>2 DEF TrialIsConfigured, PromotesProven, DropsBehindWhole
<1>4. MixedOnTrial'
  BY <1>1, <1>2 DEF Unexcused, MixedOnTrial, Mixed, HalfSaved, Whole, Complete
<1>5. SavesInOrder' /\ PassIsProven'
  BY <1>1, <1>2 DEF Unexcused, SavesInOrder, PassIsProven
<1> QED BY <1>3, <1>4, <1>5 DEF Unexcused

LEMMA StepKeepsCredentials == TypeOK /\ CredentialInv /\ [Next]_vars => CredentialInv'
<1> SUFFICES ASSUME TypeOK, CredentialInv, [Next]_vars PROVE CredentialInv'
  OBVIOUS
<1>1. QuietWhenDown /\ QuietWhenDown'
  BY StepStaysQuiet DEF CredentialInv
<1>2. ASSUME excused' = {} PROVE Unexcused'
  <2>1. Unexcused
    BY <1>2, ExcusesStay DEF CredentialInv
  <2>2. CASE UNCHANGED vars \/ AirChanges \/ RetryTimerFires \/ SetupWindowEnds \/ Settle
    <3>1. UNCHANGED <<nvs, up, config, trial, held, web, proven>> /\ handler' \in {handler, "waiting", "settle"}
      BY <2>2 DEF vars, AirChanges, RetryTimerFires, SetupWindowEnds, Settle, HandlerAt, history,
                  stationElse, handlerElse
    <3> QED BY <2>1, <3>1, CredentialsKept
  <2>3. CASE LinkFails \/ GotIp
    BY <1>2, <2>1, <2>3, FailureKeepsCredentials, GotIpKeepsCredentials
  <2>4. CASE PromoteSsid \/ PromotePass \/ DropStaged \/ PromotionFails \/ EraseFails
    BY <1>2, <2>1, <2>4, PromotionKeepsCredentials, DropKeepsCredentials, RefusalKeepsCredentials
  <2>5. ASSUME NEW n \in Networks, Ask("save", n) \/ Ask("stage", n) PROVE Unexcused'
    BY <1>2, <2>1, <2>5, AskKeepsCredentials
  <2>6. CASE WriteSsid \/ WritePass
    BY <1>1, <1>2, <2>1, <2>6, WriteSsidKeepsCredentials, WritePassKeepsCredentials
  <2>7. CASE PowerCut \/ RestartAfterTrial \/ RestartAfterSave
    BY <1>2, <2>1, <2>7, ResetKeepsCredentials DEF PowerCut, RestartAfterTrial, RestartAfterSave
  <2>8. CASE Boot
    BY <1>1, <2>1, <2>8, BootKeepsCredentials
  <2> QED BY <2>2, <2>3, <2>4, <2>5, <2>6, <2>7, <2>8 DEF Next, EventLoop, Restarts
<1> QED BY <1>1, <1>2 DEF CredentialInv

-----------------------------------------------------------------------------
(***************************************************************************)
(* The theorems.                                                           *)
(***************************************************************************)
LEMMA InitInv == Init => StationInv
<1> SUFFICES ASSUME Init PROVE StationInv
  OBVIOUS
<1>1. saved \in {Missing} \cup {Pair(n) : n \in Networks} /\ staged = Missing /\ proven = {saved.ssid} \ {None}
  BY DEF Init
<1>2. saved \in Pairs /\ saved.pass = saved.ssid /\ (saved = Missing \/ Whole(saved))
  BY <1>1, NoneIsNoNetwork DEF Pairs, Pair, Missing, Whole, Complete
<1>3. proven \subseteq Networks
  BY <1>1, <1>2 DEF Pairs
<1>4. TypeOK
  <2>1. up \in BOOLEAN /\ trial \in BOOLEAN /\ retryTimer \in BOOLEAN /\ ap \in BOOLEAN /\ apTimer \in BOOLEAN
    BY DEF Init
  <2>2. requests \in 0..MaxRequests /\ cuts \in 0..MaxCuts /\ changes \in 0..MaxChanges
    BY BoundsAreNatural DEF Init
  <2>3. staged \in Pairs /\ config \in Pairs /\ held \in Pairs
    BY MissingTyped DEF Init
  <2>4. retry \in 0..(Reenable + 1)
    BY ZeroTyped DEF Init
  <2> QED BY <1>2, <1>3, <2>1, <2>2, <2>3, <2>4 DEF Init, TypeOK
<1>5. NeverStranded /\ KeepsTrying
  BY DEF Init, NeverStranded, KeepsTrying
<1>6. QuietWhenDown
  BY DEF Init, QuietWhenDown
<1>7. TrialIsConfigured /\ PromotesProven /\ DropsBehindWhole
  BY DEF Init, TrialIsConfigured, PromotesProven, DropsBehindWhole
<1>8. MixedOnTrial /\ SavesInOrder /\ PassIsProven
  BY <1>1, <1>2 DEF Init, MixedOnTrial, Mixed, SavesInOrder, PassIsProven, NoRequest
<1> QED BY <1>4, <1>5, <1>6, <1>7, <1>8 DEF StationInv, StaysReachable, CredentialInv, Unexcused

(***************************************************************************)
(* wifi.c:30-32: the device can always be reached, over its network or the *)
(* setup access point, and a station with credentials goes on trying, for  *)
(* every threshold and whatever the air, the users and the power do.       *)
(***************************************************************************)
THEOREM AlwaysReachable == Spec => []StaysReachable
<1>1. StaysReachable /\ [Next]_vars => StaysReachable'
  BY StepTyped, StepKeepsReachable DEF StaysReachable, Reachable
<1>2. Init => StaysReachable
  BY InitInv DEF StationInv
<1> QED BY <1>1, <1>2, PTL DEF Spec

(***************************************************************************)
(* The two keys of a saved pair, the pair on trial and the promotion go    *)
(* together in the way the power may fail between any two of their steps.  *)
(***************************************************************************)
THEOREM StationInvariant == Spec => []StationInv
<1>1. StationInv /\ [Next]_vars => StationInv'
  BY StepTyped, StepKeepsReachable, StepKeepsCredentials DEF StationInv, StaysReachable, Reachable
<1> QED BY <1>1, InitInv, PTL DEF Spec

(***************************************************************************)
(* A trial never loses a pair that works: what is saved whole is proven,   *)
(* and while a saved key misses its partner the next boot can repeat the   *)
(* promotion.                                                              *)
(***************************************************************************)
THEOREM CredentialsAlwaysSafe == Spec => []CredentialsSafe
<1>1. StationInv => CredentialsSafe
  <2> SUFFICES ASSUME StationInv PROVE CredentialsSafe
    OBVIOUS
  <2>1. excused = {} => Unexcused
    BY DEF StationInv, CredentialInv
  <2>2. MixedIsStaged
    <3>1. web = NoRequest => ~HalfSaved
      BY DEF HalfSaved, NoRequest
    <3> QED BY <2>1, <3>1 DEF MixedIsStaged, Unexcused, MixedOnTrial, Mixed
  <2>3. SavedIsProven
    BY <2>1 DEF SavedIsProven, Unexcused, PassIsProven, Whole, Complete
  <2> QED BY <2>2, <2>3 DEF CredentialsSafe
<1> QED BY <1>1, StationInvariant, PTL

-----------------------------------------------------------------------------
(***************************************************************************)
(* The services.  The faults under which s_airplay_started cannot be true  *)
(* to the facts are left out, as in the run: a start by app_main beside    *)
(* that of the monitor, a bind that fails after the start has returned,    *)
(* and a stop that is lost.                                                *)
(***************************************************************************)
Reported == Faults \subseteq {"create", "wait", "clock", "mute", "late"}

(***************************************************************************)
(* One task at a time starts and stops the services; Phase is where it is. *)
(***************************************************************************)
OneCaller == at["app"] = "idle" \/ at["monitor"] = "idle"
Phase == IF at["monitor"] = "idle" THEN at["app"] ELSE at["monitor"]

Starting == {"serving", "awaiting", "undoing", "marking"}
Stopping == {"joining", "hushing", "clearing"}

PhaseKnowsFlag ==
  /\ Phase \in Starting \cup {"initialising", "sounding", "creating", "undone"} => ~started
  /\ Phase \in Stopping => started

(***************************************************************************)
(* The server task: it runs with its socket, and Live says that nobody has *)
(* told it to stop.                                                        *)
(***************************************************************************)
ServerKept ==
  /\ running => server = "accepting" /\ socket
  /\ server \in {"none", "begun"} => ~socket
  /\ server = "listening" => socket

Live == server \in {"begun", "listening"} \/ (server = "binding" /\ socket) \/ running

(***************************************************************************)
(* Between a stop and the end of its join the task may still go, but only  *)
(* towards its end; and an upload that stopped it has its own restart      *)
(* ahead.                                                                  *)
(***************************************************************************)
StartedIsLive == ~astray /\ upload = "idle" /\ (started \/ Phase = "marking") /\ Phase \notin Stopping => Live
StoppedIsGone == ~astray /\ ~started /\ Phase # "marking" => ~Serving
StoppingEnds ==
  /\ ~astray /\ Phase = "joining" => ~Live
  /\ ~astray /\ Phase \in {"hushing", "clearing"} => ~Serving

(***************************************************************************)
(* The playback task is on from its start to its stop, unless something    *)
(* went amiss; it is created only when it is off, told to leave by every   *)
(* stop, and never on outside.                                             *)
(***************************************************************************)
OutputFollows ==
  /\ Phase \in Starting \/ (started /\ Phase # "clearing") => output = "on" \/ amiss
  /\ Phase \in {"undone", "clearing"} => output # "on"
  /\ ~started /\ Phase \notin Starting => output # "on"
  /\ Phase \notin {"undone", "clearing"} /\ output = "leaving" => amiss
  /\ Phase = "creating" => output = "off"

FlagFacts == PhaseKnowsFlag /\ ServerKept /\ StartedIsLive /\ StoppedIsGone /\ StoppingEnds /\ OutputFollows

SupervisorInv == SupervisorTypeOK /\ OneCaller /\ FlagFacts

-----------------------------------------------------------------------------
AtType == at \in [Callers -> Steps \cup MonitorSteps] /\ at["app"] \in Steps

LEMMA CallerMoves ==
  ASSUME AtType, OneCaller, NEW c \in Callers, NEW from, NEW to, from # "idle", At(c, from, to),
         to \in Steps \/ (c = "monitor" /\ to \in MonitorSteps)
  PROVE  Phase = from /\ Phase' = to /\ OneCaller' /\ AtType'
BY DEF At, AtType, OneCaller, Phase, Callers, Steps, MonitorSteps

LEMMA NobodyMoves ==
  ASSUME AtType, OneCaller, at' = at
  PROVE  Phase' = Phase /\ OneCaller' /\ AtType'
BY DEF AtType, OneCaller, Phase

LEMMA Bounds == MaxLinkEvents \in Nat /\ MaxUploads \in Nat
BY SupervisorAssumption

LEMMA AtIsTyped == SupervisorTypeOK => AtType
BY DEF SupervisorTypeOK, AtType

LEMMA SupervisorInitInv == SupervisorInit => SupervisorInv
<1> SUFFICES ASSUME SupervisorInit  PROVE SupervisorInv
  OBVIOUS
<1> USE DEF SupervisorInit
<1>1. monitor \in [hadEth : BOOLEAN, wifiStarted : BOOLEAN, dns : BOOLEAN, eth : BOOLEAN, wifi : BOOLEAN]
  OBVIOUS
<1>2. radio \in BOOLEAN /\ wifi \in BOOLEAN /\ (wifi => radio)
  OBVIOUS
<1>3. bounced \in BOOLEAN /\ started \in BOOLEAN /\ infra \in BOOLEAN /\ running \in BOOLEAN /\ socket \in BOOLEAN
      /\ stale \in BOOLEAN /\ amiss \in BOOLEAN /\ astray \in BOOLEAN
  OBVIOUS
<1>4. AtType /\ OneCaller /\ Phase \in {"idle", "starting"}
  BY DEF AtType, OneCaller, Phase, Callers, Steps, MonitorSteps
<1>5. eth \in BOOLEAN
  OBVIOUS
<1>5a. events = 0 /\ uploads = 0
  OBVIOUS
<1>6. upload = "idle" /\ server = "none" /\ output = "off"
  OBVIOUS
<1> HIDE DEF SupervisorInit
<1>6a. events \in 0..MaxLinkEvents /\ uploads \in 0..MaxUploads
  BY <1>5a, Bounds
<1>7. SupervisorTypeOK
  BY <1>1, <1>2, <1>3, <1>4, <1>5, <1>6, <1>6a DEF SupervisorTypeOK, AtType, playback
<1> USE DEF SupervisorInit
<1>8. FlagFacts
  BY <1>4 DEF FlagFacts, PhaseKnowsFlag, ServerKept, StartedIsLive, StoppedIsGone, Serving, StoppingEnds, OutputFollows,
     Starting, Stopping
<1> QED
  BY <1>4, <1>7, <1>8 DEF SupervisorInv

(***************************************************************************)
(* Links change nothing that the invariant is about.                       *)
(***************************************************************************)
LEMMA LinksKeep ==
  ASSUME SupervisorInv, Links
  PROVE  SupervisorInv'
<1> USE DEF SupervisorInv
<1>1. LinkEvent
  BY DEF Links, EthernetUp, EthernetDown, WifiUp, WifiDisconnected, WifiBounce
<1>2. Phase' = Phase /\ OneCaller' /\ AtType'
  BY <1>1, NobodyMoves, AtIsTyped DEF LinkEvent
<1>3. events' \in 0..MaxLinkEvents
  <2>1. events \in 0..MaxLinkEvents
    BY DEF SupervisorTypeOK
  <2>2. events < MaxLinkEvents /\ events' = events + 1
    BY <1>1 DEF LinkEvent
  <2> HIDE DEF SupervisorInv
  <2> QED
    BY <2>1, <2>2, Bounds
<1>4. stale' \in BOOLEAN
  BY DEF SupervisorTypeOK, Links, EthernetUp, EthernetDown, WifiUp, WifiDisconnected, WifiBounce
<1>5. bounced' \in BOOLEAN
  BY DEF SupervisorTypeOK, Links, EthernetUp, EthernetDown, WifiUp, WifiDisconnected, WifiBounce
<1>6. eth' \in BOOLEAN
  BY DEF SupervisorTypeOK, Links, EthernetUp, EthernetDown, WifiUp, WifiDisconnected, WifiBounce
<1>7. wifi' \in BOOLEAN
  BY DEF SupervisorTypeOK, Links, EthernetUp, EthernetDown, WifiUp, WifiDisconnected, WifiBounce
<1>8. wifi' => radio'
  BY <1>1 DEF SupervisorTypeOK, LinkEvent, Links, EthernetUp, EthernetDown, WifiUp, WifiDisconnected, WifiBounce
<1>9. SupervisorTypeOK'
  BY <1>1, <1>2, <1>3, <1>4, <1>5, <1>6, <1>7, <1>8 DEF LinkEvent, flags, playback, SupervisorTypeOK, AtType
<1>10. FlagFacts'
  BY <1>1, <1>2 DEF LinkEvent, flags, playback, FlagFacts, PhaseKnowsFlag, ServerKept, StartedIsLive, StoppedIsGone, StoppingEnds,
     OutputFollows, Serving, Live
<1> QED
  BY <1>2, <1>9, <1>10

(***************************************************************************)
(* The server task goes from Live to its loop, or to its end.              *)
(***************************************************************************)
LEMMA ServerKeeps ==
  ASSUME SupervisorInv, Reported, ServerStep
  PROVE  SupervisorInv'
<1> USE DEF SupervisorInv, ServerStep, OpenSocket, Bind, BindFails, Serve, LeaveLoop, ServerEnds, ServerAt, serverElse,
        links, flags, playback, counts
<1>1. Phase' = Phase /\ OneCaller' /\ AtType'
  BY NobodyMoves, AtIsTyped
<1>2. running' \in BOOLEAN /\ socket' \in BOOLEAN /\ stale' \in BOOLEAN
  BY DEF SupervisorTypeOK
<1>3. server' \in {"none", "begun", "binding", "listening", "accepting", "closing"}
  BY DEF SupervisorTypeOK
<1>4. SupervisorTypeOK'
  BY <1>1, <1>2, <1>3 DEF SupervisorTypeOK, AtType, playback
<1>5. ServerKept' /\ (Live => Live')
  BY DEF FlagFacts, ServerKept, Live, Reported
<1>6. (Live' => Live) /\ (Serving' => Serving)
  BY DEF FlagFacts, ServerKept, Live, Serving
<1>7. FlagFacts'
  BY <1>1, <1>5, <1>6 DEF FlagFacts, PhaseKnowsFlag, StartedIsLive, StoppedIsGone, StoppingEnds, OutputFollows
<1> QED
  BY <1>1, <1>4, <1>7

LEMMA PlaybackKeeps ==
  ASSUME SupervisorInv, PlaybackTaskLeaves
  PROVE  SupervisorInv'
<1> USE DEF SupervisorInv, PlaybackTaskLeaves, links, flags, rtsp, playback, counts
<1>1. Phase' = Phase /\ OneCaller' /\ AtType'
  BY NobodyMoves, AtIsTyped
<1>2. SupervisorTypeOK'
  BY <1>1 DEF SupervisorTypeOK, AtType, playback
<1>3. FlagFacts'
  BY <1>1 DEF FlagFacts, PhaseKnowsFlag, ServerKept, StartedIsLive, StoppedIsGone, StoppingEnds, OutputFollows,
     Serving, Live
<1> QED
  BY <1>1, <1>2, <1>3

(***************************************************************************)
(* A start.  The playback task, if there is one, is one that leaves.       *)
(***************************************************************************)
LEMMA StartingKeeps ==
  ASSUME SupervisorInv, NEW c \in Callers,
         TestStarted(c) \/ InitInfrastructure(c) \/ ClockFails(c) \/ TestOutput(c) \/ Sound(c)
  PROVE  SupervisorInv'
<1> USE DEF SupervisorInv
<1>1. CASE TestStarted(c)
  <2> USE DEF TestStarted, callElse, flags, rtsp, playback, links, counts
  <2>1. Phase = "starting" /\ Phase' = (IF started THEN AfterStart(c) ELSE IF infra THEN "sounding" ELSE "initialising")
        /\ OneCaller' /\ AtType'
    BY <1>1, CallerMoves, AtIsTyped DEF AfterStart, Steps, MonitorSteps, Callers
  <2>2. SupervisorTypeOK'
    BY <1>1, <2>1 DEF SupervisorTypeOK, AtType, playback
  <2>3. FlagFacts'
    BY <1>1, <2>1 DEF FlagFacts, PhaseKnowsFlag, ServerKept, StartedIsLive, StoppedIsGone, StoppingEnds,
       OutputFollows, Serving, Live, Starting, Stopping, AfterStart
  <2> QED
    BY <2>1, <2>2, <2>3
<1>2. CASE InitInfrastructure(c)
  <2> USE DEF InitInfrastructure, callElse, rtsp, playback, links, counts
  <2>1. Phase = "initialising" /\ Phase' = "sounding" /\ OneCaller' /\ AtType'
    BY <1>2, CallerMoves, AtIsTyped DEF Steps
  <2>2. infra' \in BOOLEAN
    BY <1>2
  <2>3. SupervisorTypeOK'
    BY <1>2, <2>1, <2>2 DEF SupervisorTypeOK, AtType, playback
  <2>4. FlagFacts'
    BY <1>2, <2>1 DEF FlagFacts, PhaseKnowsFlag, ServerKept, StartedIsLive, StoppedIsGone, StoppingEnds,
       OutputFollows, Serving, Live, Starting, Stopping
  <2> QED
    BY <2>1, <2>3, <2>4
<1>3. CASE ClockFails(c)
  <2> USE DEF ClockFails, callElse, rtsp, playback, links, counts
  <2>1. Phase = "initialising" /\ Phase' \in {"network", "idle"} /\ OneCaller' /\ AtType'
    BY <1>3, CallerMoves, AtIsTyped DEF AfterStart, Steps, MonitorSteps, Callers
  <2>2. started' \in BOOLEAN /\ ~started'
    BY <1>3
  <2>3. SupervisorTypeOK'
    BY <1>3, <2>1, <2>2 DEF SupervisorTypeOK, AtType
  <2>4. FlagFacts'
    BY <1>3, <2>1, <2>2 DEF FlagFacts, PhaseKnowsFlag, ServerKept, StartedIsLive, StoppedIsGone, StoppingEnds,
       OutputFollows, Serving, Live, Starting, Stopping
  <2> QED
    BY <2>1, <2>3, <2>4
<1>4. CASE TestOutput(c)
  <2> USE DEF TestOutput, callElse, flags, rtsp, playback, links, counts
  <2>1. Phase = "sounding" /\ Phase' = (IF output = "off" THEN "creating" ELSE "serving") /\ OneCaller' /\ AtType'
    BY <1>4, CallerMoves, AtIsTyped DEF Steps
  <2>2. SupervisorTypeOK'
    BY <1>4, <2>1 DEF SupervisorTypeOK, AtType
  <2>3. output = "off" \/ amiss
    BY <2>1 DEF FlagFacts, PhaseKnowsFlag, OutputFollows, Starting, SupervisorTypeOK
  <2>4. FlagFacts'
    BY <1>4, <2>1, <2>3 DEF FlagFacts, PhaseKnowsFlag, ServerKept, StartedIsLive, StoppedIsGone, StoppingEnds,
       OutputFollows, Serving, Live, Starting, Stopping
  <2> QED
    BY <2>1, <2>2, <2>4
<1>5. CASE Sound(c)
  <2> USE DEF Sound, callElse, flags, rtsp, links, counts
  <2>1. Phase = "creating" /\ Phase' = "serving" /\ OneCaller' /\ AtType'
    BY <1>5, CallerMoves, AtIsTyped DEF Steps
  <2>2. output' \in {"on", "off", "leaving"} /\ amiss' \in BOOLEAN
    BY <1>5 DEF CreateOutput
  <2>3. output' = "on" \/ amiss'
    BY <1>5 DEF CreateOutput
  <2>4. ~started
    BY <2>1 DEF FlagFacts, PhaseKnowsFlag
  <2>5. SupervisorTypeOK'
    BY <1>5, <2>1, <2>2 DEF SupervisorTypeOK, AtType
  <2>6. FlagFacts'
    BY <1>5, <2>1, <2>2, <2>3, <2>4 DEF FlagFacts, PhaseKnowsFlag, ServerKept, StartedIsLive, StoppedIsGone, StoppingEnds,
       OutputFollows, Serving, Live, Starting, Stopping
  <2> QED
    BY <2>1, <2>5, <2>6
<1> QED
  BY <1>1, <1>2, <1>3, <1>4, <1>5

(***************************************************************************)
(* Where the start creates the server task, or finds that it cannot.       *)
(***************************************************************************)
LEMMA ServingKeeps ==
  ASSUME SupervisorInv, NEW c \in Callers,
         ServerNotCreated(c) \/ ServerRefuses(c) \/ AwaitServer(c) \/ ServerStays(c)
  PROVE  SupervisorInv'
<1> USE DEF SupervisorInv, ServerNotCreated, ServerRefuses, AwaitServer, ServerStays, callElse, flags, rtsp, playback, links, counts
<1>1. Phase \in {"serving", "awaiting"} /\ Phase' \in {"awaiting", "undoing"} /\ OneCaller' /\ AtType'
  BY CallerMoves, AtIsTyped DEF Steps
<1>2. SupervisorTypeOK'
  BY <1>1 DEF SupervisorTypeOK, AtType, playback
<1>3. FlagFacts'
  BY <1>1 DEF FlagFacts, PhaseKnowsFlag, ServerKept, StartedIsLive, StoppedIsGone, StoppingEnds, OutputFollows,
     Serving, Live, Starting, Stopping
<1> QED
  BY <1>1, <1>2, <1>3

LEMMA StartServerKeeps ==
  ASSUME SupervisorInv, NEW c \in Callers, StartServer(c)
  PROVE  SupervisorInv'
<1> USE DEF SupervisorInv, StartServer, CreateServer, callElse, flags, links, counts, playback
<1>1. Phase \in {"serving", "awaiting"} /\ Phase' = "marking" /\ OneCaller' /\ AtType'
  BY CallerMoves, AtIsTyped DEF Steps
<1>2. SupervisorTypeOK'
  BY <1>1 DEF SupervisorTypeOK, AtType, playback
<1>3. FlagFacts'
  BY <1>1 DEF FlagFacts, PhaseKnowsFlag, ServerKept, StartedIsLive, StoppedIsGone, StoppingEnds, OutputFollows,
     Serving, Live, Starting, Stopping
<1> QED
  BY <1>1, <1>2, <1>3

(***************************************************************************)
(* The end of a start: a failed one takes the playback task back.          *)
(***************************************************************************)
LEMMA StartEndKeeps ==
  ASSUME SupervisorInv, NEW c \in Callers, UndoOutput(c) \/ StartFailed(c) \/ MarkStarted(c)
  PROVE  SupervisorInv'
<1> USE DEF SupervisorInv
<1>1. CASE UndoOutput(c)
  <2> USE DEF UndoOutput, StopOutput, callElse, flags, rtsp, playback, links, counts
  <2>1. Phase = "undoing" /\ Phase' = "undone" /\ OneCaller' /\ AtType'
    BY <1>1, CallerMoves, AtIsTyped DEF Steps
  <2>2. SupervisorTypeOK'
    BY <1>1, <2>1 DEF SupervisorTypeOK, AtType, playback
  <2>3. FlagFacts'
    BY <1>1, <2>1 DEF FlagFacts, PhaseKnowsFlag, ServerKept, StartedIsLive, StoppedIsGone, StoppingEnds,
       OutputFollows, Serving, Live, Starting, Stopping
  <2> QED
    BY <2>1, <2>2, <2>3
<1>2. CASE StartFailed(c)
  <2> USE DEF StartFailed, callElse, rtsp, links, counts
  <2>1. Phase = "undone" /\ Phase' \in {"network", "idle"} /\ OneCaller' /\ AtType'
    BY <1>2, CallerMoves, AtIsTyped DEF AfterStart, Steps, MonitorSteps, Callers
  <2>2. started' \in BOOLEAN /\ ~started'
    BY <1>2
  <2>3. output' = output /\ output # "on"
    BY <1>2, <2>1 DEF FlagFacts, OutputFollows
  <2>4. amiss' \in BOOLEAN
    BY <1>2 DEF OutputStopped, OutputStays, SupervisorTypeOK
  <2>5. output = "leaving" => amiss'
    BY <1>2 DEF OutputStopped, OutputStays
  <2>6. SupervisorTypeOK'
    BY <1>2, <2>1, <2>2, <2>4 DEF SupervisorTypeOK, AtType
  <2>7. FlagFacts'
    BY <1>2, <2>1, <2>2, <2>3, <2>5 DEF FlagFacts, PhaseKnowsFlag, ServerKept, StartedIsLive, StoppedIsGone, StoppingEnds,
       OutputFollows, Serving, Live, Starting, Stopping
  <2> QED
    BY <2>1, <2>6, <2>7
<1>3. CASE MarkStarted(c)
  <2> USE DEF MarkStarted, callElse, rtsp, playback, links, counts
  <2>1. Phase = "marking" /\ Phase' \in {"network", "idle"} /\ OneCaller' /\ AtType'
    BY <1>3, CallerMoves, AtIsTyped DEF AfterStart, Steps, MonitorSteps, Callers
  <2>2. started' \in BOOLEAN /\ started'
    BY <1>3
  <2>3. SupervisorTypeOK'
    BY <1>3, <2>1, <2>2 DEF SupervisorTypeOK, AtType, playback
  <2>4. FlagFacts'
    BY <1>3, <2>1, <2>2 DEF FlagFacts, PhaseKnowsFlag, ServerKept, StartedIsLive, StoppedIsGone, StoppingEnds,
       OutputFollows, Serving, Live, Starting, Stopping
  <2> QED
    BY <2>1, <2>3, <2>4
<1> QED
  BY <1>1, <1>2, <1>3

(***************************************************************************)
(* A stop of the server: what was live is not, and its end stays its end.  *)
(***************************************************************************)
LEMMA StopEndsLive ==
  ASSUME SupervisorInv, Reported, StopServer
  PROVE  /\ running' \in BOOLEAN /\ socket' \in BOOLEAN
         /\ ServerKept' /\ ~Live' /\ (Serving' => Serving)
<1>1. ~running' /\ ~socket' /\ running' \in BOOLEAN /\ socket' \in BOOLEAN
  BY DEF StopServer
<1>2. server' = server /\ server \notin {"begun", "listening"}
  BY DEF StopServer, Reported
<1> QED
  BY <1>1, <1>2 DEF ServerKept, Live, Serving

LEMMA StopRtspKeeps ==
  ASSUME SupervisorInv, Reported, NEW c \in Callers, StopRtsp(c)
  PROVE  SupervisorInv'
<1> USE DEF SupervisorInv, StopRtsp, callElse, flags, links, counts, playback
<1>1. CASE started
  <2>1. Phase = "stopping" /\ Phase' = "joining" /\ OneCaller' /\ AtType'
    BY <1>1, CallerMoves, AtIsTyped DEF Steps
  <2>2. StopServer
    BY <1>1
  <2>3. running' \in BOOLEAN /\ socket' \in BOOLEAN /\ ServerKept' /\ ~Live' /\ server' = server /\ stale' = stale
    BY <2>2, StopEndsLive DEF StopServer
  <2>4. SupervisorTypeOK'
    BY <2>1, <2>3 DEF SupervisorTypeOK, AtType, playback
  <2>5. FlagFacts'
    BY <1>1, <2>1, <2>3 DEF FlagFacts, PhaseKnowsFlag, StartedIsLive, StoppedIsGone, StoppingEnds,
       OutputFollows, Starting, Stopping
  <2> QED
    BY <2>1, <2>4, <2>5
<1>2. CASE ~started
  <2>1. Phase = "stopping" /\ Phase' = AfterStop(c) /\ OneCaller' /\ AtType'
    BY <1>2, CallerMoves, AtIsTyped DEF AfterStop, Steps, MonitorSteps, Callers
  <2>2. SupervisorTypeOK'
    BY <1>2, <2>1 DEF rtsp, SupervisorTypeOK, AtType
  <2>3. FlagFacts'
    BY <1>2, <2>1 DEF rtsp, FlagFacts, PhaseKnowsFlag, ServerKept, StartedIsLive, StoppedIsGone, StoppingEnds,
       OutputFollows, Serving, Live, Starting, Stopping, AfterStop
  <2> QED
    BY <2>1, <2>2, <2>3
<1> QED
  BY <1>1, <1>2

(***************************************************************************)
(* The rest of a stop.  Only a restart by an upload, which is astray then, *)
(* could find the server running at the end of the join.                   *)
(***************************************************************************)
LEMMA StopEndKeeps ==
  ASSUME SupervisorInv, NEW c \in Callers, JoinServer(c) \/ Hush(c) \/ ClearStarted(c)
  PROVE  SupervisorInv'
<1> USE DEF SupervisorInv
<1>1. CASE JoinServer(c)
  <2> USE DEF JoinServer, callElse, flags, rtsp, playback, links, counts
  <2>1. Phase = "joining" /\ Phase' = "hushing" /\ OneCaller' /\ AtType'
    BY <1>1, CallerMoves, AtIsTyped DEF Steps
  <2>2. ~astray => ~Serving
    BY <1>1, <2>1 DEF Joined, Busy, Refused, FlagFacts, StoppingEnds, ServerKept, Live, Serving
  <2>3. SupervisorTypeOK'
    BY <1>1, <2>1 DEF SupervisorTypeOK, AtType, playback
  <2>4. FlagFacts'
    BY <1>1, <2>1, <2>2 DEF FlagFacts, PhaseKnowsFlag, ServerKept, StartedIsLive, StoppedIsGone, StoppingEnds,
       OutputFollows, Serving, Live, Starting, Stopping
  <2> QED
    BY <2>1, <2>3, <2>4
<1>2. CASE Hush(c)
  <2> USE DEF Hush, StopOutput, callElse, flags, rtsp, playback, links, counts
  <2>1. Phase = "hushing" /\ Phase' = "clearing" /\ OneCaller' /\ AtType'
    BY <1>2, CallerMoves, AtIsTyped DEF Steps
  <2>2. SupervisorTypeOK'
    BY <1>2, <2>1 DEF SupervisorTypeOK, AtType, playback
  <2>3. FlagFacts'
    BY <1>2, <2>1 DEF FlagFacts, PhaseKnowsFlag, ServerKept, StartedIsLive, StoppedIsGone, StoppingEnds,
       OutputFollows, Serving, Live, Starting, Stopping
  <2> QED
    BY <2>1, <2>2, <2>3
<1>3. CASE ClearStarted(c)
  <2> USE DEF ClearStarted, callElse, rtsp, links, counts
  <2>1. Phase = "clearing" /\ Phase' \in {"idle", "starting", "portal"} /\ OneCaller' /\ AtType'
    BY <1>3, CallerMoves, AtIsTyped DEF AfterStop, Steps, MonitorSteps, Callers
  <2>2. started' \in BOOLEAN /\ ~started'
    BY <1>3
  <2>3. output' = output /\ output # "on"
    BY <1>3, <2>1 DEF FlagFacts, OutputFollows
  <2>4. amiss' \in BOOLEAN
    BY <1>3 DEF OutputStopped, OutputStays, SupervisorTypeOK
  <2>5. output = "leaving" => amiss'
    BY <1>3 DEF OutputStopped, OutputStays
  <2>6. SupervisorTypeOK'
    BY <1>3, <2>1, <2>2, <2>4 DEF SupervisorTypeOK, AtType
  <2>7. FlagFacts'
    BY <1>3, <2>1, <2>2, <2>3, <2>5 DEF FlagFacts, PhaseKnowsFlag, ServerKept, StartedIsLive, StoppedIsGone, StoppingEnds,
       OutputFollows, Serving, Live, Starting, Stopping
  <2> QED
    BY <2>1, <2>6, <2>7
<1> QED
  BY <1>1, <1>2, <1>3

(***************************************************************************)
(* The monitor.  It leaves its sleep only when app_main is not within a    *)
(* start (there is no slow boot).                                          *)
(***************************************************************************)
Quiet == {"idle", "woken", "looked", "portal", "network", "starting", "stopping"}

LEMMA QuietKeeps ==
  ASSUME SupervisorInv, Phase \in Quiet, Phase' \in Quiet, UNCHANGED <<flags, rtsp, playback, astray, upload>>
  PROVE  FlagFacts'
BY DEF SupervisorInv, Quiet, flags, rtsp, playback, FlagFacts, PhaseKnowsFlag, ServerKept, StartedIsLive, StoppedIsGone,
   StoppingEnds, OutputFollows, Serving, Live, Starting, Stopping

MonitorType == monitor \in [hadEth : BOOLEAN, wifiStarted : BOOLEAN, dns : BOOLEAN, eth : BOOLEAN, wifi : BOOLEAN]

LEMMA MonitorIsTyped ==
  ASSUME MonitorType, NEW a \in BOOLEAN, NEW b \in BOOLEAN, NEW d \in BOOLEAN, NEW e \in BOOLEAN
  PROVE  /\ [monitor EXCEPT !.hadEth = a, !.eth = b, !.wifi = d, !.wifiStarted = e] \in
              [hadEth : BOOLEAN, wifiStarted : BOOLEAN, dns : BOOLEAN, eth : BOOLEAN, wifi : BOOLEAN]
         /\ [monitor EXCEPT !.wifi = a] \in
              [hadEth : BOOLEAN, wifiStarted : BOOLEAN, dns : BOOLEAN, eth : BOOLEAN, wifi : BOOLEAN]
         /\ [monitor EXCEPT !.dns = a] \in
              [hadEth : BOOLEAN, wifiStarted : BOOLEAN, dns : BOOLEAN, eth : BOOLEAN, wifi : BOOLEAN]
BY DEF MonitorType

LEMMA LookAtEthernetKeeps ==
  ASSUME SupervisorInv, Reported, LookAtEthernet
  PROVE  SupervisorInv'
<1> USE DEF SupervisorInv
<1>1. at["app"] = "idle" /\ at["monitor"] = "idle"
  BY DEF LookAtEthernet, At, Reported
<1>2. at' = [at EXCEPT !["monitor"] = "looked"] \/ at' = [at EXCEPT !["monitor"] = "woken"]
  BY DEF LookAtEthernet, At
<1>3. Phase = "idle" /\ Phase' \in {"woken", "looked"} /\ OneCaller' /\ AtType'
  BY <1>1, <1>2 DEF Phase, OneCaller, SupervisorTypeOK, AtType, Callers, Steps, MonitorSteps
<1>4. radio' \in BOOLEAN /\ wifi' \in BOOLEAN
  BY DEF LookAtEthernet, SupervisorTypeOK
<1>5. bounced' \in BOOLEAN
  BY DEF LookAtEthernet, SupervisorTypeOK
<1>6. wifi' => radio'
  BY DEF LookAtEthernet, SupervisorTypeOK
<1>7. MonitorType'
  BY DEF LookAtEthernet, SupervisorTypeOK, MonitorType
<1>8. UNCHANGED <<eth, flags, upload, rtsp, playback, astray, counts>>
  BY DEF LookAtEthernet, monitorElse
<1>9. SupervisorTypeOK'
  BY <1>3, <1>4, <1>5, <1>6, <1>7, <1>8 DEF SupervisorTypeOK, AtType, playback, MonitorType, flags, rtsp, playback, counts
<1>10. FlagFacts'
  BY <1>3, <1>8, QuietKeeps DEF Quiet
<1> QED
  BY <1>3, <1>9, <1>10

LEMMA WatchKeeps ==
  ASSUME SupervisorInv, Reported, Watch
  PROVE  SupervisorInv'
<1> USE DEF SupervisorInv
<1>1. CASE LookAtEthernet
  BY <1>1, LookAtEthernetKeeps
<1>2. CASE LookAtWifi
  <2>1. Phase = "woken" /\ Phase' = "looked" /\ OneCaller' /\ AtType'
    BY <1>2, CallerMoves, AtIsTyped DEF LookAtWifi, Callers, Steps, MonitorSteps
  <2>2. MonitorType'
    BY <1>2 DEF LookAtWifi, SupervisorTypeOK, MonitorType
  <2>3. UNCHANGED <<links, flags, upload, rtsp, playback, astray, counts>>
    BY <1>2 DEF LookAtWifi, monitorElse
  <2>4. SupervisorTypeOK'
    BY <2>1, <2>2, <2>3 DEF SupervisorTypeOK, AtType, playback, MonitorType, links, flags, rtsp, playback, counts
  <2>5. FlagFacts'
    BY <2>1, <2>3, QuietKeeps DEF Quiet
  <2> QED
    BY <2>1, <2>4, <2>5
<1>3. CASE Decide
  <2>1. Phase = "looked" /\ Phase' \in {"stopping", "starting"} /\ OneCaller' /\ AtType'
    BY <1>3, CallerMoves, AtIsTyped DEF Decide, Callers, Steps, MonitorSteps
  <2>2. bounced' \in BOOLEAN
    BY <1>3 DEF Decide
  <2>3. UNCHANGED <<eth, wifi, radio, monitor, flags, upload, rtsp, playback, astray, counts>>
    BY <1>3 DEF Decide, monitorElse
  <2>4. SupervisorTypeOK'
    BY <2>1, <2>2, <2>3 DEF SupervisorTypeOK, AtType, playback, flags, rtsp, playback, counts
  <2>5. FlagFacts'
    BY <2>1, <2>3, QuietKeeps DEF Quiet
  <2> QED
    BY <2>1, <2>4, <2>5
<1>4. CASE OpenPortal \/ ClosePortal
  <2>1. Phase \in {"portal", "network"} /\ Phase' = "idle" /\ OneCaller' /\ AtType'
    BY <1>4, CallerMoves, AtIsTyped DEF OpenPortal, ClosePortal, Callers, Steps, MonitorSteps
  <2>2. MonitorType'
    BY <1>4 DEF OpenPortal, ClosePortal, SupervisorTypeOK, MonitorType
  <2>3. UNCHANGED <<links, flags, upload, rtsp, playback, astray, counts>>
    BY <1>4 DEF OpenPortal, ClosePortal, monitorElse
  <2>4. SupervisorTypeOK'
    BY <2>1, <2>2, <2>3 DEF SupervisorTypeOK, AtType, playback, MonitorType, links, flags, rtsp, playback, counts
  <2>5. FlagFacts'
    BY <2>1, <2>3, QuietKeeps DEF Quiet
  <2> QED
    BY <2>1, <2>4, <2>5
<1> QED
  BY <1>1, <1>2, <1>3, <1>4 DEF Watch

(***************************************************************************)
(* An upload: it ends with the server running, or astray.                  *)
(***************************************************************************)
LEMMA StartUploadKeeps ==
  ASSUME SupervisorInv, Reported, StartUpload
  PROVE  SupervisorInv'
<1> USE DEF SupervisorInv
<1>1. at' = at /\ StopServer /\ upload' = "joining"
  BY DEF StartUpload, UploadAt, uploadElse
<1>2. Phase' = Phase /\ OneCaller' /\ AtType'
  BY <1>1, NobodyMoves, AtIsTyped
<1>3. running' \in BOOLEAN /\ socket' \in BOOLEAN /\ ServerKept' /\ ~Live' /\ (Serving' => Serving)
  BY <1>1, StopEndsLive
<1>4. uploads' \in 0..MaxUploads
  <2>1. uploads \in 0..MaxUploads /\ uploads < MaxUploads /\ uploads' = uploads + 1
    BY DEF StartUpload, SupervisorTypeOK
  <2> HIDE DEF SupervisorInv
  <2> QED
    BY <2>1, Bounds
<1>5. UNCHANGED <<links, monitor, flags, playback, events, astray, server, stale>>
  BY <1>1 DEF StartUpload, StopServer, uploadElse
<1>6. SupervisorTypeOK'
  BY <1>1, <1>2, <1>3, <1>4, <1>5 DEF SupervisorTypeOK, AtType, playback, links, flags, playback
<1>7. FlagFacts'
  BY <1>1, <1>2, <1>3, <1>5 DEF FlagFacts, PhaseKnowsFlag, StartedIsLive, StoppedIsGone, StoppingEnds, OutputFollows, flags, playback
<1> QED
  BY <1>2, <1>6, <1>7

LEMMA UploadKeeps ==
  ASSUME SupervisorInv, UploadFails \/ HandleUpload
  PROVE  SupervisorInv'
<1> USE DEF SupervisorInv
<1>1. UNCHANGED <<links, monitor, flags, at, playback, counts>>
  BY DEF UploadFails, HandleUpload, Receive, RestartServer, RestartWaits, RestartNeedless, RestartFails, uploadElse, counts
<1>2. Phase' = Phase /\ OneCaller' /\ AtType'
  BY <1>1, NobodyMoves, AtIsTyped
<1>3. CASE RestartServer
  <2>1. server = "none" /\ server' = "begun" /\ UNCHANGED <<running, socket, stale>>
    BY <1>3 DEF RestartServer, CreateServer
  <2>2. upload' \in {"idle"}
    BY <1>3 DEF RestartServer, UploadAt
  <2>3. astray' \in BOOLEAN
    BY <1>3, Zenon DEF RestartServer
  <2>4. ~astray' => ~astray /\ started /\ Phase = "idle"
    BY <1>3 DEF RestartServer, Phase, Callers
  <2>5. SupervisorTypeOK'
    BY <1>1, <1>2, <2>1, <2>2, <2>3 DEF SupervisorTypeOK, AtType, playback, links, flags, playback, counts
  <2>6. FlagFacts'
    BY <1>1, <1>2, <2>1, <2>2, <2>4 DEF FlagFacts, PhaseKnowsFlag, ServerKept, StartedIsLive, StoppedIsGone, StoppingEnds,
       OutputFollows, Serving, Live, Starting, Stopping, flags, playback
  <2> QED
    BY <1>2, <2>5, <2>6
<1>4. CASE RestartFails
  <2>1. astray' \in BOOLEAN /\ astray' /\ UNCHANGED rtsp
    BY <1>4 DEF RestartFails
  <2>2. upload' = "idle"
    BY <1>4 DEF RestartFails, UploadAt
  <2>3. SupervisorTypeOK'
    BY <1>1, <1>2, <2>1, <2>2 DEF SupervisorTypeOK, AtType, playback, links, flags, rtsp, playback, counts
  <2>4. FlagFacts'
    BY <1>1, <1>2, <2>1 DEF FlagFacts, PhaseKnowsFlag, ServerKept, StartedIsLive, StoppedIsGone, StoppingEnds,
       OutputFollows, flags, rtsp, playback
  <2> QED
    BY <1>2, <2>3, <2>4
<1>5. CASE UploadFails \/ Receive \/ RestartWaits \/ RestartNeedless
  <2>1. UNCHANGED <<astray, rtsp>>
    BY <1>5 DEF UploadFails, Receive, RestartWaits, RestartNeedless
  <2>2. upload' \in {"receiving", "restarting", "awaiting", "idle"} /\ (upload' = "idle" => running)
    BY <1>5 DEF UploadFails, Receive, RestartWaits, RestartNeedless, UploadAt, Refused
  <2>3. SupervisorTypeOK'
    BY <1>1, <1>2, <2>1, <2>2 DEF SupervisorTypeOK, AtType, playback, links, flags, rtsp, playback, counts
  <2>4. FlagFacts'
    BY <1>1, <1>2, <2>1, <2>2 DEF FlagFacts, PhaseKnowsFlag, ServerKept, StartedIsLive, StoppedIsGone, StoppingEnds,
       OutputFollows, Serving, Live, flags, rtsp, playback
  <2> QED
    BY <1>2, <2>3, <2>4
<1> QED
  BY <1>3, <1>4, <1>5 DEF HandleUpload

LEMMA SupervisorStepInv ==
  ASSUME Reported
  PROVE  SupervisorInv /\ [SupervisorNext]_supervisorVars => SupervisorInv'
<1>1. SupervisorInv /\ UNCHANGED supervisorVars => SupervisorInv'
  <2> SUFFICES ASSUME SupervisorInv, UNCHANGED supervisorVars  PROVE SupervisorInv'
    OBVIOUS
  <2> USE DEF supervisorVars, links, flags, rtsp, playback, counts
  <2>1. Phase' = Phase /\ OneCaller' /\ AtType'
    BY NobodyMoves, AtIsTyped DEF SupervisorInv
  <2>2. SupervisorTypeOK'
    BY DEF SupervisorInv, SupervisorTypeOK
  <2>3. FlagFacts'
    BY <2>1 DEF SupervisorInv, FlagFacts, PhaseKnowsFlag, ServerKept, StartedIsLive, StoppedIsGone, StoppingEnds,
       OutputFollows, Serving, Live
  <2> QED
    BY <2>1, <2>2, <2>3 DEF SupervisorInv
<1>2. ASSUME SupervisorInv, NEW c \in Callers, Proceed(c)
      PROVE  SupervisorInv'
  BY <1>2, StartingKeeps, ServingKeeps, StartServerKeeps, StartEndKeeps, StopRtspKeeps, StopEndKeeps DEF Proceed
<1>3. SupervisorInv /\ SupervisorNext => SupervisorInv'
  BY <1>2, LinksKeep, ServerKeeps, PlaybackKeeps, WatchKeeps, StartUploadKeeps, UploadKeeps DEF SupervisorNext
<1> QED
  BY <1>1, <1>3

(***************************************************************************)
(* Whatever fails half way and whoever comes in between, at rest           *)
(* s_airplay_started is true to the RTSP server unless an upload went      *)
(* astray, and then to the playback task unless its last start failed or a *)
(* stop gave up on it; for every number of link events and of uploads.     *)
(***************************************************************************)
THEOREM FlagAlwaysTrue ==
  ASSUME Reported
  PROVE  SupervisorSpec => []FlagIsTrue
<1>1. SupervisorInv => FlagIsTrue
  <2> SUFFICES ASSUME SupervisorInv  PROVE FlagIsTrue
    OBVIOUS
  <2>1. Resting => Phase = "idle" /\ upload = "idle"
    BY DEF Resting, Phase, Callers
  <2>2. Live => Serving
    BY DEF SupervisorInv, FlagFacts, ServerKept, Live, Serving
  <2> SUFFICES ASSUME Resting, ~astray
               PROVE  (started <=> Serving) /\ (output = "on" => started) /\ (amiss \/ (started <=> output # "off"))
    BY DEF FlagIsTrue, SupervisorInv
  <2>3. started <=> Serving
    BY <2>1, <2>2 DEF SupervisorInv, FlagFacts, StartedIsLive, StoppedIsGone, Stopping
  <2>4. /\ started => output = "on" \/ amiss
        /\ ~started => output # "on"
        /\ output = "leaving" => amiss
        /\ output \in {"on", "leaving", "off"}
    BY <2>1 DEF SupervisorInv, SupervisorTypeOK, FlagFacts, OutputFollows, Starting
  <2> QED
    BY <2>3, <2>4
<1> QED
  BY <1>1, SupervisorInitInv, SupervisorStepInv, PTL DEF SupervisorSpec
=============================================================================
