---------------------------- MODULE DeviceProofs ----------------------------
(***************************************************************************)
(* Proofs about the device through its resets.  First the crash counter,   *)
(* on its own: safe mode begins when it is due, and only then, for every   *)
(* crash limit.  Then the device: what holds of safe mode holds of it, it  *)
(* always has an image to boot, and a trial costs one crash at most.       *)
(***************************************************************************)
EXTENDS Device, TLAPS

(***************************************************************************)
(* What a boot starts with.                                                *)
(***************************************************************************)
FreshBoot == ~up => status.count = 0 /\ ~status.safe /\ health = "none" /\ request = "none"

(***************************************************************************)
(* The counter is never behind the crashes in a row, except at its limit.  *)
(***************************************************************************)
RunCounted == run <= crashes \/ crashes = MaxCrashes

(***************************************************************************)
(* s_status agrees with them: a count that is still shown after the        *)
(* counter was cleared is the only one that is out of date.                *)
(***************************************************************************)
CountShown ==
  /\ up /\ run >= CrashLimit => status.count >= CrashLimit
  /\ health = "stored" => run = 0
  /\ request \in {"half_cleared", "cleared"} => run = 0

(***************************************************************************)
(* A boot whose count reaches the limit is in safe mode throughout.        *)
(***************************************************************************)
LimitIsSafe == status.count >= CrashLimit => status.safe

(***************************************************************************)
(* Every crash counted is one that happened since the last forgiving; the  *)
(* one that recovery_init is about to count has happened too.              *)
(***************************************************************************)
CrashesHappened ==
  /\ crashes <= suspects
  /\ ~up /\ reason = "crash" => crashes < suspects
  /\ request = "forced" => forced

(***************************************************************************)
(* GuardTypeOK, by what the steps change together.                         *)
(***************************************************************************)
StoreType == crashes \in 0..MaxCrashes /\ forced \in BOOLEAN /\ reason \in {"clean", "crash"}
HistoryType == suspects \in Nat /\ run \in Nat
StatusType == status \in [forced : BOOLEAN, safe : BOOLEAN, count : 0..MaxCrashes]
TaskType == up \in BOOLEAN /\ health \in {"none", "waiting", "stored", "ended"} /\ request \in Requests

Typed == StoreType /\ HistoryType /\ StatusType /\ TaskType

GuardInv == Typed /\ FreshBoot /\ RunCounted /\ CountShown /\ LimitIsSafe /\ CrashesHappened

-----------------------------------------------------------------------------
LEMMA Constants ==
  /\ CrashLimit \in Nat /\ CrashLimit > 0
  /\ MaxCrashes \in Nat /\ CrashLimit <= MaxCrashes /\ 0 \in 0..MaxCrashes
BY GuardAssumption

LEMMA TypedIsType == Typed <=> GuardTypeOK
BY DEF Typed, StoreType, HistoryType, StatusType, TaskType, GuardTypeOK

USE DEF nvs, ram, history, panelElse, RequestAt

(***************************************************************************)
(* The steps, reset included, so that each part needs one case per step.   *)
(***************************************************************************)
Resets == \E kind \in {"clean", "crash"} : Reset(kind)
Asks == \E what \in {"force", "normal", "clear"} : Ask(what)

LEMMA Steps ==
  GuardNext <=> \/ Resets \/ RecoveryInit \/ MarkServicesReady \/ Healthy \/ HealthShown \/ Asks
                \/ StoreForced \/ ShowForced \/ StoreCleared \/ ShowCleared \/ StoreFails
BY DEF GuardNext, GuardStep, Resets, Asks

(***************************************************************************)
(* What is in NVS keeps its type; the counter stops at its limit.          *)
(***************************************************************************)
LEMMA StoreTyped ==
  ASSUME GuardInv, GuardNext
  PROVE  StoreType'
<1> USE DEF GuardInv, Typed, StoreType
<1>1. CASE Resets  BY <1>1 DEF Resets, Reset, NoStatus
<1>2. CASE RecoveryInit  BY <1>2, Constants DEF RecoveryInit
<1>3. CASE MarkServicesReady  BY <1>3 DEF MarkServicesReady
<1>4. CASE Healthy  BY <1>4, Constants DEF Healthy
<1>5. CASE HealthShown  BY <1>5 DEF HealthShown
<1>6. CASE Asks  BY <1>6 DEF Asks, Ask
<1>7. CASE StoreForced  BY <1>7 DEF StoreForced
<1>8. CASE ShowForced  BY <1>8 DEF ShowForced
<1>9. CASE StoreCleared  BY <1>9, Constants DEF StoreCleared
<1>10. CASE ShowCleared  BY <1>10 DEF ShowCleared, NoStatus
<1>11. CASE StoreFails  BY <1>11 DEF StoreFails
<1> QED  BY <1>1, <1>2, <1>3, <1>4, <1>5, <1>6, <1>7, <1>8, <1>9, <1>10, <1>11, Steps

(***************************************************************************)
(* So do the histories.                                                    *)
(***************************************************************************)
LEMMA HistoryTyped ==
  ASSUME GuardInv, GuardNext
  PROVE  HistoryType'
<1> USE DEF GuardInv, Typed, HistoryType
<1>1. CASE Resets  BY <1>1 DEF Resets, Reset, NoStatus
<1>2. CASE RecoveryInit  BY <1>2 DEF RecoveryInit
<1>3. CASE MarkServicesReady  BY <1>3 DEF MarkServicesReady
<1>4. CASE Healthy  BY <1>4 DEF Healthy
<1>5. CASE HealthShown  BY <1>5 DEF HealthShown
<1>6. CASE Asks  BY <1>6 DEF Asks, Ask
<1>7. CASE StoreForced  BY <1>7 DEF StoreForced
<1>8. CASE ShowForced  BY <1>8 DEF ShowForced
<1>9. CASE StoreCleared  BY <1>9 DEF StoreCleared
<1>10. CASE ShowCleared  BY <1>10 DEF ShowCleared, NoStatus
<1>11. CASE StoreFails  BY <1>11 DEF StoreFails
<1> QED  BY <1>1, <1>2, <1>3, <1>4, <1>5, <1>6, <1>7, <1>8, <1>9, <1>10, <1>11, Steps

(***************************************************************************)
(* s_status is rewritten as a whole, or field by field.                    *)
(***************************************************************************)
LEMMA StatusTyped ==
  ASSUME GuardInv, GuardNext
  PROVE  StatusType'
<1> USE DEF GuardInv, Typed, StatusType
<1>1. CASE Resets  BY <1>1, Constants DEF Resets, Reset, NoStatus
<1>2. CASE RecoveryInit  BY <1>2, Constants, StoreTyped, Steps DEF RecoveryInit, StoreType
<1>3. CASE MarkServicesReady  BY <1>3, Constants DEF MarkServicesReady
<1>4. CASE Healthy  BY <1>4, Constants DEF Healthy
<1>5. CASE HealthShown  BY <1>5, Constants DEF HealthShown
<1>6. CASE Asks  BY <1>6, Constants DEF Asks, Ask
<1>7. CASE StoreForced  BY <1>7, Constants DEF StoreForced
<1>8. CASE ShowForced
  <2>1. (status.count >= CrashLimit) \in BOOLEAN
    BY Constants
  <2>2. CASE request = "forced"  BY <1>8, <2>2 DEF ShowForced
  <2>3. CASE request = "unforced"  BY <1>8, <2>1, <2>3 DEF ShowForced
  <2> QED  BY <1>8, <2>2, <2>3 DEF ShowForced
<1>9. CASE StoreCleared  BY <1>9, Constants DEF StoreCleared
<1>10. CASE ShowCleared  BY <1>10, Constants DEF ShowCleared, NoStatus
<1>11. CASE StoreFails  BY <1>11, Constants DEF StoreFails
<1> QED  BY <1>1, <1>2, <1>3, <1>4, <1>5, <1>6, <1>7, <1>8, <1>9, <1>10, <1>11, Steps

(***************************************************************************)
(* And so does where the task and the request are.                         *)
(***************************************************************************)
LEMMA TaskTyped ==
  ASSUME GuardInv, GuardNext
  PROVE  TaskType'
<1> USE DEF GuardInv, Typed, TaskType, Requests
<1>1. CASE Resets  BY <1>1 DEF Resets, Reset, NoStatus
<1>2. CASE RecoveryInit  BY <1>2 DEF RecoveryInit
<1>3. CASE MarkServicesReady  BY <1>3 DEF MarkServicesReady
<1>4. CASE Healthy  BY <1>4 DEF Healthy
<1>5. CASE HealthShown  BY <1>5 DEF HealthShown
<1>6. CASE Asks  BY <1>6 DEF Asks, Ask
<1>7. CASE StoreForced  BY <1>7 DEF StoreForced
<1>8. CASE ShowForced  BY <1>8 DEF ShowForced
<1>9. CASE StoreCleared  BY <1>9 DEF StoreCleared
<1>10. CASE ShowCleared  BY <1>10 DEF ShowCleared, NoStatus
<1>11. CASE StoreFails  BY <1>11 DEF StoreFails
<1> QED  BY <1>1, <1>2, <1>3, <1>4, <1>5, <1>6, <1>7, <1>8, <1>9, <1>10, <1>11, Steps

(***************************************************************************)
(* Before recovery_init there is no status, no task and no request.        *)
(***************************************************************************)
LEMMA StaysFresh ==
  ASSUME GuardInv, GuardNext
  PROVE  FreshBoot'
<1> USE DEF GuardInv, Typed, TaskType, FreshBoot
<1>1. CASE Resets  BY <1>1 DEF Resets, Reset, NoStatus
<1>2. CASE RecoveryInit  BY <1>2 DEF RecoveryInit
<1>3. CASE MarkServicesReady  BY <1>3 DEF MarkServicesReady
<1>4. CASE Healthy  BY <1>4 DEF Healthy
<1>5. CASE HealthShown  BY <1>5 DEF HealthShown
<1>6. CASE Asks  BY <1>6 DEF Asks, Ask
<1>7. CASE StoreForced  BY <1>7 DEF StoreForced
<1>8. CASE ShowForced  BY <1>8 DEF ShowForced
<1>9. CASE StoreCleared  BY <1>9 DEF StoreCleared
<1>10. CASE ShowCleared  BY <1>10 DEF ShowCleared, NoStatus
<1>11. CASE StoreFails  BY <1>11 DEF StoreFails
<1> QED  BY <1>1, <1>2, <1>3, <1>4, <1>5, <1>6, <1>7, <1>8, <1>9, <1>10, <1>11, Steps

(***************************************************************************)
(* A crash raises both, and whatever clears the counter ends the run.      *)
(***************************************************************************)
LEMMA StaysCounted ==
  ASSUME GuardInv, GuardNext
  PROVE  RunCounted'
<1> USE DEF GuardInv, RunCounted
<1>1. CASE Resets  BY <1>1, Constants DEF Resets, Reset, NoStatus
<1>2. CASE RecoveryInit  BY <1>2, Constants DEF RecoveryInit, Typed, StoreType, HistoryType
<1>3. CASE MarkServicesReady  BY <1>3, Constants DEF MarkServicesReady
<1>4. CASE Healthy  BY <1>4, Constants DEF Healthy
<1>5. CASE HealthShown  BY <1>5, Constants DEF HealthShown
<1>6. CASE Asks  BY <1>6, Constants DEF Asks, Ask
<1>7. CASE StoreForced  BY <1>7, Constants DEF StoreForced
<1>8. CASE ShowForced  BY <1>8, Constants DEF ShowForced
<1>9. CASE StoreCleared  BY <1>9, Constants DEF StoreCleared
<1>10. CASE ShowCleared  BY <1>10, Constants DEF ShowCleared, NoStatus
<1>11. CASE StoreFails  BY <1>11, Constants DEF StoreFails
<1> QED  BY <1>1, <1>2, <1>3, <1>4, <1>5, <1>6, <1>7, <1>8, <1>9, <1>10, <1>11, Steps

(***************************************************************************)
(* recovery_init shows what it has stored; the status is cleared only after *)
(* NVS.                                                                    *)
(***************************************************************************)
LEMMA StaysShown ==
  ASSUME GuardInv, GuardNext
  PROVE  CountShown'
<1> USE DEF GuardInv, CountShown
<1>1. CASE Resets  BY <1>1, Constants DEF Resets, Reset, NoStatus
<1>2. CASE RecoveryInit  BY <1>2, Constants DEF RecoveryInit, Typed, StoreType, HistoryType, FreshBoot, RunCounted
<1>3. CASE MarkServicesReady  BY <1>3, Constants DEF MarkServicesReady
<1>4. CASE Healthy  BY <1>4, Constants DEF Healthy
<1>5. CASE HealthShown  BY <1>5, Constants DEF HealthShown
<1>6. CASE Asks  BY <1>6, Constants DEF Asks, Ask
<1>7. CASE StoreForced  BY <1>7, Constants DEF StoreForced
<1>8. CASE ShowForced  BY <1>8, Constants DEF ShowForced, Typed, StatusType
<1>9. CASE StoreCleared  BY <1>9, Constants DEF StoreCleared
<1>10. CASE ShowCleared  BY <1>10, Constants DEF ShowCleared, NoStatus
<1>11. CASE StoreFails  BY <1>11, Constants DEF StoreFails
<1> QED  BY <1>1, <1>2, <1>3, <1>4, <1>5, <1>6, <1>7, <1>8, <1>9, <1>10, <1>11, Steps

(***************************************************************************)
(* Whoever ends safe mode has looked at the count, or cleared it.          *)
(***************************************************************************)
LEMMA StaysSafe ==
  ASSUME GuardInv, GuardNext
  PROVE  LimitIsSafe'
<1> USE DEF GuardInv, LimitIsSafe, Typed, StatusType
<1>1. CASE Resets  BY <1>1, Constants DEF Resets, Reset, NoStatus
<1>2. CASE RecoveryInit  BY <1>2, Constants DEF RecoveryInit
<1>3. CASE MarkServicesReady  BY <1>3, Constants DEF MarkServicesReady
<1>4. CASE Healthy  BY <1>4, Constants DEF Healthy
<1>5. CASE HealthShown  BY <1>5, Constants DEF HealthShown
<1>6. CASE Asks  BY <1>6, Constants DEF Asks, Ask
<1>7. CASE StoreForced  BY <1>7, Constants DEF StoreForced
<1>8. CASE ShowForced  BY <1>8, Constants DEF ShowForced
<1>9. CASE StoreCleared  BY <1>9, Constants DEF StoreCleared
<1>10. CASE ShowCleared  BY <1>10, Constants DEF ShowCleared, NoStatus
<1>11. CASE StoreFails  BY <1>11, Constants DEF StoreFails
<1> QED  BY <1>1, <1>2, <1>3, <1>4, <1>5, <1>6, <1>7, <1>8, <1>9, <1>10, <1>11, Steps

(***************************************************************************)
(* A crash is suspected at the reset, before it is counted.                *)
(***************************************************************************)
LEMMA StayHappened ==
  ASSUME GuardInv, GuardNext
  PROVE  CrashesHappened'
<1> USE DEF GuardInv, CrashesHappened, Typed, StoreType, HistoryType
<1>1. CASE Resets  BY <1>1 DEF Resets, Reset, NoStatus, FreshBoot
<1>2. CASE RecoveryInit  BY <1>2 DEF RecoveryInit, FreshBoot
<1>3. CASE MarkServicesReady  BY <1>3 DEF MarkServicesReady
<1>4. CASE Healthy  BY <1>4, Constants DEF Healthy, FreshBoot
<1>5. CASE HealthShown  BY <1>5 DEF HealthShown
<1>6. CASE Asks  BY <1>6 DEF Asks, Ask
<1>7. CASE StoreForced  BY <1>7 DEF StoreForced
<1>8. CASE ShowForced  BY <1>8 DEF ShowForced
<1>9. CASE StoreCleared  BY <1>9, Constants DEF StoreCleared, FreshBoot
<1>10. CASE ShowCleared  BY <1>10 DEF ShowCleared, NoStatus
<1>11. CASE StoreFails  BY <1>11 DEF StoreFails
<1> QED  BY <1>1, <1>2, <1>3, <1>4, <1>5, <1>6, <1>7, <1>8, <1>9, <1>10, <1>11, Steps

LEMMA GuardInitInv == GuardInit => GuardInv
<1> SUFFICES ASSUME GuardInit  PROVE GuardInv
  OBVIOUS
<1> USE DEF GuardInit, NoStatus
<1>1. StoreType /\ StatusType
  BY Constants DEF StoreType, StatusType
<1>2. HistoryType /\ TaskType
  BY DEF HistoryType, TaskType, Requests
<1>3. FreshBoot /\ RunCounted /\ CountShown
  BY DEF FreshBoot, RunCounted, CountShown
<1>4. LimitIsSafe /\ CrashesHappened
  BY Constants DEF LimitIsSafe, CrashesHappened
<1> QED
  BY <1>1, <1>2, <1>3, <1>4 DEF GuardInv, Typed

LEMMA GuardStepInv == GuardInv /\ [GuardNext]_guardVars => GuardInv'
<1>1. GuardInv /\ GuardNext => GuardInv'
  BY StoreTyped, HistoryTyped, StatusTyped, TaskTyped, StaysFresh, StaysCounted, StaysShown, StaysSafe,
     StayHappened DEF GuardInv, Typed
<1>2. GuardInv /\ UNCHANGED guardVars => GuardInv'
  BY DEF GuardInv, Typed, StoreType, HistoryType, StatusType, TaskType, FreshBoot, RunCounted, CountShown,
     LimitIsSafe, CrashesHappened, guardVars
<1> QED
  BY <1>1, <1>2

LEMMA AlwaysGuardInv == GuardSpec => []GuardInv
BY GuardInitInv, GuardStepInv, PTL DEF GuardSpec

(***************************************************************************)
(* Every variable of recovery.c keeps its type; the counter never wraps.   *)
(***************************************************************************)
THEOREM GuardTypeCorrect == GuardSpec => []GuardTypeOK
<1>1. GuardInv => GuardTypeOK
  BY TypedIsType DEF GuardInv
<1> QED
  BY AlwaysGuardInv, <1>1, PTL

(***************************************************************************)
(* After a limit of crashes in a row the boot is in safe mode.             *)
(***************************************************************************)
THEOREM SafeModeWhenDue == GuardSpec => []SafeWhenDue
<1>1. GuardInv => SafeWhenDue
  BY DEF GuardInv, CountShown, LimitIsSafe, SafeWhenDue
<1> QED
  BY AlwaysGuardInv, <1>1, PTL

(***************************************************************************)
(* Safe mode begins by request, or after a limit of crashes that nothing   *)
(* has forgiven (recovery_init, recovery_force_safe_mode).                 *)
(***************************************************************************)
LEMMA SafeBeginsWhenDue ==
  ASSUME GuardInv, GuardNext, ~status.safe, status'.safe
  PROVE  forced' \/ suspects' >= CrashLimit
<1>1. CASE RecoveryInit
  <2>1. forced \/ crashes' >= CrashLimit
    BY <1>1 DEF RecoveryInit
  <2>2. crashes' <= suspects' /\ crashes' \in Nat /\ suspects' \in Nat
    BY StayHappened, StoreTyped, HistoryTyped DEF CrashesHappened, StoreType, HistoryType
  <2> QED
    BY <1>1, <2>1, <2>2, Constants DEF RecoveryInit
<1>2. CASE ShowForced
  BY <1>2, Constants DEF ShowForced, GuardInv, LimitIsSafe, CrashesHappened, Typed, StatusType
<1>3. CASE Resets  BY <1>3 DEF Resets, Reset, NoStatus
<1>4. CASE MarkServicesReady  BY <1>4 DEF MarkServicesReady
<1>5. CASE Healthy  BY <1>5 DEF Healthy
<1>6. CASE HealthShown  BY <1>6 DEF HealthShown, GuardInv, Typed, StatusType
<1>7. CASE Asks  BY <1>7 DEF Asks, Ask
<1>8. CASE StoreForced  BY <1>8 DEF StoreForced
<1>9. CASE StoreCleared  BY <1>9 DEF StoreCleared
<1>10. CASE ShowCleared  BY <1>10 DEF ShowCleared, NoStatus
<1>11. CASE StoreFails  BY <1>11 DEF StoreFails
<1> QED  BY <1>1, <1>2, <1>3, <1>4, <1>5, <1>6, <1>7, <1>8, <1>9, <1>10, <1>11, Steps

THEOREM SafeModeOnlyWhenDue == GuardSpec => SafeOnlyWhenDue
<1>1. GuardInv /\ [GuardNext]_guardVars
      => [~status.safe /\ status'.safe => forced' \/ suspects' >= CrashLimit]_guardVars
  BY SafeBeginsWhenDue
<1> QED
  BY AlwaysGuardInv, <1>1, PTL DEF GuardSpec, SafeOnlyWhenDue

-----------------------------------------------------------------------------
(***************************************************************************)
(* otadata: only the selected slot is new or on trial, and a slot that is  *)
(* selected without running is one of these.                               *)
(***************************************************************************)
OtaData ==
  /\ \A s \in Slots : state[s] \in {"new", "pending"} => s = selected
  /\ selected # running => state[selected] \in {"new", "pending"}
  /\ \A s \in Slots : state[s] = "new" => s # running /\ origin = running

(***************************************************************************)
(* The image that runs is whole and has not failed a trial, and as long as *)
(* it is on trial the one that it replaced is whole and has not either.    *)
(***************************************************************************)
RunsWell ==
  /\ image[running] = "intact" /\ state[running] # "aborted"
  /\ state[running] = "pending" => origin # running /\ image[origin] = "intact" /\ state[origin] # "aborted"

(***************************************************************************)
(* Nobody writes during a trial.                                           *)
(***************************************************************************)
TrialIsQuiet ==
  /\ pending => state[running] = "pending"
  /\ \A w \in Writers : writer[w] # "idle" => state[running] # "pending"

(***************************************************************************)
(* TrialTypeOK, by what the steps change together.                         *)
(***************************************************************************)
ImageType == image \in [Slots -> {"intact", "partial"}]
StateType == state \in [Slots -> {"valid", "new", "pending", "aborted"}]
PlaceType == selected \in Slots /\ running \in Slots /\ origin \in Slots
CheckType == pending \in BOOLEAN /\ ready \in BOOLEAN /\ seconds \in {"few", "30", "60"}
WriterType == writer \in [Writers -> {"idle", "writing", "spoilt", "written", "selected"}]

TrialTyped == ImageType /\ StateType /\ PlaceType /\ CheckType /\ WriterType

TrialInv == TrialTyped /\ OtaData /\ RunsWell /\ TrialIsQuiet

(***************************************************************************)
(* The crash that ends a trial is the only one since the image was first   *)
(* booted, whether recovery_init has counted it yet or not.                *)
(***************************************************************************)
Uncounted == ~up /\ reason = "crash"

CrashesOfTrial ==
  /\ state[selected] = "pending" => crashes <= before /\ (Uncounted => crashes < before)
  /\ rolledBack => crashes <= before + 1 /\ (Uncounted => crashes <= before)

-----------------------------------------------------------------------------
LEMMA TwoSlots ==
  \A s \in Slots : Other(s) \in Slots /\ Other(s) # s /\ \A t \in Slots : t # s => t = Other(s)
<1>1. PICK a, b \in Slots : a # b /\ Slots = {a, b}
  BY TrialAssumption
<1> SUFFICES ASSUME NEW s \in Slots
             PROVE  Other(s) \in Slots /\ Other(s) # s /\ \A t \in Slots : t # s => t = Other(s)
  OBVIOUS
<1>2. \E t \in Slots : t # s
  BY <1>1
<1>3. Other(s) \in Slots /\ Other(s) # s
  BY <1>2 DEF Other
<1> QED
  BY <1>1, <1>3

(***************************************************************************)
(* What a reset does to the slots: a trial that is not confirmed ends, a   *)
(* new image gets its trial (or is passed over), or the same image boots.  *)
(***************************************************************************)
EndsTrial ==
  /\ state[selected] = "pending"
  /\ selected' = Other(selected) /\ running' = Other(selected)
  /\ state[Other(selected)] = "valid" /\ image[Other(selected)] = "intact"
  /\ \A t \in Slots : state'[t] = IF t = selected THEN "aborted" ELSE state[t]

BeginsTrial ==
  /\ state[selected] = "new" /\ selected # running
  /\ selected' = selected
  /\ \/ running' = selected /\ image[selected] = "intact"
     \/ running' = running
  /\ \A t \in Slots : state'[t] = IF t = selected THEN "pending" ELSE state[t]

BootsAgain ==
  /\ state[selected] = "valid"
  /\ selected' = selected /\ running' = running
  /\ \A t \in Slots : state'[t] = state[t]

Booted ==
  /\ StateType' /\ UNCHANGED <<image, origin>>
  /\ pending' = FALSE /\ ready' = FALSE /\ seconds' = "few"
  /\ writer' = [w \in Writers |-> "idle"]

(***************************************************************************)
(* The slot beside one on trial is valid and whole: it is the one that was *)
(* replaced, or the one that runs because the new image could not.         *)
(***************************************************************************)
LEMMA FallbackIsValid ==
  ASSUME TrialInv, state[selected] = "pending"
  PROVE  state[Other(selected)] = "valid" /\ image[Other(selected)] = "intact"
<1> USE DEF TrialInv, TrialTyped, PlaceType, StateType, OtaData, RunsWell
<1>1. Other(selected) \in Slots /\ Other(selected) # selected
  BY TwoSlots
<1>2. state[Other(selected)] \notin {"new", "pending"}
  BY <1>1
<1>3. CASE running = selected
  <2>1. origin = Other(selected)
    BY <1>3, TwoSlots
  <2> QED
    BY <1>1, <1>2, <1>3, <2>1
<1>4. CASE running # selected
  <2>1. running = Other(selected)
    BY <1>4, TwoSlots
  <2> QED
    BY <1>1, <1>2, <2>1
<1> QED
  BY <1>3, <1>4

LEMMA RebootCases ==
  ASSUME TrialInv, Reboot
  PROVE  Booted /\ (EndsTrial \/ BeginsTrial \/ BootsAgain)
<1> USE DEF TrialInv, TrialTyped, PlaceType, StateType
<1>1. selected \in Slots /\ Other(selected) \in Slots /\ Other(selected) # selected
  BY TwoSlots
<1>2. Choice \in Slots
  BY <1>1 DEF Choice
<1>3. state' = [t \in Slots |-> IF t = selected /\ state[t] = "pending" THEN "aborted"
                               ELSE IF t = Choice /\ state[t] = "new" THEN "pending" ELSE state[t]]
      /\ selected' = Choice /\ running' = IF image[Choice] = "intact" THEN Choice ELSE Other(Choice)
  BY DEF Reboot
<1>4. Booted
  BY <1>3 DEF Booted, Reboot
<1>5. state[selected] # "aborted"
  BY DEF OtaData, RunsWell
<1>6. CASE state[selected] = "pending"
  <2>1. Choice = Other(selected)
    BY <1>6 DEF Choice
  <2>2. state[Other(selected)] = "valid" /\ image[Other(selected)] = "intact"
    BY <1>6, FallbackIsValid
  <2>3. \A t \in Slots : state'[t] = IF t = selected THEN "aborted" ELSE state[t]
    BY <1>1, <1>3, <1>6, <2>1, <2>2
  <2> QED
    BY <1>3, <1>4, <1>6, <2>1, <2>2, <2>3 DEF EndsTrial
<1>7. CASE state[selected] = "new"
  <2>1. Choice = selected
    BY <1>7 DEF Choice
  <2>2. selected # running /\ running = Other(selected)
    BY <1>1, <1>7, TwoSlots DEF OtaData
  <2>3. \A t \in Slots : state'[t] = IF t = selected THEN "pending" ELSE state[t]
    BY <1>1, <1>3, <1>7, <2>1
  <2> QED
    BY <1>3, <1>4, <1>7, <2>1, <2>2, <2>3 DEF BeginsTrial
<1>8. CASE state[selected] = "valid"
  <2>1. Choice = selected /\ selected = running
    BY <1>8 DEF Choice, OtaData
  <2>2. image[running] = "intact"
    BY DEF RunsWell
  <2>3. \A t \in Slots : state'[t] = state[t]
    BY <1>1, <1>3, <1>8, <2>1
  <2> QED
    BY <1>3, <1>4, <1>8, <2>1, <2>2, <2>3 DEF BootsAgain
<1> QED
  BY <1>1, <1>5, <1>6, <1>7, <1>8

LEMMA RollBackEndsTrial ==
  ASSUME TrialInv, RollBack
  PROVE  Booted /\ EndsTrial
<1> USE DEF TrialInv, TrialTyped, PlaceType, StateType
<1>1. state[running] = "pending" /\ running = selected
  BY DEF RollBack, RollBackDue, TrialIsQuiet, OtaData
<1>2. Booted
  BY DEF Booted, RollBack
<1>3. state[Other(selected)] = "valid" /\ image[Other(selected)] = "intact"
  BY <1>1, FallbackIsValid
<1>4. \A t \in Slots : state'[t] = IF t = selected THEN "aborted" ELSE state[t]
  BY <1>1 DEF RollBack
<1> QED
  BY <1>1, <1>2, <1>3, <1>4 DEF EndsTrial, RollBack

(***************************************************************************)
(* A reset preserves the invariant.                                        *)
(***************************************************************************)
LEMMA BootInv ==
  ASSUME TrialInv, Booted, EndsTrial \/ BeginsTrial \/ BootsAgain
  PROVE  TrialInv'
<1> USE DEF TrialInv, TrialTyped, PlaceType, StateType, Booted
<1>1. Other(selected) \in Slots /\ Other(selected) # selected
  BY TwoSlots
<1>2. TrialTyped'
  <2>1. PlaceType'
    BY <1>1 DEF EndsTrial, BeginsTrial, BootsAgain
  <2>2. ImageType' /\ CheckType' /\ WriterType'
    BY DEF ImageType, CheckType, WriterType
  <2> QED
    BY <2>1, <2>2
<1>3. TrialIsQuiet'
  BY DEF TrialIsQuiet
<1>4. CASE EndsTrial
  <2>1. OtaData'
    BY <1>1, <1>4 DEF EndsTrial, OtaData
  <2>2. RunsWell'
    BY <1>1, <1>4 DEF EndsTrial, RunsWell
  <2> QED
    BY <1>2, <1>3, <2>1, <2>2
<1>5. CASE BeginsTrial
  <2>1. OtaData'
    BY <1>1, <1>5 DEF BeginsTrial, OtaData
  <2>2. origin = running
    BY <1>5 DEF BeginsTrial, OtaData
  <2>3. state[running] # "pending"
    BY <1>5 DEF BeginsTrial, OtaData
  <2>4. RunsWell'
    <3>1. CASE running' = selected /\ image[selected] = "intact"
      BY <1>5, <2>2, <2>3, <3>1 DEF BeginsTrial, RunsWell
    <3>2. CASE running' = running
      BY <1>5, <2>2, <2>3, <3>2 DEF BeginsTrial, RunsWell
    <3> QED
      BY <1>5, <3>1, <3>2 DEF BeginsTrial
  <2> QED
    BY <1>2, <1>3, <2>1, <2>4
<1>6. CASE BootsAgain
  BY <1>2, <1>3, <1>6 DEF BootsAgain, OtaData, RunsWell
<1> QED
  BY <1>4, <1>5, <1>6
-----------------------------------------------------------------------------
(***************************************************************************)
(* maintenance_task confirms the image that runs, and nothing else of the  *)
(* slots changes.                                                          *)
(***************************************************************************)
LEMMA MaintenanceInv ==
  ASSUME TrialInv, MaintenanceInit \/ CoreServicesReady \/ HealthySeconds \/ Confirm
  PROVE  TrialInv'
<1> USE DEF TrialInv, TrialTyped, maintenanceElse
<1>1. CASE MaintenanceInit
  BY <1>1 DEF MaintenanceInit, ImageType, StateType, PlaceType, CheckType, WriterType, OtaData, RunsWell, TrialIsQuiet
<1>2. CASE CoreServicesReady
  BY <1>2 DEF CoreServicesReady, ImageType, StateType, PlaceType, CheckType, WriterType, OtaData, RunsWell, TrialIsQuiet
<1>3. CASE HealthySeconds
  BY <1>3 DEF HealthySeconds, ImageType, StateType, PlaceType, CheckType, WriterType, OtaData, RunsWell, TrialIsQuiet
<1>4. CASE Confirm
  <2>1. state[running] = "pending" /\ running \in Slots /\ running = selected
    BY <1>4 DEF Confirm, TrialIsQuiet, OtaData, PlaceType
  <2>2. TrialTyped'
    BY <1>4 DEF Confirm, ImageType, StateType, PlaceType, CheckType, WriterType
  <2>3. OtaData'
    BY <1>4, <2>1 DEF Confirm, OtaData, StateType, PlaceType
  <2>4. RunsWell'
    BY <1>4, <2>1 DEF Confirm, RunsWell, StateType
  <2>5. TrialIsQuiet'
    BY <1>4, <2>1 DEF Confirm, TrialIsQuiet, StateType
  <2> QED
    BY <2>2, <2>3, <2>4, <2>5
<1> QED
  BY <1>1, <1>2, <1>3, <1>4

(***************************************************************************)
(* The writers touch the slot that does not run, and only outside a trial. *)
(***************************************************************************)
LEMMA WriterInv ==
  ASSUME TrialInv, BeginWrite \/ EndWrite \/ WriteFails \/ Select
  PROVE  TrialInv'
<1> USE DEF TrialInv, TrialTyped, writerElse, flash, checkup
<1>1. Target \in Slots /\ Target # running /\ \A t \in Slots : t # running => t = Target
  BY TwoSlots DEF Target, PlaceType
<1>2. CASE BeginWrite
  <2>1. PICK w \in Writers :
          /\ state[running] # "pending" /\ image' = [image EXCEPT ![Target] = "partial"]
          /\ writer' = [v \in Writers |-> IF v = w THEN (IF \E u \in Writers : Busy(u) THEN "spoilt" ELSE "writing")
                                          ELSE IF Busy(v) THEN "spoilt" ELSE writer[v]]
          /\ UNCHANGED <<state, selected, origin, writerElse>>
    BY <1>2 DEF BeginWrite
  <2>2. TrialTyped'
    BY <1>1, <2>1 DEF ImageType, StateType, PlaceType, CheckType, WriterType
  <2>3. OtaData' /\ TrialIsQuiet'
    BY <2>1 DEF OtaData, TrialIsQuiet
  <2>4. RunsWell'
    BY <1>1, <2>1 DEF RunsWell, PlaceType, ImageType
  <2> QED
    BY <2>2, <2>3, <2>4
<1>3. CASE EndWrite
  <2>1. PICK w \in Writers :
          /\ writer[w] = "writing" /\ image' = [image EXCEPT ![Target] = "intact"]
          /\ writer' = [writer EXCEPT ![w] = "written"]
          /\ UNCHANGED <<state, selected, origin, writerElse>>
    BY <1>3 DEF EndWrite
  <2>2. TrialTyped'
    BY <1>1, <2>1 DEF ImageType, StateType, PlaceType, CheckType, WriterType
  <2>3. OtaData' /\ TrialIsQuiet'
    BY <2>1 DEF OtaData, TrialIsQuiet, WriterType
  <2>4. RunsWell'
    BY <1>1, <2>1 DEF RunsWell, PlaceType, ImageType
  <2> QED
    BY <2>2, <2>3, <2>4
<1>4. CASE WriteFails
  <2>1. PICK w \in Writers : writer' = [writer EXCEPT ![w] = "idle"] /\ UNCHANGED <<flash, origin, writerElse>>
    BY <1>4 DEF WriteFails
  <2>2. TrialTyped'
    BY <2>1 DEF ImageType, StateType, PlaceType, CheckType, WriterType
  <2>3. OtaData' /\ TrialIsQuiet' /\ RunsWell'
    BY <2>1 DEF OtaData, TrialIsQuiet, RunsWell, WriterType
  <2> QED
    BY <2>2, <2>3
<1>5. CASE Select
  <2>1. PICK w \in Writers :
          /\ writer[w] = "written" /\ selected' = Target /\ state' = [state EXCEPT ![Target] = "new"]
          /\ writer' = [writer EXCEPT ![w] = "selected"] /\ origin' = running
          /\ UNCHANGED <<image, writerElse>>
    BY <1>5 DEF Select
  <2>2. state[running] # "pending"
    BY <2>1 DEF TrialIsQuiet
  <2>3. TrialTyped'
    BY <1>1, <2>1 DEF ImageType, StateType, PlaceType, CheckType, WriterType
  <2>4. \A s \in Slots : state'[s] = IF s = Target THEN "new" ELSE state[s]
    BY <2>1 DEF StateType
  <2>5. state[running] # "new" /\ running \in Slots
    BY DEF OtaData, PlaceType
  <2>6. OtaData'
    BY <1>1, <2>1, <2>2, <2>4, <2>5 DEF OtaData
  <2>7. RunsWell'
    BY <1>1, <2>1, <2>2, <2>4, <2>5 DEF RunsWell
  <2>8. TrialIsQuiet'
    BY <1>1, <2>1, <2>2, <2>4, <2>5 DEF TrialIsQuiet
  <2> QED
    BY <2>3, <2>6, <2>7, <2>8
<1> QED
  BY <1>2, <1>3, <1>4, <1>5

LEMMA TrialInitInv == TrialInit => TrialInv
<1> SUFFICES ASSUME TrialInit  PROVE TrialInv
  OBVIOUS
<1> USE DEF TrialInit
<1>1. TrialTyped
  BY DEF TrialTyped, ImageType, StateType, PlaceType, CheckType, WriterType
<1>2. OtaData /\ RunsWell /\ TrialIsQuiet
  BY DEF OtaData, RunsWell, TrialIsQuiet
<1> QED
  BY <1>1, <1>2 DEF TrialInv
-----------------------------------------------------------------------------
(***************************************************************************)
(* The two components in the device: a step of it is a step of recovery.c  *)
(* or leaves recovery.c alone, and it keeps the slots in order.            *)
(***************************************************************************)
LEMMA GuardOfNext == [Next]_vars => [GuardNext]_guardVars
<1> SUFFICES ASSUME [Next]_vars  PROVE GuardNext \/ UNCHANGED guardVars
  OBVIOUS
<1>1. CASE Guard
  BY <1>1 DEF Guard, GuardNext
<1>2. CASE Maintain
  BY <1>2 DEF Maintain
<1>3. CASE Write
  BY <1>3 DEF Write
<1>4. CASE UnorderedReset
  BY <1>4 DEF UnorderedReset, Restart, GuardNext
<1>5. CASE RestartIntoImage
  BY <1>5 DEF RestartIntoImage, Restart, GuardNext
<1>6. CASE RollBackAndReboot
  BY <1>6 DEF RollBackAndReboot, GuardNext
<1>7. CASE UNCHANGED vars
  BY <1>7 DEF vars
<1> QED
  BY <1>1, <1>2, <1>3, <1>4, <1>5, <1>6, <1>7 DEF Next

LEMMA TrialOfNext == TrialInv /\ [Next]_vars => TrialInv'
<1> SUFFICES ASSUME TrialInv, [Next]_vars  PROVE TrialInv'
  OBVIOUS
<1>1. CASE UNCHANGED trialVars
  BY <1>1 DEF trialVars, flash, checkup, TrialInv, TrialTyped, ImageType, StateType, PlaceType, CheckType, WriterType,
              OtaData, RunsWell, TrialIsQuiet
<1>2. CASE Guard
  BY <1>1, <1>2 DEF Guard
<1>3. CASE Maintain
  BY <1>3, MaintenanceInv DEF Maintain
<1>4. CASE Write
  BY <1>4, WriterInv DEF Write
<1>5. CASE UnorderedReset
  <2>1. Reboot
    BY <1>5 DEF UnorderedReset, Restart
  <2> QED
    BY <2>1, RebootCases, BootInv
<1>6. CASE RestartIntoImage
  <2>1. Reboot
    BY <1>6 DEF RestartIntoImage, Restart
  <2> QED
    BY <2>1, RebootCases, BootInv
<1>7. CASE RollBackAndReboot
  <2>1. RollBack
    BY <1>7 DEF RollBackAndReboot
  <2> QED
    BY <2>1, RollBackEndsTrial, BootInv
<1>8. CASE UNCHANGED vars
  BY <1>1, <1>8 DEF vars
<1> QED
  BY <1>2, <1>3, <1>4, <1>5, <1>6, <1>7, <1>8 DEF Next

(***************************************************************************)
(* What the device's own variables hold.                                   *)
(***************************************************************************)
Bounds == resets \in 0..MaxResets /\ installs \in 0..MaxInstalls

History == before \in 0..(MaxCrashes + 1) /\ rolledBack \in BOOLEAN

DeviceInv == GuardInv /\ TrialInv /\ Bounds /\ History /\ CrashesOfTrial

LEMMA BoundsKept == Bounds /\ [Next]_vars => Bounds'
<1> SUFFICES ASSUME Bounds, [Next]_vars  PROVE Bounds'
  OBVIOUS
<1> USE DeviceAssumption DEF Bounds
<1>1. CASE Guard  BY <1>1 DEF Guard
<1>2. CASE Maintain  BY <1>2 DEF Maintain
<1>3. CASE Write  BY <1>3 DEF Write
<1>4. CASE UnorderedReset  BY <1>4 DEF UnorderedReset, Restart
<1>5. CASE RestartIntoImage  BY <1>5 DEF RestartIntoImage, Restart
<1>6. CASE RollBackAndReboot  BY <1>6 DEF RollBackAndReboot
<1>7. CASE UNCHANGED vars  BY <1>7 DEF vars
<1> QED  BY <1>1, <1>2, <1>3, <1>4, <1>5, <1>6, <1>7 DEF Next

LEMMA CrashesAreCounts ==
  ASSUME GuardInv
  PROVE  crashes \in Nat /\ crashes <= MaxCrashes /\ MaxCrashes \in Nat
BY Constants DEF GuardInv, Typed, StoreType

(***************************************************************************)
(* A reset remembers the crashes that came before a trial begins.          *)
(***************************************************************************)
LEMMA HistoryKept == GuardInv /\ History /\ [Next]_vars => History'
<1> SUFFICES ASSUME GuardInv, History, [Next]_vars  PROVE History'
  OBVIOUS
<1> USE DEF History
<1>1. CASE Guard  BY <1>1 DEF Guard
<1>2. CASE Maintain  BY <1>2 DEF Maintain
<1>3. CASE Write  BY <1>3 DEF Write
<1>4. ASSUME NEW kind, Restart(kind)  PROVE History'
  BY <1>4, CrashesAreCounts DEF Restart
<1>5. CASE UnorderedReset  BY <1>4, <1>5 DEF UnorderedReset
<1>6. CASE RestartIntoImage  BY <1>4, <1>6 DEF RestartIntoImage
<1>7. CASE RollBackAndReboot  BY <1>7 DEF RollBackAndReboot
<1>8. CASE UNCHANGED vars  BY <1>8 DEF vars
<1> QED  BY <1>1, <1>2, <1>3, <1>5, <1>6, <1>7, <1>8 DEF Next

-----------------------------------------------------------------------------
(***************************************************************************)
(* A step of recovery.c counts the crash that is not counted yet, or lets  *)
(* the counter fall.                                                       *)
(***************************************************************************)
LEMMA CountsOnce ==
  ASSUME GuardInv, GuardStep
  PROVE  \/ Uncounted /\ crashes' <= crashes + 1 /\ ~Uncounted'
         \/ crashes' <= crashes /\ (Uncounted' => Uncounted)
<1> USE CrashesAreCounts DEF Uncounted, nvs, ram, history, panelElse
<1>1. CASE RecoveryInit  BY <1>1 DEF RecoveryInit
<1>2. CASE MarkServicesReady  BY <1>2 DEF MarkServicesReady
<1>3. CASE Healthy  BY <1>3 DEF Healthy
<1>4. CASE HealthShown  BY <1>4 DEF HealthShown
<1>5. CASE \E what \in {"force", "normal", "clear"} : Ask(what)  BY <1>5 DEF Ask
<1>6. CASE StoreForced  BY <1>6 DEF StoreForced
<1>7. CASE ShowForced  BY <1>7 DEF ShowForced
<1>8. CASE StoreCleared  BY <1>8 DEF StoreCleared
<1>9. CASE ShowCleared  BY <1>9 DEF ShowCleared
<1>10. CASE StoreFails  BY <1>10 DEF StoreFails
<1> QED
  BY <1>1, <1>2, <1>3, <1>4, <1>5, <1>6, <1>7, <1>8, <1>9, <1>10 DEF GuardStep

(***************************************************************************)
(* No step but a reset puts the selected image on trial.                   *)
(***************************************************************************)
LEMMA NoTrialBegins ==
  ASSUME TrialInv, TrialStep
  PROVE  state'[selected'] = "pending" => state[selected] = "pending"
<1> USE DEF TrialInv, TrialTyped, PlaceType, StateType, maintenanceElse, writerElse, flash, checkup
<1>1. CASE MaintenanceInit \/ CoreServicesReady \/ HealthySeconds
  BY <1>1 DEF MaintenanceInit, CoreServicesReady, HealthySeconds
<1>2. CASE Confirm
  BY <1>2 DEF Confirm
<1>3. CASE BeginWrite \/ EndWrite \/ WriteFails
  BY <1>3 DEF BeginWrite, EndWrite, WriteFails
<1>4. CASE Select
  <2>1. Target \in Slots
    BY TwoSlots DEF Target
  <2> QED
    BY <1>4, <2>1 DEF Select
<1> QED
  BY <1>1, <1>2, <1>3, <1>4 DEF TrialStep

LEMMA CrashesAfterRestart ==
  ASSUME DeviceInv, NEW kind, Restart(kind)
  PROVE  CrashesOfTrial'
<1> USE DEF DeviceInv
<1>1. Reset(kind) /\ Reboot /\ rolledBack' = (state[selected] = "pending")
      /\ before' = IF state[selected] # "new" THEN before ELSE IF kind = "crash" THEN crashes + 1 ELSE crashes
  BY DEF Restart
<1>2. crashes' = crashes /\ (Uncounted' => kind = "crash") /\ crashes \in Nat /\ before \in Nat
  BY <1>1, CrashesAreCounts DEF Reset, Uncounted, nvs, History
<1>3. selected \in Slots /\ Other(selected) \in Slots /\ Other(selected) # selected
  BY TwoSlots DEF TrialInv, TrialTyped, PlaceType
<1>4. CASE EndsTrial
  <2>1. state'[selected'] # "pending"
    BY <1>3, <1>4 DEF EndsTrial
  <2>2. before' = before /\ crashes <= before
    BY <1>1, <1>4 DEF EndsTrial, CrashesOfTrial
  <2> QED
    BY <1>2, <2>1, <2>2 DEF CrashesOfTrial
<1>5. CASE BeginsTrial
  <2>1. ~rolledBack' /\ before' = IF kind = "crash" THEN crashes + 1 ELSE crashes
    BY <1>1, <1>5 DEF BeginsTrial
  <2> QED
    BY <1>2, <2>1 DEF CrashesOfTrial
<1>6. CASE BootsAgain
  <2>1. state'[selected'] # "pending" /\ ~rolledBack'
    BY <1>1, <1>3, <1>6 DEF BootsAgain
  <2> QED
    BY <2>1 DEF CrashesOfTrial
<1> QED
  BY <1>1, <1>4, <1>5, <1>6, RebootCases

LEMMA CrashesKept == DeviceInv /\ [Next]_vars => CrashesOfTrial'
<1> SUFFICES ASSUME DeviceInv, [Next]_vars  PROVE CrashesOfTrial'
  OBVIOUS
<1> USE DEF DeviceInv
<1>1. crashes \in Nat /\ before \in Nat
  BY CrashesAreCounts DEF History
<1>2. CASE Guard
  <2>1. UNCHANGED <<state, selected, before, rolledBack>>
    BY <1>2 DEF Guard, trialVars, flash
  <2>2. crashes' \in Nat
    BY GuardOfNext, GuardStepInv DEF GuardInv, Typed, StoreType
  <2>3. \/ Uncounted /\ crashes' <= crashes + 1 /\ ~Uncounted'
        \/ crashes' <= crashes /\ (Uncounted' => Uncounted)
    BY <1>2, CountsOnce DEF Guard
  <2> QED
    BY <1>1, <2>1, <2>2, <2>3 DEF CrashesOfTrial
<1>3. CASE Maintain \/ Write
  <2>1. UNCHANGED <<crashes, up, reason, before, rolledBack>>
    BY <1>3 DEF Maintain, Write, guardVars, nvs, ram
  <2>2. TrialStep
    BY <1>3 DEF Maintain, Write, TrialStep
  <2>3. state'[selected'] = "pending" => state[selected] = "pending"
    BY <2>2, NoTrialBegins
  <2> QED
    BY <2>1, <2>3 DEF CrashesOfTrial, Uncounted
<1>4. CASE UnorderedReset
  BY <1>4, CrashesAfterRestart DEF UnorderedReset
<1>5. CASE RestartIntoImage
  BY <1>5, CrashesAfterRestart DEF RestartIntoImage
<1>6. CASE RollBackAndReboot
  <2>1. EndsTrial /\ before' = before
    BY <1>6, RollBackEndsTrial DEF RollBackAndReboot
  <2>2. crashes' = crashes /\ ~Uncounted'
    BY <1>6 DEF RollBackAndReboot, Reset, Uncounted, nvs
  <2>3. selected \in Slots /\ Other(selected) \in Slots /\ Other(selected) # selected
    BY TwoSlots DEF TrialInv, TrialTyped, PlaceType
  <2>4. state'[selected'] # "pending" /\ crashes <= before
    BY <2>1, <2>3 DEF EndsTrial, CrashesOfTrial
  <2> QED
    BY <1>1, <2>1, <2>2, <2>4 DEF CrashesOfTrial
<1>7. CASE UNCHANGED vars
  BY <1>7 DEF vars, guardVars, trialVars, flash, nvs, ram, CrashesOfTrial, Uncounted
<1> QED
  BY <1>2, <1>3, <1>4, <1>5, <1>6, <1>7 DEF Next

-----------------------------------------------------------------------------
LEMMA DeviceInitInv == Init => DeviceInv
<1> SUFFICES ASSUME Init  PROVE DeviceInv
  OBVIOUS
<1>1. GuardInv /\ TrialInv
  BY GuardInitInv, TrialInitInv DEF Init
<1>2. Bounds /\ History
  <2>1. 0 \in 0..MaxResets /\ 0 \in 0..MaxInstalls /\ 0 \in 0..(MaxCrashes + 1)
    BY Constants, DeviceAssumption
  <2>2. resets = 0 /\ installs = 0 /\ before = 0 /\ rolledBack = FALSE
    BY DEF Init
  <2> QED
    BY <2>1, <2>2 DEF Bounds, History
<1>3. CrashesOfTrial
  <2>1. state[selected] # "pending"
    BY DEF Init, TrialInit
  <2> QED
    BY <2>1 DEF Init, CrashesOfTrial
<1> QED
  BY <1>1, <1>2, <1>3 DEF DeviceInv

LEMMA AlwaysDeviceInv == Spec => []DeviceInv
<1>1. DeviceInv /\ [Next]_vars => DeviceInv'
  BY GuardOfNext, GuardStepInv, TrialOfNext, BoundsKept, HistoryKept, CrashesKept DEF DeviceInv
<1> QED
  BY DeviceInitInv, <1>1, PTL DEF Spec

(***************************************************************************)
(* Every variable of the device keeps its type through any resets.         *)
(***************************************************************************)
THEOREM TypeCorrect == Spec => []TypeOK
<1>1. DeviceInv => TypeOK
  BY TypedIsType DEF DeviceInv, GuardInv, TrialInv, TrialTyped, ImageType, StateType, PlaceType, CheckType, WriterType,
                     TrialTypeOK, Bounds, History, TypeOK
<1> QED
  BY AlwaysDeviceInv, <1>1, PTL

(***************************************************************************)
(* The device with its updates implements the crash counter by itself: the *)
(* restarts of updates and trials are resets as any others.                *)
(***************************************************************************)
THEOREM GuardImplemented == Spec => GuardSpec
<1>1. Init => GuardInit
  BY DEF Init
<1> QED
  BY <1>1, GuardOfNext, PTL DEF Spec, GuardSpec

(***************************************************************************)
(* So safe mode is not missed in the device,                               *)
(***************************************************************************)
THEOREM DeviceSafeWhenDue == Spec => []SafeWhenDue
BY GuardImplemented, SafeModeWhenDue, PTL

(***************************************************************************)
(* and does not begin without cause.                                       *)
(***************************************************************************)
THEOREM DeviceSafeOnlyWhenDue == Spec => SafeOnlyWhenDue
BY GuardImplemented, SafeModeOnlyWhenDue, PTL

(***************************************************************************)
(* Whatever two writers, resets and rollbacks do, the running image is     *)
(* whole, and on trial also the one it replaced (ota.c, github_ota.c,      *)
(* maintenance.c).                                                         *)
(***************************************************************************)
THEOREM DeviceBootable == Spec => []AlwaysBootable
<1>1. DeviceInv => AlwaysBootable
  BY DEF DeviceInv, TrialInv, RunsWell, AlwaysBootable, FallbackIntact
<1> QED
  BY AlwaysDeviceInv, <1>1, PTL

(***************************************************************************)
(* As long as an image is on trial the one it replaced is intact.          *)
(***************************************************************************)
THEOREM ReplacedImageIntact == Spec => []FallbackIntact
<1>1. DeviceInv => FallbackIntact
  BY DEF DeviceInv, TrialInv, RunsWell, FallbackIntact
<1> QED
  BY AlwaysDeviceInv, <1>1, PTL

(***************************************************************************)
(* An image that failed its trial does not come back.                      *)
(***************************************************************************)
THEOREM FailedImageStaysOut == Spec => AbortedStaysOut
<1>1. DeviceInv' => [running' # running => state'[running'] # "aborted"]_trialVars
  BY DEF DeviceInv, TrialInv, RunsWell
<1> QED
  BY AlwaysDeviceInv, <1>1, PTL DEF AbortedStaysOut

(***************************************************************************)
(* A trial costs one crash: the counter of recovery.c and the otadata of   *)
(* the bootloader together.                                                *)
(***************************************************************************)
THEOREM TrialIsCheap == Spec => []TrialCostsOneCrash
<1>1. DeviceInv => TrialCostsOneCrash
  BY DEF DeviceInv, TrialInv, TrialTyped, PlaceType, OtaData, CrashesOfTrial, TrialCostsOneCrash
<1> QED
  BY AlwaysDeviceInv, <1>1, PTL
=============================================================================
