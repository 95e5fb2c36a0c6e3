------------------------------- MODULE Device -------------------------------
(***************************************************************************)
(* The device through its resets: the crash counter of recovery.c and the  *)
(* trial of a new image share every reset.  A crash of the new image ends  *)
(* its trial and is counted; the restart that boots it, and the rollback   *)
(* that maintenance_task orders, are clean resets.                         *)
(***************************************************************************)
EXTENDS CrashGuard, FirmwareTrial

CONSTANTS
  MaxResets,  \* bound on resets that nobody ordered
  MaxInstalls \* bound on updates

ASSUME DeviceAssumption == MaxResets \in Nat /\ MaxInstalls \in Nat

VARIABLES
  resets, installs,
  before,     \* history: the crashes there were when the image on trial was first booted
  rolledBack  \* history: this boot follows the end of a trial that failed

vars == <<guardVars, trialVars, resets, installs, before, rolledBack>>

TypeOK ==
  /\ GuardTypeOK /\ TrialTypeOK
  /\ resets \in 0..MaxResets /\ installs \in 0..MaxInstalls /\ before \in 0..(MaxCrashes + 1)
  /\ rolledBack \in BOOLEAN

Init == GuardInit /\ TrialInit /\ resets = 0 /\ installs = 0 /\ before = 0 /\ rolledBack = FALSE

-----------------------------------------------------------------------------
Guard == GuardStep /\ UNCHANGED <<trialVars, resets, installs, before, rolledBack>>

Maintain ==                     \* app_main calls recovery_init first
  /\ up
  /\ MaintenanceInit \/ CoreServicesReady \/ HealthySeconds \/ Confirm
  /\ UNCHANGED <<guardVars, resets, installs, before, rolledBack>>

Write ==
  /\ up /\ ready                \* both are asked for through the web server
  /\ \/ BeginWrite /\ installs < MaxInstalls /\ installs' = installs + 1
     \/ (EndWrite \/ WriteFails \/ Select) /\ UNCHANGED installs
  /\ UNCHANGED <<guardVars, resets, before, rolledBack>>

Restart(kind) ==
  /\ Reset(kind) /\ Reboot
  /\ rolledBack' = (state[selected] = "pending")
  /\ before' = IF state[selected] # "new" THEN before ELSE IF kind = "crash" THEN crashes + 1 ELSE crashes
  /\ UNCHANGED installs

UnorderedReset ==               \* a panic, a watchdog, a power cut, a restart by the user
  /\ resets < MaxResets /\ resets' = resets + 1
  /\ \E kind \in {"clean", "crash"} : Restart(kind)

RestartIntoImage == Installed /\ Restart("clean") /\ UNCHANGED resets

RollBackAndReboot ==
  /\ RollBack /\ Reset("clean") /\ rolledBack' = TRUE
  /\ UNCHANGED <<resets, installs, before>>

Next == Guard \/ Maintain \/ Write \/ UnorderedReset \/ RestartIntoImage \/ RollBackAndReboot

(***************************************************************************)
(* recovery_init and maintenance_task go on and time passes.  Whether the  *)
(* core services ever start is left open.  The flash takes a confirmation  *)
(* in the end: esp_ota_mark_app_valid_cancel_rollback may refuse it        *)
(* (maintenance.c:50-52), but not at every attempt for ever.               *)
(***************************************************************************)
Fairness ==
  /\ WF_vars(RecoveryInit /\ Guard)
  /\ WF_vars(up /\ (MaintenanceInit \/ HealthySeconds \/ Confirm) /\ Maintain)
  /\ WF_vars(RestartIntoImage) /\ WF_vars(RollBackAndReboot)

Spec == Init /\ [][Next]_vars /\ Fairness

-----------------------------------------------------------------------------
(***************************************************************************)
(* A bad image costs one crash at most: the bootloader takes it away at    *)
(* the reset, so the counter never rises by more than one over a trial,    *)
(* and the image that is restored starts in safe mode only if it was one   *)
(* crash short of it before.                                               *)
(***************************************************************************)
TrialCostsOneCrash ==
  /\ state[running] = "pending" => crashes <= before
  /\ rolledBack => crashes <= before + 1
=============================================================================
