----------------------------- MODULE CrashGuard -----------------------------
(***************************************************************************)
(* The crash counter and safe mode (recovery.c).  The counter lives in     *)
(* NVS; a boot that follows a panic or a watchdog raises it, a minute in   *)
(* normal operation clears it, and at CrashLimit only the recovery panel   *)
(* is started.                                                             *)
(*                                                                         *)
(* A reset may come between any two steps, also before recovery_init; each *)
(* write to NVS is a step, the update of s_status another.  A boot whose   *)
(* recovery_init cannot write aborts: that is a crash before the step.     *)
(***************************************************************************)
EXTENDS Naturals

CONSTANTS
  CrashLimit, \* RECOVERY_CRASH_LIMIT
  MaxCrashes  \* UINT8_MAX

ASSUME GuardAssumption ==
  /\ CrashLimit \in Nat \ {0} /\ MaxCrashes \in Nat /\ CrashLimit <= MaxCrashes

VARIABLES
  crashes, forced, \* NVS: recovery/crashes and recovery/forced
  reason,          \* esp_reset_reason(): "crash" for a panic or a watchdog, else "clean"
  status,          \* s_status: forced, safe (safe_mode) and count (consecutive_crashes)
  up,              \* s_initialized
  health,          \* healthy_task: "none", "waiting", "stored", "ended"
  request,         \* the request to the recovery panel: "none" or the step it is at
  suspects,        \* history: crashes since the counter was last forgiven
  run              \* history: boots in a row that recovery_init saw end in a crash

nvs == <<crashes, forced>>
ram == <<status, up, health, request>>
history == <<suspects, run>>
guardVars == <<nvs, reason, ram, history>>

NoStatus == [forced |-> FALSE, safe |-> FALSE, count |-> 0]
Requests == {"none", "force", "forced", "normal", "unforced", "clear", "half_cleared", "cleared"}

GuardTypeOK ==
  /\ crashes \in 0..MaxCrashes /\ forced \in BOOLEAN
  /\ reason \in {"clean", "crash"}
  /\ status \in [forced : BOOLEAN, safe : BOOLEAN, count : 0..MaxCrashes]
  /\ up \in BOOLEAN /\ health \in {"none", "waiting", "stored", "ended"}
  /\ request \in Requests
  /\ suspects \in Nat /\ run \in Nat

GuardInit ==                    \* the first power-on
  /\ crashes = 0 /\ forced = FALSE /\ reason = "clean"
  /\ status = NoStatus /\ up = FALSE /\ health = "none" /\ request = "none"
  /\ suspects = 0 /\ run = 0

-----------------------------------------------------------------------------
Reset(kind) ==
  /\ reason' = kind
  /\ status' = NoStatus /\ up' = FALSE /\ health' = "none" /\ request' = "none"
  /\ suspects' = IF kind = "crash" THEN suspects + 1 ELSE suspects
  /\ UNCHANGED <<nvs, run>>

CleanCounts ==                  \* mutant: any reset while forced raises the counter
  /\ ~up /\ up' = TRUE
  /\ crashes' = IF (reason = "crash" \/ forced) /\ crashes < MaxCrashes THEN crashes + 1 ELSE 0
  /\ status' = [forced |-> forced, safe |-> forced \/ crashes' >= CrashLimit, count |-> crashes']
  /\ suspects' = IF reason = "clean" /\ ~forced THEN 0 ELSE suspects
  /\ run' = IF reason = "crash" THEN run + 1 ELSE 0
  /\ UNCHANGED <<forced, reason, health, request>>

LimitMissed ==                  \* mutant: one crash more than the limit
  /\ ~up /\ up' = TRUE
  /\ crashes' = IF reason = "crash" THEN (IF crashes < MaxCrashes THEN crashes + 1 ELSE crashes) ELSE 0
  /\ status' = [forced |-> forced, safe |-> forced \/ crashes' > CrashLimit, count |-> crashes']
  /\ suspects' = IF reason = "clean" /\ ~forced THEN 0 ELSE suspects
  /\ run' = IF reason = "crash" THEN run + 1 ELSE 0
  /\ UNCHANGED <<forced, reason, health, request>>

RecoveryInit ==
  /\ ~up /\ up' = TRUE
  /\ crashes' = IF reason = "crash" THEN (IF crashes < MaxCrashes THEN crashes + 1 ELSE crashes)
                ELSE IF forced THEN crashes ELSE 0
  /\ status' = [forced |-> forced, safe |-> forced \/ crashes' >= CrashLimit, count |-> crashes']
  /\ suspects' = IF reason = "clean" /\ ~forced THEN 0 ELSE suspects
  /\ run' = IF reason = "crash" THEN run + 1 ELSE 0
  /\ UNCHANGED <<forced, reason, health, request>>

MarkServicesReady ==
  /\ up /\ health = "none" /\ ~status.safe
  /\ health' = "waiting"
  /\ UNCHANGED <<nvs, reason, status, up, request, history>>

-----------------------------------------------------------------------------
Healthy ==                      \* a minute has passed
  /\ health = "waiting"
  /\ \/ ~status.safe /\ crashes' = 0 /\ health' = "stored" /\ suspects' = 0 /\ run' = 0
     \/ health' = "ended" /\ UNCHANGED <<crashes, suspects, run>>     \* safe mode, or NVS refuses
  /\ UNCHANGED <<forced, reason, status, up, request>>

HealthShown ==
  /\ health = "stored" /\ health' = "ended"
  /\ status' = [status EXCEPT !.count = 0]
  /\ UNCHANGED <<nvs, reason, up, request, history>>

-----------------------------------------------------------------------------
(***************************************************************************)
(* recovery_post, and recovery_clear as the factory reset calls it.        *)
(***************************************************************************)
panelElse == <<reason, up, health>>
RequestAt(from, to) == request = from /\ request' = to

Ask(what) ==
  /\ up /\ RequestAt("none", what)
  /\ UNCHANGED <<nvs, status, history, panelElse>>

StoreForced ==                  \* recovery_force_safe_mode
  /\ \/ RequestAt("force", "forced") /\ forced' = TRUE
     \/ RequestAt("normal", "unforced") /\ forced' = FALSE
  /\ UNCHANGED <<crashes, status, history, panelElse>>

ShowForced ==
  /\ \/ RequestAt("forced", "none") /\ status' = [status EXCEPT !.forced = TRUE, !.safe = TRUE]
     \/ /\ RequestAt("unforced", "none")
        /\ status' = [status EXCEPT !.forced = FALSE, !.safe = status.count >= CrashLimit]
  /\ UNCHANGED <<nvs, history, panelElse>>

StoreCleared ==                 \* recovery_clear
  /\ \/ RequestAt("clear", "half_cleared") /\ crashes' = 0 /\ suspects' = 0 /\ run' = 0 /\ UNCHANGED forced
     \/ RequestAt("half_cleared", "cleared") /\ forced' = FALSE /\ UNCHANGED <<crashes, suspects, run>>
  /\ UNCHANGED <<status, panelElse>>

ShowCleared ==
  /\ RequestAt("cleared", "none")
  /\ status' = NoStatus
  /\ UNCHANGED <<nvs, history, panelElse>>

StoreFails ==
  /\ request # "none" /\ RequestAt(request, "none")
  /\ request \in {"force", "normal", "clear", "half_cleared"}
  /\ UNCHANGED <<nvs, status, history, panelElse>>

-----------------------------------------------------------------------------
GuardStep ==
  \/ RecoveryInit \/ MarkServicesReady \/ Healthy \/ HealthShown
  \/ \E what \in {"force", "normal", "clear"} : Ask(what)
  \/ StoreForced \/ ShowForced \/ StoreCleared \/ ShowCleared \/ StoreFails

GuardNext == GuardStep \/ \E kind \in {"clean", "crash"} : Reset(kind)

GuardSpec == GuardInit /\ [][GuardNext]_guardVars

-----------------------------------------------------------------------------
(***************************************************************************)
(* Nobody is shut out without cause: safe mode begins because the user     *)
(* asked for it, or because as many crashes as the limit says came since   *)
(* the counter was last forgiven (CHANGELOG-V3.3.0.md:5), whatever was cut *)
(* off or refused on the way.                                              *)
(***************************************************************************)
SafeOnlyWhenDue ==
  [][~status.safe /\ status'.safe => forced' \/ suspects' >= CrashLimit]_guardVars

(***************************************************************************)
(* And with cause safe mode is not missed: after that many boots in a row  *)
(* ended in a crash, with no healthy minute and no clearing in between,    *)
(* the next one is safe.                                                   *)
(***************************************************************************)
SafeWhenDue == up /\ run >= CrashLimit => status.safe
=============================================================================
