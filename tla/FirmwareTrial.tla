--------------------------- MODULE FirmwareTrial ---------------------------
(***************************************************************************)
(* A new firmware image: written by an upload (ota.c) or a download        *)
(* (github_ota.c), booted once on trial by the bootloader, and confirmed   *)
(* or rolled back by maintenance_task (maintenance.c).                     *)
(*                                                                         *)
(* The bootloader and the esp_ota calls are external; they are modelled as *)
(* the code uses them: an image that is selected is booted as pending, one *)
(* still pending at the next boot is aborted, an image that is not intact  *)
(* is passed over, and nothing is written while the running image is       *)
(* pending.  Both writers write the one slot that does not run.            *)
(***************************************************************************)
EXTENDS Naturals

CONSTANTS
  Slots,    \* the two application partitions
  Writers   \* the upload handler and the install task

ASSUME TrialAssumption == \E s, t \in Slots : s # t /\ Slots = {s, t}

VARIABLES
  image,    \* what a slot holds: an image that is "intact", or "partial"
  state,    \* otadata: "valid", "new", "pending", "aborted"
  selected, \* the slot that otadata names
  running,  \* the slot that runs
  pending,  \* s_ota_pending
  ready,    \* s_services_ready
  seconds,  \* healthy_seconds against the two limits: "few", "30", "60"
  writer,   \* where each writer is: "idle", "writing", "spoilt", "written", "selected"
  origin    \* history: the slot that ran when the image on trial was selected

flash == <<image, state, selected>>
checkup == <<pending, ready, seconds>>
trialVars == <<flash, running, checkup, writer, origin>>

Other(s) == CHOOSE t \in Slots : t # s
Busy(w) == writer[w] \in {"writing", "spoilt"}

TrialTypeOK ==
  /\ image \in [Slots -> {"intact", "partial"}]
  /\ state \in [Slots -> {"valid", "new", "pending", "aborted"}]
  /\ selected \in Slots /\ running \in Slots /\ origin \in Slots
  /\ pending \in BOOLEAN /\ ready \in BOOLEAN /\ seconds \in {"few", "30", "60"}
  /\ writer \in [Writers -> {"idle", "writing", "spoilt", "written", "selected"}]

TrialInit ==                    \* the image of the factory, in one slot
  /\ selected \in Slots /\ running = selected /\ origin = selected
  /\ image = [s \in Slots |-> IF s = running THEN "intact" ELSE "partial"]
  /\ state = [s \in Slots |-> "valid"]
  /\ pending = FALSE /\ ready = FALSE /\ seconds = "few"
  /\ writer = [w \in Writers |-> "idle"]

-----------------------------------------------------------------------------
Choice ==                       \* the bootloader skips an image that failed its trial
  IF state[selected] \in {"pending", "aborted"} THEN Other(selected) ELSE selected

Reboot ==
  LET s == Choice
      marked == [t \in Slots |-> IF t = selected /\ state[t] = "pending" THEN "aborted"
                                 ELSE IF t = s /\ state[t] = "new" THEN "pending" ELSE state[t]]
  IN /\ selected' = s /\ state' = marked
     /\ running' = IF image[s] = "intact" THEN s ELSE Other(s)
     /\ pending' = FALSE /\ ready' = FALSE /\ seconds' = "few"
     /\ writer' = [w \in Writers |-> "idle"]
     /\ UNCHANGED <<image, origin>>

-----------------------------------------------------------------------------
(***************************************************************************)
(* maintenance.c                                                           *)
(***************************************************************************)
maintenanceElse == <<image, selected, running, writer, origin>>

MaintenanceInit ==
  /\ ~pending /\ state[running] = "pending"
  /\ pending' = TRUE
  /\ UNCHANGED <<state, ready, seconds, maintenanceElse>>

CoreServicesReady ==            \* the web server runs
  /\ ~ready /\ ready' = TRUE
  /\ UNCHANGED <<state, pending, seconds, maintenanceElse>>

HealthySeconds ==
  /\ pending
  /\ \/ seconds = "few" /\ seconds' = "30"
     \/ seconds = "30" /\ ~ready /\ seconds' = "60"
  /\ UNCHANGED <<state, pending, ready, maintenanceElse>>

NeverConfirmed ==               \* mutant: the image is confirmed in RAM only
  /\ pending /\ ready /\ seconds # "few"
  /\ pending' = FALSE
  /\ UNCHANGED <<state, ready, seconds, maintenanceElse>>

Confirm ==                      \* refused, nothing changes, and a second later it is tried again
  /\ pending /\ ready /\ seconds # "few"
  /\ pending' = FALSE /\ state' = [state EXCEPT ![running] = "valid"]
  /\ UNCHANGED <<ready, seconds, maintenanceElse>>

RollBackDue == pending /\ ~ready /\ seconds = "60"

RollBack ==                     \* esp_ota_mark_app_invalid_rollback_and_reboot
  /\ RollBackDue
  /\ state' = [state EXCEPT ![running] = "aborted"] /\ selected' = Other(running)
  /\ running' = Other(running)
  /\ pending' = FALSE /\ ready' = FALSE /\ seconds' = "few"
  /\ writer' = [w \in Writers |-> "idle"]
  /\ UNCHANGED <<image, origin>>

-----------------------------------------------------------------------------
(***************************************************************************)
(* The writers: nothing keeps one from beginning while the other is at it. *)
(***************************************************************************)
writerElse == <<running, checkup>>
Target == Other(running)

WriteOverSelf ==                \* mutant: the next partition is that of the selected image
  \E w \in Writers :
    /\ ~Busy(w) /\ state[running] # "pending"
    /\ image' = [image EXCEPT ![Other(selected)] = "partial"]
    /\ writer' = [writer EXCEPT ![w] = "writing"]
    /\ UNCHANGED <<state, selected, origin, writerElse>>

WriteInTrial ==                 \* mutant: an update may begin before the running image is confirmed
  \E w \in Writers :
    /\ ~Busy(w)
    /\ image' = [image EXCEPT ![Target] = "partial"]
    /\ writer' = [writer EXCEPT ![w] = "writing"]
    /\ UNCHANGED <<state, selected, origin, writerElse>>

BeginWrite ==                   \* esp_ota_begin erases what the slot held
  \E w \in Writers :
    /\ writer[w] = "idle" /\ state[running] # "pending"
    /\ image' = [image EXCEPT ![Target] = "partial"]
    /\ writer' = [v \in Writers |-> IF v = w THEN (IF \E u \in Writers : Busy(u) THEN "spoilt" ELSE "writing")
                                    ELSE IF Busy(v) THEN "spoilt" ELSE writer[v]]
    /\ UNCHANGED <<state, selected, origin, writerElse>>

EndWrite ==                     \* the digest is right unless the other has written in between
  \E w \in Writers :
    /\ writer[w] = "writing"
    /\ image' = [image EXCEPT ![Target] = "intact"]
    /\ writer' = [writer EXCEPT ![w] = "written"]
    /\ UNCHANGED <<state, selected, origin, writerElse>>

WriteFails ==                   \* the image is corrupt, of another product, or the connection broke
  \E w \in Writers :
    /\ Busy(w) \/ writer[w] = "written"
    /\ writer' = [writer EXCEPT ![w] = "idle"]
    /\ UNCHANGED <<flash, origin, writerElse>>

Select ==                       \* esp_ota_set_boot_partition verifies the image again
  \E w \in Writers :
    /\ writer[w] = "written" /\ image[Target] = "intact"
    /\ selected' = Target /\ state' = [state EXCEPT ![Target] = "new"]
    /\ writer' = [writer EXCEPT ![w] = "selected"] /\ origin' = running
    /\ UNCHANGED <<image, writerElse>>

Installed == \E w \in Writers : writer[w] = "selected"

TrialStep ==
  \/ MaintenanceInit \/ CoreServicesReady \/ HealthySeconds \/ Confirm
  \/ BeginWrite \/ EndWrite \/ WriteFails \/ Select

-----------------------------------------------------------------------------
FallbackIntact == state[running] = "pending" => image[origin] = "intact" /\ origin # running

(***************************************************************************)
(* Whatever is written, selected, erased again by the other writer,        *)
(* interrupted or rolled back, the device runs an image that is whole, and *)
(* as long as an image is on trial, the one it replaces is still there,    *)
(* untouched, to be restored (README.md:343-345).                          *)
(***************************************************************************)
AlwaysBootable == image[running] = "intact" /\ FallbackIntact

(***************************************************************************)
(* An image that failed its trial does not run again unless it is written  *)
(* anew.                                                                   *)
(***************************************************************************)
AbortedStaysOut == [][running' # running => state'[running'] # "aborted"]_trialVars

(***************************************************************************)
(* A trial ends: the image is confirmed, or another one runs.              *)
(***************************************************************************)
TrialIsResolved == state[running] = "pending" ~> state[running] # "pending"
=============================================================================
