----------------------------- MODULE AudioOutput -----------------------------
(***************************************************************************)
(* The playback task that writes what AirPlay sends to I2S, and how it is  *)
(* started and stopped by tasks that know nothing of each other            *)
(* (audio_output.c).  They share its handle and the flag it watches,       *)
(* without a lock, and a step is one access to either.  Nothing tells a    *)
(* caller that the task was not created, ran out of memory, or is still    *)
(* there after the 2 s that a stop waits for it.                           *)
(***************************************************************************)
EXTENDS Naturals

CONSTANTS
  Callers,       \* tasks that call audio_output_start and audio_output_stop
  LeavesLate,    \* may the 2 s run out on a playback task that is to leave?
  MemoryShort    \* may a task, or memory, be refused?

ASSUME OutputAssumption == LeavesLate \in BOOLEAN /\ MemoryShort \in BOOLEAN

VARIABLES
  handle,    \* playback_task_handle # NULL
  running,   \* playback_running
  looping,   \* how many playback tasks are in their loop
  ending,    \* how many have left it, or never had the memory, and are about to clear the handle
  call,      \* where each caller is within audio_output_start or audio_output_stop
  amiss      \* history: what has gone wrong since a playback task was last started as it should

outputVars == <<handle, running, looping, ending, call, amiss>>

Calls == {"none", "stopping", "telling", "waiting", "starting", "raising", "creating"}

(***************************************************************************)
(* "uncreated": a start failed.  "expired": a stop returned before the     *)
(* task had left.  "crossed": a start and another call met between the     *)
(* test of the handle and the creation, so that a task was created beside  *)
(* another, or one that was to leave at once.                              *)
(***************************************************************************)
Mishaps == {"uncreated", "expired", "crossed"}

OutputTypeOK ==
  /\ handle \in BOOLEAN /\ running \in BOOLEAN
  /\ looping \in Nat /\ ending \in Nat
  /\ call \in [Callers -> Calls]
  /\ amiss \subseteq Mishaps

OutputInit ==                   \* audio_output_start has been called once, and nothing else
  /\ handle = TRUE /\ running = TRUE /\ looping = 1 /\ ending = 0
  /\ call = [c \in Callers |-> "none"] /\ amiss = {}

Sounding == handle /\ running /\ looping = 1 /\ ending = 0
Alive == looping + ending
Returned(c) == call[c] = "none"

-----------------------------------------------------------------------------
(***************************************************************************)
(* playback_task.                                                          *)
(***************************************************************************)
LeaveLoop ==
  /\ looping > 0 /\ ~running
  /\ looping' = looping - 1 /\ ending' = ending + 1
  /\ UNCHANGED <<handle, running, call, amiss>>

ClearHandle ==                  \* whosever it is by now
  /\ ending > 0
  /\ ending' = ending - 1 /\ handle' = FALSE
  /\ UNCHANGED <<running, looping, call, amiss>>

PlaybackTask == LeaveLoop \/ ClearHandle

-----------------------------------------------------------------------------
(***************************************************************************)
(* audio_output_stop.                                                      *)
(***************************************************************************)
CallAt(c, from, to) == call[c] = from /\ call' = [call EXCEPT ![c] = to]
taskElse == <<looping, ending>>

CallStop(c) == CallAt(c, "none", "stopping") /\ UNCHANGED <<handle, running, taskElse, amiss>>

TestToStop(c) ==
  /\ CallAt(c, "stopping", IF handle THEN "telling" ELSE "none")
  /\ UNCHANGED <<handle, running, taskElse, amiss>>

TellToLeave(c) ==
  /\ CallAt(c, "telling", "waiting")
  /\ running' = FALSE
  /\ UNCHANGED <<handle, taskElse, amiss>>

SeeItGone(c) ==
  /\ ~handle
  /\ CallAt(c, "waiting", "none")
  /\ UNCHANGED <<handle, running, taskElse, amiss>>

GiveUpWaiting(c) ==             \* it has not left in time, or another has started it again
  /\ handle /\ (running \/ LeavesLate)
  /\ CallAt(c, "waiting", "none")
  /\ amiss' = IF running THEN amiss ELSE amiss \cup {"expired"}
  /\ UNCHANGED <<handle, running, taskElse>>

-----------------------------------------------------------------------------
(***************************************************************************)
(* audio_output_start.                                                     *)
(***************************************************************************)
CallStart(c) == CallAt(c, "none", "starting") /\ UNCHANGED <<handle, running, taskElse, amiss>>

TestToStart(c) ==               \* a task that is leaving is taken for one that runs
  /\ CallAt(c, "starting", IF handle THEN "none" ELSE "raising")
  /\ UNCHANGED <<handle, running, taskElse, amiss>>

RaiseRunning(c) ==
  /\ CallAt(c, "raising", "creating")
  /\ running' = TRUE
  /\ UNCHANGED <<handle, taskElse, amiss>>

Crossed == Alive > 0 \/ ~running

Create(c) ==
  /\ CallAt(c, "creating", "none")
  /\ handle' = TRUE /\ looping' = looping + 1
  /\ amiss' = IF Crossed THEN amiss \cup {"crossed"} ELSE {}
  /\ UNCHANGED <<running, ending>>

CreateInVain(c) ==              \* the task finds no memory for its buffers
  /\ MemoryShort
  /\ CallAt(c, "creating", "none")
  /\ handle' = TRUE /\ ending' = ending + 1
  /\ amiss' = amiss \cup {"uncreated"} \cup (IF Crossed THEN {"crossed"} ELSE {})
  /\ UNCHANGED <<running, looping>>

NotCreated(c) ==                \* and nobody looks
  /\ MemoryShort
  /\ CallAt(c, "creating", "none")
  /\ amiss' = amiss \cup {"uncreated"}
  /\ UNCHANGED <<handle, running, taskElse>>

OutputCall(c) ==
  \/ TestToStop(c) \/ TellToLeave(c) \/ SeeItGone(c) \/ GiveUpWaiting(c)
  \/ TestToStart(c) \/ RaiseRunning(c) \/ Create(c) \/ CreateInVain(c) \/ NotCreated(c)
=============================================================================
