------------------------------ MODULE PtpClock ------------------------------
(***************************************************************************)
(* The PTP clock (ptp_clock.c): the task that pairs SYNC and FOLLOW_UP and *)
(* filters the offset to the master, and the calls by which the RTSP tasks *)
(* name the master, clear the filter, stop the task and start it again.    *)
(*                                                                         *)
(* There is no lock: each group of stores of a call is a step, and falls   *)
(* anywhere into the handling of a message.  An offset is the clock and    *)
(* the time base it was measured against: two of the same lie within the   *)
(* outlier threshold, others do not.  ptp_clock_notify_resume is left out: *)
(* its only call (audio_receiver.c:265) is never reached.                  *)
(***************************************************************************)
EXTENDS Naturals

CONSTANTS
  Clocks,     \* the PTP masters in the network
  Sender,     \* that of the sender
  NoClock,    \* expected_clock_id = 0
  MinSamples, \* MIN_SAMPLES_FOR_LOCK
  MaxSteps    \* bound on how often the sender's changes its time base

ASSUME ClockAssumption ==
  /\ Sender \in Clocks /\ NoClock \notin Clocks
  /\ MinSamples \in Nat \ {0} /\ MaxSteps \in Nat

VARIABLES
  running,    \* ptp.running, and the sockets are open
  task,       \* where ptp_task is; "none" when task_handle is NULL
  message,    \* the message being handled, none when it waits
  sample,     \* new_offset_ns
  expected,   \* expected_clock_id
  locked,
  candidate,  \* lock_candidate_start_ms: "none", "recent", or "long" over LOCK_STABLE_TIME_MS ago
  sync,       \* last_sync_ms: "none", "recent", or "old" when over LOCK_TIMEOUT_MS ago
  offset,     \* filtered_offset_ns and previous_offset
  samples,    \* sample_count, up to the minimum
  first,      \* previous_offset_time_ms = 0
  pair,       \* awaiting_followup and, while it is set, last_sync_seq and of whom last_sync_local_ns is
  call,       \* where the RTSP task is in a call
  base,       \* the time base of the sender's clock
  torn,       \* history: the last reset of the filter met the task at work
  stepped     \* history: the sender's clock was measured since, and has changed its time base

lockVars == <<locked, candidate>>
filterVars == <<offset, samples, first>>
taskVars == <<task, message, sample>>
vars == <<running, taskVars, expected, lockVars, sync, filterVars, pair, call, base, torn, stepped>>

Seqs == {0, 1}
Kinds == {"sync", "one_step", "follow_up"}
Offsets == (Clocks \X (0..MaxSteps)) \cup {<<NoClock, 0>>, <<NoClock, 1>>}
Zero == <<NoClock, 0>>
Mixed == <<NoClock, 1>>         \* a difference of times that have nothing to do with each other
Now(c) == <<c, IF c = Sender THEN base ELSE 0>>
NoMessage == [kind |-> "sync", from |-> NoClock, seq |-> 0]
NoPair == [seq |-> 0, awaiting |-> FALSE, of |-> Zero]

AtWork == task \notin {"none", "waiting"}

TypeOK ==
  /\ running \in BOOLEAN
  /\ task \in {"none", "waiting", "accepted", "judging", "storing", "smoothing", "locking"}
  /\ running <=> task # "none" /\ call # "joining"
  /\ message \in [kind : Kinds, from : Clocks \cup {NoClock}, seq : Seqs]
  /\ sample \in Offsets /\ offset \in Offsets
  /\ expected \in Clocks \cup {NoClock}
  /\ locked \in BOOLEAN /\ candidate \in {"none", "recent", "long"} /\ sync \in {"none", "recent", "old"}
  /\ samples \in 0..MinSamples /\ first \in BOOLEAN
  /\ pair \in [seq : Seqs, awaiting : BOOLEAN, of : Offsets]
  /\ call \in {"none", "joining", "named", "unlocked", "clearing", "cleared"}
  /\ base \in 0..MaxSteps
  /\ torn \in BOOLEAN /\ stepped \in BOOLEAN

Forgotten ==                    \* memset
  /\ expected' = NoClock /\ locked' = FALSE /\ candidate' = "none" /\ sync' = "none"
  /\ offset' = Zero /\ samples' = 0 /\ first' = TRUE /\ pair' = NoPair

Init ==
  /\ running = FALSE /\ task = "none" /\ message = NoMessage /\ sample = Zero
  /\ expected = NoClock /\ locked = FALSE /\ candidate = "none" /\ sync = "none"
  /\ offset = Zero /\ samples = 0 /\ first = TRUE /\ pair = NoPair
  /\ call = "none" /\ base = 0 /\ torn = FALSE /\ stepped = FALSE

-----------------------------------------------------------------------------
(***************************************************************************)
(* ptp_task                                                                *)
(***************************************************************************)
At(from, to) == task = from /\ task' = to
callerElse == <<running, expected, call, base, torn, stepped>>

Receive(c, kind, seq) ==        \* process_ptp_message; a message of another clock is dropped
  /\ running
  /\ expected \in {NoClock, c}
  /\ At("waiting", "accepted") /\ message' = [kind |-> kind, from |-> c, seq |-> seq]
  /\ UNCHANGED <<sample, lockVars, sync, filterVars, pair, callerElse>>

MessageDone == message' = NoMessage /\ sample' = Zero

Heard == pair' = [seq |-> message.seq, awaiting |-> TRUE, of |-> Now(message.from)]

HandleSync ==
  /\ message.kind = "sync"
  /\ At("accepted", "waiting")
  /\ Heard /\ MessageDone
  /\ UNCHANGED <<lockVars, sync, filterVars, callerElse>>

HandleOneStep ==                \* the SYNC has the time in it
  /\ message.kind = "one_step"
  /\ At("accepted", "judging")
  /\ Heard /\ sample' = Now(message.from)
  /\ UNCHANGED <<message, lockVars, sync, filterVars, callerElse>>

Belongs == pair.awaiting /\ message.seq = pair.seq

HandleFollowUp ==
  /\ message.kind = "follow_up" /\ Belongs
  /\ At("accepted", "judging")
  /\ pair' = NoPair
  /\ sample' = IF pair.of[1] = message.from THEN pair.of ELSE Mixed
  /\ UNCHANGED <<message, lockVars, sync, filterVars, callerElse>>

DropFollowUp ==
  /\ message.kind = "follow_up" /\ ~Belongs
  /\ At("accepted", "waiting") /\ MessageDone
  /\ UNCHANGED <<lockVars, sync, filterVars, pair, callerElse>>

SampleDone ==
  /\ MessageDone
  /\ pair' = IF message.kind = "one_step" THEN NoPair ELSE pair
Count == sync' = "recent" /\ samples' = IF samples < MinSamples THEN samples + 1 ELSE samples

RejectOutlier ==
  /\ At("judging", "waiting")
  /\ ~first /\ sample # offset
  /\ Count /\ SampleDone
  /\ UNCHANGED <<lockVars, offset, first, callerElse>>

AcceptSample ==
  /\ \/ first /\ At("judging", "storing")
     \/ ~first /\ sample = offset /\ At("judging", "smoothing")
  /\ Count
  /\ UNCHANGED <<message, sample, lockVars, offset, first, pair, callerElse>>

StoreOffset ==                  \* smoothed from an offset that was dropped just then, it may be anything
  /\ \/ (At("storing", "locking") \/ At("smoothing", "locking")) /\ offset' = sample
     \/ At("smoothing", "locking") /\ first /\ offset' = Mixed
  /\ first' = FALSE
  /\ UNCHANGED <<message, sample, lockVars, sync, samples, pair, callerElse>>

Unstable ==                     \* only after a tear: an accepted sample is near
  /\ samples = MinSamples /\ sample # offset
  /\ candidate' = "none" /\ locked' \in {locked, FALSE}

Stable ==
  /\ samples = MinSamples /\ sample = offset /\ ~locked
  /\ locked' = (candidate = "long")
  /\ candidate' = IF candidate = "none" THEN "recent" ELSE IF candidate = "long" THEN "none" ELSE candidate

Undecided ==
  /\ samples < MinSamples \/ (sample = offset /\ locked)
  /\ UNCHANGED lockVars

JudgeLock ==
  /\ At("locking", "waiting")
  /\ Stable \/ Unstable \/ Undecided
  /\ SampleDone
  /\ UNCHANGED <<sync, filterVars, callerElse>>

TaskEnds ==                     \* select has a limit of 1 s
  /\ ~running
  /\ At("waiting", "none")
  /\ UNCHANGED <<message, sample, lockVars, sync, filterVars, pair, callerElse>>

Handle == HandleSync \/ HandleOneStep \/ HandleFollowUp \/ DropFollowUp \/ RejectOutlier \/ AcceptSample \/ StoreOffset \/ JudgeLock

-----------------------------------------------------------------------------
(***************************************************************************)
(* The calls, by one RTSP task at a time.                                  *)
(***************************************************************************)
Call(from, to) == call = from /\ call' = to

InitClock ==
  /\ Call("none", "none") /\ ~running
  /\ Forgotten
  /\ \/ running' = TRUE /\ task' = "waiting"
     \/ UNCHANGED <<running, task>>      \* no socket, or no task
  /\ torn' = FALSE /\ stepped' = FALSE
  /\ UNCHANGED <<message, sample, base>>

StopClock ==
  /\ Call("none", "joining") /\ running
  /\ running' = FALSE
  /\ UNCHANGED <<taskVars, expected, lockVars, sync, filterVars, pair, base, torn, stepped>>

Joined ==
  /\ Call("joining", "none") /\ task = "none"
  /\ UNCHANGED <<running, taskVars, expected, lockVars, sync, filterVars, pair, base, torn, stepped>>

SetMaster(c) ==                 \* ptp_clock_set_master_clock_id
  /\ Call("none", "named") /\ c # expected
  /\ expected' = c /\ torn' = AtWork
  /\ UNCHANGED <<running, taskVars, lockVars, sync, filterVars, pair, base, stepped>>

LockKept ==                     \* mutant: naming another master keeps the lock
  /\ Call("named", "unlocked")
  /\ torn' = (torn \/ AtWork)
  /\ UNCHANGED <<running, taskVars, expected, lockVars, sync, filterVars, pair, base, stepped>>

DropLock ==
  /\ Call("named", "unlocked")
  /\ locked' = FALSE /\ candidate' = "none" /\ torn' = (torn \/ AtWork)
  /\ UNCHANGED <<running, taskVars, expected, sync, filterVars, pair, base, stepped>>

PairKept ==                     \* mutant: a SYNC of the former master waits for its FOLLOW_UP
  /\ Call("unlocked", "none")
  /\ offset' = Zero /\ samples' = 0 /\ first' = TRUE
  /\ torn' = (torn \/ AtWork) /\ stepped' = FALSE
  /\ UNCHANGED <<running, taskVars, expected, lockVars, sync, pair, base>>

DropFilter ==
  /\ Call("unlocked", "none")
  /\ offset' = Zero /\ samples' = 0 /\ first' = TRUE /\ pair' = NoPair
  /\ torn' = (torn \/ AtWork) /\ stepped' = FALSE
  /\ UNCHANGED <<running, taskVars, expected, lockVars, sync, base>>

ClearLock ==                    \* ptp_clock_clear
  /\ Call("none", "clearing")
  /\ locked' = FALSE /\ candidate' = "none" /\ sync' = "none" /\ torn' = AtWork
  /\ UNCHANGED <<running, taskVars, expected, filterVars, pair, base, stepped>>

ClearFilter ==
  /\ Call("clearing", "cleared")
  /\ offset' = Zero /\ samples' = 0 /\ first' = TRUE
  /\ torn' = (torn \/ AtWork) /\ stepped' = FALSE
  /\ UNCHANGED <<running, taskVars, expected, lockVars, sync, pair, base>>

ClearMaster ==
  /\ Call("cleared", "none")
  /\ pair' = NoPair /\ expected' = NoClock /\ torn' = (torn \/ AtWork)
  /\ UNCHANGED <<running, taskVars, lockVars, sync, filterVars, base, stepped>>

Return == Joined \/ DropLock \/ DropFilter \/ ClearFilter \/ ClearMaster

-----------------------------------------------------------------------------
timeElse == <<running, taskVars, expected, filterVars, pair, call, base, torn, stepped>>

CheckLock ==                    \* ptp_clock_is_locked, called for every frame
  /\ locked /\ sync = "old"
  /\ locked' = FALSE /\ candidate' = "none"
  /\ UNCHANGED <<sync, timeElse>>

InCall == call \notin {"none", "joining"}   \* a reset of the filter takes less than LOCK_STABLE_TIME_MS

StableTime ==
  /\ ~InCall /\ candidate = "recent" /\ candidate' = "long"
  /\ UNCHANGED <<locked, sync, timeElse>>

LongSilence ==
  /\ ~InCall /\ sync = "recent" /\ sync' = "old"
  /\ UNCHANGED <<lockVars, timeElse>>

ClockSteps ==
  /\ base < MaxSteps /\ base' = base + 1
  /\ stepped' = (stepped \/ Sender \in {offset[1], sample[1], pair.of[1]})
  /\ UNCHANGED <<running, taskVars, expected, lockVars, sync, filterVars, pair, call, torn>>

Next ==
  \/ \E c \in Clocks, kind \in Kinds, seq \in Seqs : Receive(c, kind, seq)
  \/ Handle \/ TaskEnds
  \/ InitClock \/ StopClock \/ ClearLock \/ Return
  \/ \E c \in Clocks : SetMaster(c)
  \/ CheckLock \/ StableTime \/ LongSilence \/ ClockSteps

(***************************************************************************)
(* The task and the calls go on and time passes.  The sender's clock sends: *)
(* now and then a SYNC gets through, and the FOLLOW_UP that belongs to it. *)
(***************************************************************************)
Matching == \E seq \in Seqs : pair.awaiting /\ pair.of[1] = Sender /\ pair.seq = seq /\ Receive(Sender, "follow_up", seq)

Fairness ==
  /\ WF_vars(Handle) /\ WF_vars(TaskEnds) /\ WF_vars(Return) /\ WF_vars(StableTime)
  /\ SF_vars(\E seq \in Seqs : Receive(Sender, "sync", seq)) /\ SF_vars(Matching)

Spec == Init /\ [][Next]_vars /\ Fairness

-----------------------------------------------------------------------------
(***************************************************************************)
(* audio_receiver.c:348-351: a lock is a lock on the master that the       *)
(* sender has named, never on another clock in the network and never on no *)
(* clock at all; unless the filter was reset in the middle of a message    *)
(* (there is no lock), and then only until the next reset.                 *)
(***************************************************************************)
LockIsOnMaster ==
  /\ TypeOK
  /\ locked /\ call = "none" /\ ~torn => offset # Zero /\ expected \in {NoClock, offset[1]}

(***************************************************************************)
(* Once the sender's clock is named for good, the clock locks on it,       *)
(* and again after each silence, whatever it was locked on before and      *)
(* whatever was under way; unless the naming was torn, or the master has   *)
(* changed its time base since: every sample is an outlier then, for ever. *)
(***************************************************************************)
LocksInTheEnd ==
  <>[](running /\ call = "none" /\ expected = Sender /\ ~torn /\ ~stepped) => []<>(locked /\ offset[1] = Sender)
=============================================================================
