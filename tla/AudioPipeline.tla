----------------------------- MODULE AudioPipeline -----------------------------
(***************************************************************************)
(* A buffered AirPlay 2 stream from the TCP socket to the I2S output: the  *)
(* receive task passes frames through the gates of a seek into the buffer  *)
(* (audio_stream.c, audio_stream_buffered.c), the playback task takes      *)
(* them, holds the early, drops the late and plays the rest                *)
(* (audio_timing.c), while the RTSP task sets anchors, pauses, and flushes *)
(* (audio_receiver.c), all without a lock but that of the buffer.          *)
(*                                                                         *)
(* A frame lasts one unit of RTP and of real time.  Times are relative to  *)
(* the last anchor: due says when its frame is, age how long ago it came.  *)
(* Stores with no call and no wait between them are one step, unless the   *)
(* order in which they are seen matters.  A read and the handling of a     *)
(* frame meet in the buffer alone, whose operations are atomic             *)
(* (AudioBuffer), and are not interleaved with each other, only with the   *)
(* RTSP task.  Requests are further apart than either takes.  The sender's *)
(* clock is known (PTP is locked).  The wrap of RTP stamps is the business *)
(* of AudioBuffer.  paused_rtp_valid is never set, because nothing calls   *)
(* audio_receiver_set_playing(false), and left out; so are the 256         *)
(* attempts of a read, which are more than the buffer is likely to need.   *)
(***************************************************************************)
EXTENDS Integers, Sequences, SequencesExt

CONSTANTS
  LastRtp,        (* bound: RTP stamps are 1 .. LastRtp                    *)
  MaxTrack,       (* bound: how often the sender may move to another place *)
  Leads,          (* bound: how far off the anchors are that are sent      *)
  InFlight,       (* bound: frames in the socket                           *)
  Room,           (* audio_buffer_is_nearly_full at this many frames       *)
  Target,         (* target_buffer_frames                                  *)
  Threshold,      (* TIMING_THRESHOLD_US                                   *)
  GateWindow,     (* 10 s                                                  *)
  SeekThreshold,  (* 5 s                                                   *)
  MaxEarly,       (* MAX_CONSECUTIVE_EARLY                                 *)
  MaxAge,         (* bound: time after an anchor that is told apart        *)
  MaxRequests,    (* bound: requests of the sender                         *)
  NONE

Rtps   == 1 .. LastRtp
Frames == [rtp : Rtps, track : 0 .. MaxTrack]

ASSUME PipelineAssumption ==
  /\ {LastRtp, MaxTrack, InFlight, Room, Target, Threshold, GateWindow, SeekThreshold,
      MaxEarly, MaxAge, MaxRequests} \subseteq Nat
  /\ Leads \subseteq Int /\ LastRtp >= 1
  /\ Target \in 1 .. Room
  /\ NONE \notin Frames /\ NONE \notin Int

VARIABLES
  (* the sender *)
  track, place, next,  (* what it plays, from where on, the next stamp     *)
  requests,         (* how many it has made                                *)
  wire,             (* frames in the TCP socket                            *)
  (* the gates: discard_before_rtp and discard_above_rtp, NONE when not    *)
  (* valid; arm_gate_on_next_anchor; discard_all_until_anchor              *)
  before, above, arm, discard_all,
  buf,              (* the frames of the buffer, in RTP order              *)
  (* audio_timing_t *)
  playing, playout_started, quick_start,
  anchor_valid, anchor_rtp, due, age,
  waited,           (* ready_time_us: "no", "waiting", "over" after 1 s    *)
  pending,          (* the frame held because it is early, or NONE         *)
  flush_until,      (* NONE unless deferred_flush_pending                  *)
  early,            (* consecutive_early_frames                            *)
  (* the tasks *)
  rx, rx_frame,     (* the receive task                                    *)
  rd, hand, from_pending,   (* the playback task                           *)
  rq,               (* the RTSP task: where it is, and its arguments       *)
  (* What the code does not know: the anchor of the last seek while no     *)
  (* frame has entered since, and which orders came within the read at     *)
  (* hand.                                                                 *)
  fresh, since

senderVars == <<track, place, next, requests, wire>>
gates      == <<before, above, arm, discard_all>>
anchor     == <<anchor_valid, anchor_rtp, due, age>>
started    == <<playout_started, quick_start, waited>>
timing     == <<playing, started, anchor, pending, flush_until, early>>
rxVars     == <<rx, rx_frame>>
rdVars     == <<rd, hand, from_pending>>
vars == <<senderVars, gates, buf, timing, rxVars, rdVars, rq, fresh, since>>

Asked(pc, r, l) == [pc |-> pc, rtp |-> r, lead |-> l, armed |-> FALSE]
Idle == Asked("idle", 0, 0)

Init ==
  /\ track = 0 /\ place = 1 /\ next = 1 /\ requests = 0 /\ wire = <<>>
  /\ before = NONE /\ above = NONE /\ arm = FALSE /\ discard_all = FALSE
  /\ buf = <<>> /\ playing = TRUE /\ playout_started = FALSE /\ quick_start = FALSE
  /\ anchor_valid = FALSE /\ anchor_rtp = 0 /\ due = 0 /\ age = 0
  /\ waited = "no" /\ pending = NONE /\ flush_until = NONE /\ early = 0
  /\ rx = "recv" /\ rx_frame = NONE /\ rd = "idle" /\ hand = NONE /\ from_pending = FALSE
  /\ rq = Idle /\ fresh = NONE /\ since = {}

Distance(a, b) == IF a < b THEN b - a ELSE a - b
-----------------------------------------------------------------------------
(* The sender and the receive task.                                        *)

Send ==
  /\ next \in Rtps /\ Len(wire) < InFlight
  /\ wire' = Append(wire, [rtp |-> next, track |-> track])
  /\ next' = next + 1
  /\ UNCHANGED <<track, place, requests, gates, buf, timing, rxVars, rdVars, rq, fresh, since>>

(* audio_buffer_is_nearly_full                                             *)
HasRoom == Len(buf) < Room

Below(f) == before # NONE /\ f.rtp < before
Above(f) == above # NONE /\ f.rtp > above

(* A frame is read while there is room.  The blanket gate refuses all,     *)
(* each of the others is opened by the first frame that passes it.         *)
ReadFrame ==
  /\ rx = "recv" /\ rd = "idle" /\ wire # <<>> /\ HasRoom
  /\ wire' = Tail(wire)
  /\ LET f == Head(wire) IN
     \/ discard_all /\ UNCHANGED <<before, above, rxVars>>
     \/ ~discard_all /\ Below(f) /\ UNCHANGED <<before, above, rxVars>>
     \/ ~discard_all /\ ~Below(f) /\ Above(f) /\ before' = NONE /\ UNCHANGED <<above, rxVars>>
     \/ /\ ~discard_all /\ ~Below(f) /\ ~Above(f) /\ before' = NONE /\ above' = NONE
        /\ rx' = "queue" /\ rx_frame' = f
  /\ UNCHANGED <<track, place, next, requests, arm, discard_all, buf, timing, rdVars, rq, fresh,
                 since>>

(* Decoded and queued in front of the frames that are not earlier.         *)
Queue ==
  /\ rx = "queue"
  /\ \E k \in 0 .. Len(buf) :
       /\ \A i \in 1 .. k : buf[i].rtp < rx_frame.rtp
       /\ \A i \in k + 1 .. Len(buf) : buf[i].rtp >= rx_frame.rtp
       /\ buf' = InsertAt(buf, k + 1, rx_frame)
  /\ rx' = "recv" /\ rx_frame' = NONE /\ fresh' = NONE
  /\ UNCHANGED <<senderVars, gates, timing, rdVars, rq, since>>
-----------------------------------------------------------------------------
(* The playback task: audio_timing_read.                                   *)

Return == rd' = "idle" /\ hand' = NONE /\ from_pending' = FALSE /\ since' = {}

Enough == Len(buf) >= IF quick_start THEN 1 ELSE Target

(* Mutant: playout never starts without an anchor.                         *)
ReadyWithAnchor == playout_started \/ pending # NONE \/ (Enough /\ anchor_valid)

(* Playout starts with enough frames and an anchor, or 1 s later without.  *)
Ready == playout_started \/ pending # NONE \/ (Enough /\ (anchor_valid \/ waited = "over"))

StartRead ==
  /\ rd = "idle" /\ rx = "recv" /\ playing /\ Ready
  /\ rd' = "take"
  /\ UNCHANGED <<senderVars, gates, buf, timing, rxVars, hand, from_pending, rq, fresh, since>>

StartWaiting ==
  /\ rd = "idle" /\ playing /\ ~playout_started /\ pending = NONE
  /\ Enough /\ ~anchor_valid /\ waited = "no"
  /\ waited' = "waiting"
  /\ UNCHANGED <<senderVars, gates, buf, playing, playout_started, quick_start, anchor, pending,
                 flush_until, early, rxVars, rdVars, rq, fresh, since>>

Take ==
  /\ rd = "take"
  /\ \/ /\ pending # NONE
        /\ hand' = pending /\ from_pending' = TRUE /\ rd' = "deferred"
        /\ UNCHANGED <<buf, since>>
     \/ /\ pending = NONE /\ buf # <<>>
        /\ hand' = Head(buf) /\ buf' = Tail(buf) /\ from_pending' = FALSE /\ rd' = "deferred"
        /\ UNCHANGED since
     \/ pending = NONE /\ buf = <<>> /\ Return /\ UNCHANGED buf
  /\ UNCHANGED <<senderVars, gates, timing, rxVars, rq, fresh>>

(* Mutant: the slot of the held frame is not vacated.                      *)
ConsumeNothing == pending' = pending

(* The frame leaves the hand and, if it came from there, the pending slot. *)
Consume == pending' = IF from_pending THEN NONE ELSE pending

(* Mutant: a frame that was held is not tested again.                      *)
PastBoundaryFresh == flush_until # NONE /\ hand.rtp >= flush_until /\ ~from_pending

PastBoundary == flush_until # NONE /\ hand.rtp >= flush_until

(* The deferred flush: the frame and the buffer are dropped ...            *)
TestDeferred ==
  /\ rd = "deferred"
  /\ \/ /\ ~PastBoundary
        /\ rd' = "judge" /\ UNCHANGED <<buf, hand, from_pending, pending>>
     \/ /\ PastBoundary
        /\ Consume /\ buf' = <<>> /\ rd' = "restart" /\ hand' = NONE /\ from_pending' = FALSE
  /\ UNCHANGED <<senderVars, gates, playing, started, anchor, flush_until, early, rxVars, rq, fresh,
                 since>>

(* ... and playout starts anew.                                            *)
RestartPlayout ==
  /\ rd = "restart"
  /\ flush_until' = NONE /\ playout_started' = FALSE /\ waited' = "no" /\ early' = 0
  /\ quick_start' = TRUE
  /\ Return
  /\ UNCHANGED <<senderVars, gates, buf, playing, anchor, pending, rxVars, rq, fresh>>

(* compute_early_us                                                        *)
Earliness(f) == due - age + (f.rtp - anchor_rtp)

PlayNow ==
  /\ ~anchor_valid \/ Earliness(hand) \in -Threshold .. Threshold
  /\ rd' = "play" /\ early' = 0
  /\ UNCHANGED <<hand, from_pending, pending, anchor_valid, since>>

(* Late: the next frame is looked at in the same read.                     *)
DropLate ==
  /\ anchor_valid /\ Earliness(hand) < -Threshold
  /\ Consume /\ rd' = "take" /\ hand' = NONE /\ from_pending' = FALSE /\ early' = 0
  /\ UNCHANGED <<anchor_valid, since>>

(* Early: counted when it is new, and held; with too many of them the      *)
(* anchor is given up.                                                     *)
KeepEarly ==
  /\ anchor_valid /\ Earliness(hand) > Threshold
  /\ LET count == IF from_pending THEN early ELSE early + 1 IN
     \/ /\ count > MaxEarly
        /\ anchor_valid' = FALSE /\ early' = 0 /\ rd' = "play"
        /\ UNCHANGED <<hand, from_pending, pending, since>>
     \/ /\ count <= MaxEarly /\ ~from_pending
        /\ early' = count /\ rd' = "hold"
        /\ UNCHANGED <<hand, from_pending, pending, anchor_valid, since>>
     \/ /\ count <= MaxEarly /\ from_pending
        /\ early' = count /\ Return
        /\ UNCHANGED <<pending, anchor_valid>>

Judge ==
  /\ rd = "judge"
  /\ PlayNow \/ DropLate \/ KeepEarly
  /\ UNCHANGED <<senderVars, gates, buf, playing, started, anchor_rtp, due, age, flush_until,
                 rxVars, rq, fresh>>

Hold ==
  /\ rd = "hold"
  /\ pending' = hand
  /\ Return
  /\ UNCHANGED <<senderVars, gates, buf, playing, started, anchor, flush_until, early, rxVars, rq, fresh>>

Play ==
  /\ rd = "play"
  /\ Consume
  /\ playout_started' = TRUE
  /\ quick_start' = (quick_start /\ playout_started)
  /\ Return
  /\ UNCHANGED <<senderVars, gates, buf, playing, waited, anchor, flush_until, early, rxVars, rq, fresh>>
-----------------------------------------------------------------------------
(* The RTSP task.  A request arrives with what the sender means by it.     *)

AtRest == rd = "idle" /\ rx = "recv" /\ rq.pc = "idle"

Arrives(request) ==
  /\ AtRest /\ requests < MaxRequests
  /\ rq' = request /\ requests' = requests + 1
  /\ fresh' = NONE
  /\ UNCHANGED <<wire, gates, buf, timing, rxVars, rdVars, since>>

MovesTo(r) == track < MaxTrack /\ track' = track + 1 /\ place' = r /\ next' = r

AskPause  == Arrives(Asked("pause", 0, 0)) /\ UNCHANGED <<track, place, next>>
AskResume == Arrives(Asked("resume", 0, 0)) /\ UNCHANGED <<track, place, next>>
AskFlush(r) == Arrives(Asked("flush", 0, 0)) /\ MovesTo(r)
AskDeferred(r) ==
  Arrives(Asked("deferred", r, 0)) /\ UNCHANGED <<track, place, next>>
AskAnchor(r, l) ==
  /\ Arrives(Asked("arm", r, l))
  /\ (r \in place .. next /\ UNCHANGED <<track, place, next>>) \/ MovesTo(r)

Goto(pc) == rq' = [rq EXCEPT !.pc = pc]
(* What the read under way may have tested before.                         *)
Noted(what) == since' = IF rd = "idle" THEN {} ELSE since \union {what}

(* audio_receiver_pause, and audio_receiver_set_playing(true)              *)
StopConsumer == playing' = FALSE /\ pending' = NONE /\ Noted("pause")

Pause ==
  /\ rq.pc = "pause"
  /\ StopConsumer /\ rq' = Idle
  /\ UNCHANGED <<senderVars, gates, buf, started, anchor, flush_until, early, rxVars, rdVars, fresh>>

Resume ==
  /\ rq.pc = "resume"
  /\ playing' = TRUE /\ rq' = Idle
  /\ UNCHANGED <<senderVars, gates, buf, started, anchor, pending, flush_until, early, rxVars, rdVars,
                 fresh, since>>

(* audio_receiver_set_deferred_flush                                       *)
SetDeferred ==
  /\ rq.pc = "deferred"
  /\ flush_until' = rq.rtp /\ Noted("deferred") /\ rq' = Idle
  /\ UNCHANGED <<senderVars, gates, buf, playing, started, anchor, pending, early, rxVars, rdVars, fresh>>

(* audio_receiver_seek_flush: the buffer, the timing, the gates, and then  *)
(* everything is refused until the next anchor.                            *)
FlushBuffer ==
  /\ rq.pc = "flush"
  /\ buf' = <<>> /\ Goto("reset")
  /\ UNCHANGED <<senderVars, gates, timing, rxVars, rdVars, fresh, since>>

ResetTiming ==
  /\ rq.pc = "reset"
  /\ playout_started' = FALSE /\ quick_start' = FALSE /\ waited' = "no"
  /\ anchor_valid' = FALSE /\ pending' = NONE /\ flush_until' = NONE /\ early' = 0
  /\ Goto("clear")
  /\ UNCHANGED <<senderVars, gates, buf, playing, anchor_rtp, due, age, rxVars, rdVars, fresh, since>>

ClearGates ==                   (* also the blanket gate of a flush before  *)
  /\ rq.pc = "clear"
  /\ before' = NONE /\ above' = NONE /\ arm' = FALSE /\ discard_all' = FALSE
  /\ Goto("quick")
  /\ UNCHANGED <<senderVars, buf, timing, rxVars, rdVars, fresh, since>>

HurryStart ==
  /\ rq.pc = "quick"
  /\ quick_start' = TRUE
  /\ Goto("blanket")
  /\ UNCHANGED <<senderVars, gates, buf, playing, playout_started, waited, anchor, pending,
                 flush_until, early, rxVars, rdVars, fresh, since>>

RefuseAll ==
  /\ rq.pc = "blanket"
  /\ arm' = TRUE /\ discard_all' = TRUE
  /\ rq' = Idle
  /\ UNCHANGED <<senderVars, before, above, buf, timing, rxVars, rdVars, fresh, since>>

(* audio_receiver_set_anchor_time *)
(* Mutant: only the lower gate is set.                                     *)
SetGatesBelow == before' = rq.rtp /\ UNCHANGED above

SetGates == before' = rq.rtp /\ above' = rq.rtp + GateWindow

(* Path B: where playback should be by now is too far from the anchor.     *)
Jumps == anchor_valid /\ Distance(rq.rtp, anchor_rtp + age) > SeekThreshold

(* Path A after a flush; else Path B, which flushes; else nothing.         *)
ArmGates ==
  /\ rq.pc = "arm"
  /\ \/ /\ arm
        /\ arm' = FALSE /\ SetGates /\ fresh' = rq.rtp
        /\ rq' = [rq EXCEPT !.pc = "open", !.armed = TRUE]
        /\ UNCHANGED buf
     \/ /\ ~arm /\ Jumps
        /\ buf' = <<>> /\ Goto("rearm")
        /\ UNCHANGED <<before, above, arm, fresh>>
     \/ /\ ~arm /\ ~Jumps
        /\ Goto("open")
        /\ UNCHANGED <<before, above, arm, fresh, buf>>
  /\ UNCHANGED <<senderVars, discard_all, timing, rxVars, rdVars, since>>

Anew ==
  /\ playout_started' = FALSE /\ pending' = NONE /\ waited' = "no" /\ flush_until' = NONE
  /\ quick_start' = TRUE
  /\ UNCHANGED <<senderVars, arm, discard_all, buf, playing, anchor, early, rxVars, rdVars, fresh, since>>

StartAnewArmed ==
  /\ rq.pc = "rearm"
  /\ Anew /\ SetGates
  /\ rq' = [rq EXCEPT !.pc = "open", !.armed = TRUE]

(* Only now the blanket gate is opened.                                    *)
OpenBlanket ==
  /\ rq.pc = "open"
  /\ discard_all' = FALSE /\ Goto("seek")
  /\ UNCHANGED <<senderVars, before, above, arm, buf, timing, rxVars, rdVars, fresh, since>>

(* Phase 2: the oldest frame is too far from the anchor.                   *)
DetectSeek ==
  /\ rq.pc = "seek"
  /\ IF buf # <<>> /\ Distance(Head(buf).rtp, rq.rtp) > SeekThreshold
     THEN buf' = <<>> /\ Goto("anew")
     ELSE UNCHANGED buf /\ Goto("stamp_rtp")
  /\ UNCHANGED <<senderVars, gates, timing, rxVars, rdVars, fresh, since>>

StartAnew ==
  /\ rq.pc = "anew"
  /\ Anew
  /\ IF rq.armed THEN UNCHANGED <<before, above>> ELSE SetGates
  /\ Goto("stamp_rtp")

(* audio_timing_set_anchor                                                 *)
StampRtp ==
  /\ rq.pc = "stamp_rtp"
  /\ anchor_rtp' = rq.rtp
  /\ Goto("stamp")
  /\ UNCHANGED <<senderVars, gates, buf, playing, started, anchor_valid, due, age, pending, flush_until,
                 early, rxVars, rdVars, fresh, since>>

StampTime ==
  /\ rq.pc = "stamp"
  /\ due' = rq.lead /\ age' = 0 /\ anchor_valid' = TRUE /\ early' = 0
  /\ Goto("rate")
  /\ UNCHANGED <<senderVars, gates, buf, playing, started, anchor_rtp, pending, flush_until, rxVars,
                 rdVars, fresh, since>>

(* The rest of handle_setrateanchortime.                                   *)
SetRate ==
  /\ rq.pc = "rate"
  /\ rq' = Idle
  /\ StopConsumer \/ (playing' = TRUE /\ UNCHANGED <<pending, since>>)
  /\ UNCHANGED <<senderVars, gates, buf, started, anchor, flush_until, early, rxVars, rdVars, fresh>>
-----------------------------------------------------------------------------
(* Time passes while no task is at work.  At MaxAge every frame is late,   *)
(* and every anchor a jump.                                                *)
Tick ==
  /\ AtRest
  /\ anchor_valid /\ age < MaxAge
  /\ age' = age + 1
  /\ UNCHANGED <<senderVars, gates, buf, playing, started, anchor_valid, anchor_rtp, due, pending,
                 flush_until, early, rxVars, rdVars, rq, fresh, since>>

(* 1 s after frames were ready.                                            *)
WaitEnds ==
  /\ waited = "waiting"
  /\ waited' = "over"
  /\ UNCHANGED <<senderVars, gates, buf, playing, playout_started, quick_start, anchor, pending,
                 flush_until, early, rxVars, rdVars, rq, fresh, since>>
-----------------------------------------------------------------------------
ReceiveFrame == ReadFrame \/ Queue

Read == StartRead \/ StartWaiting \/ Take \/ TestDeferred \/ RestartPlayout \/ Judge \/ Hold \/ Play

Ask == AskPause \/ AskResume \/ \E r \in Rtps : AskFlush(r) \/ AskDeferred(r)
                                             \/ \E l \in Leads : AskAnchor(r, l)

Serve ==
  \/ Pause \/ Resume \/ SetDeferred
  \/ FlushBuffer \/ ResetTiming \/ ClearGates \/ HurryStart \/ RefuseAll
  \/ ArmGates \/ StartAnewArmed \/ OpenBlanket \/ DetectSeek \/ StartAnew
  \/ StampRtp \/ StampTime \/ SetRate

Next == Send \/ ReceiveFrame \/ Read \/ Ask \/ Serve \/ Tick \/ WaitEnds

Spec == Init /\ [][Next]_vars

(* The tasks run, and time passes however busy they are; the sender may    *)
(* fall silent.                                                            *)
Fairness ==
  /\ WF_vars(ReceiveFrame) /\ WF_vars(Read) /\ WF_vars(Serve)
  /\ SF_vars(Tick) /\ WF_vars(WaitEnds)

FairSpec == Spec /\ Fairness
-----------------------------------------------------------------------------
Stamps  == 0 .. LastRtp
Request == [pc : {"idle", "pause", "resume", "deferred", "flush", "reset", "clear", "quick", "blanket",
                  "arm", "rearm", "open", "seek", "anew", "stamp_rtp", "stamp", "rate"},
            rtp : Stamps, lead : Leads \union {0}, armed : BOOLEAN]

TypeOK ==
  /\ track \in 0 .. MaxTrack /\ place \in Rtps /\ next \in 1 .. LastRtp + 1
  /\ requests \in 0 .. MaxRequests /\ wire \in Seq(Frames)
  /\ before \in Stamps \union {NONE} /\ above \in Nat \union {NONE}
  /\ arm \in BOOLEAN /\ discard_all \in BOOLEAN
  /\ buf \in Seq(Frames) /\ Len(buf) <= Room
  /\ playing \in BOOLEAN /\ playout_started \in BOOLEAN /\ quick_start \in BOOLEAN
  /\ anchor_valid \in BOOLEAN /\ anchor_rtp \in Stamps
  /\ due \in Leads \union {0} /\ age \in 0 .. MaxAge
  /\ waited \in {"no", "waiting", "over"} /\ pending \in Frames \union {NONE}
  /\ flush_until \in Stamps \union {NONE} /\ early \in 0 .. MaxEarly
  /\ rx \in {"recv", "queue"} /\ rx_frame \in Frames \union {NONE}
  /\ rd \in {"idle", "take", "deferred", "judge", "restart", "hold", "play"}
  /\ hand \in Frames \union {NONE} /\ from_pending \in BOOLEAN
  /\ rq \in Request
  /\ fresh \in Stamps \union {NONE} /\ since \subseteq {"pause", "deferred"}

(* In a pause nothing is heard: the one frame that may still be passed on  *)
(* was in the hands of the playback task when the pause came.              *)
PausedIsSilent == rd = "play" /\ ~playing => "pause" \in since

(* No frame at or behind the boundary of a deferred flush is heard, be it  *)
(* held, queued, or received later, except one that was being judged when  *)
(* the flush was set.                                                      *)
BoundaryHeld ==
  rd = "play" /\ flush_until # NONE /\ hand.rtp >= flush_until => "deferred" \in since

(* What the sender asked for is done for every frame that is read after it *)
(* (audio_receiver_pause, audio_receiver_set_deferred_flush), although its *)
(* requests are stored while the playback task holds a frame.              *)
OrdersKept == PausedIsSilent /\ BoundaryHeld

(* The first frame to enter the buffer after the anchor of a seek is none  *)
(* that was left over from before it, unless the anchor is near to it:     *)
(* what was under way is refused until the gates stand, and the gates      *)
(* refuse what is far (audio_receiver_seek_flush, set_anchor_time Path A,  *)
(* audio_stream_process_frame).  For one seek: a frame that the upper gate *)
(* refuses opens the lower one, and after a second seek in a row frames of *)
(* two places may be left over.                                            *)
FirstFitsWindow ==
  [][rx = "queue" /\ rx' = "recv" /\ fresh # NONE /\ track <= 1
     => rx_frame.rtp \in fresh .. fresh + GateWindow \/ rx_frame.track = track]_vars

(* No frame is heard twice, and none after a later one of its track, or    *)
(* after it was given up: neither the slot for the early frame, nor a      *)
(* flush or an anchor in the middle of a read, brings one back.            *)
Held == (IF pending = NONE THEN {} ELSE {pending})
        \union (IF hand = NONE \/ rd = "play" THEN {} ELSE {hand})

Unsent == {f \in Frames : f.track > track \/ (f.track = track /\ f.rtp >= next)}

Promise == INSTANCE Playout WITH
  coming  <- Unsent \union ToSet(wire) \union ({rx_frame} \ {NONE}),
  waiting <- (ToSet(buf) \union Held) \ (IF rd = "play" THEN {hand} ELSE {}),
  speaker <- IF rd = "play" THEN hand ELSE NONE

ImplementsPlayout == Promise!Spec

(* Playback does not come to a halt: with a held frame or enough of them   *)
(* in the buffer one is heard, or they turn out late, or a request comes   *)
(* in between.                                                             *)
PlaysOn ==
  (playing /\ (pending # NONE \/ Len(buf) >= Target))
    ~> (rd = "play" \/ rq.pc # "idle" \/ (buf = <<>> /\ pending = NONE))
=============================================================================
