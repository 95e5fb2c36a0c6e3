-------------------------- MODULE AudioPipelineProofs --------------------------
(***************************************************************************)
(* What the RTSP task may change under a read, the types, the order of the *)
(* frames on their way to the output, and the gates of a seek, for every   *)
(* value of the constants.  The first two invariants have one shape: what  *)
(* the playback task tested at the beginning still holds, or the change    *)
(* was noted since.                                                        *)
(***************************************************************************)
EXTENDS AudioPipeline, SequenceTheorems, TLAPS

(* playing was tested first.                                               *)
PauseNoted == rd # "idle" /\ ~playing => "pause" \in since

(* The boundary of the deferred flush was tested before the frame is       *)
(* judged.                                                                 *)
BoundaryNoted ==
  rd \in {"judge", "hold", "play"} /\ PastBoundary => "deferred" \in since

Noticed == PauseNoted /\ BoundaryNoted

LEMMA InitNoticed == Init => Noticed
  BY DEF Init, Noticed, PauseNoted, BoundaryNoted

(* The steps of the sender, of the receive task and of time.               *)
LEMMA OthersNoticed ==
  ASSUME Noticed, Send \/ ReceiveFrame \/ Ask \/ Tick \/ WaitEnds
  PROVE  Noticed'
<1> USE DEF Noticed, PauseNoted, BoundaryNoted, PastBoundary, timing, started, anchor, rdVars
<1>1. CASE Send  BY <1>1 DEF Send
<1>2. CASE ReadFrame  BY <1>2 DEF ReadFrame
<1>3. CASE Queue  BY <1>3 DEF Queue
<1>4. CASE Ask
  <2>1. rd = "idle" /\ rd' = "idle" /\ UNCHANGED <<timing, rdVars, since>>
    BY <1>4 DEF Ask, AskPause, AskResume, AskFlush, AskDeferred, AskAnchor, Arrives, AtRest
  <2> QED  BY <2>1
<1>5. CASE Tick  BY <1>5 DEF Tick, AtRest
<1>6. CASE WaitEnds  BY <1>6 DEF WaitEnds
<1> QED  BY <1>1, <1>2, <1>3, <1>4, <1>5, <1>6 DEF ReceiveFrame

(* The steps of a read: it tests before it goes on.                        *)
LEMMA ReadNoticed ==
  ASSUME Noticed, Read
  PROVE  Noticed'
<1> USE DEF Noticed, PauseNoted, BoundaryNoted, PastBoundary, timing, started, anchor, rdVars, Return
<1>1. CASE StartRead  BY <1>1 DEF StartRead
<1>2. CASE StartWaiting  BY <1>2 DEF StartWaiting
<1>3. CASE Take  BY <1>3 DEF Take
<1>4. CASE TestDeferred  BY <1>4 DEF TestDeferred
<1>5. CASE RestartPlayout  BY <1>5 DEF RestartPlayout
<1>6. CASE Judge
  <2>1. CASE PlayNow  BY <1>6, <2>1 DEF Judge, PlayNow
  <2>2. CASE DropLate  BY <1>6, <2>2 DEF Judge, DropLate
  <2>3. CASE KeepEarly  BY <1>6, <2>3 DEF Judge, KeepEarly
  <2> QED  BY <1>6, <2>1, <2>2, <2>3 DEF Judge
<1>7. CASE Hold  BY <1>7 DEF Hold
<1>8. CASE Play  BY <1>8 DEF Play
<1> QED  BY <1>1, <1>2, <1>3, <1>4, <1>5, <1>6, <1>7, <1>8 DEF Read

(* The steps of the RTSP task: it notes what it changes under a read.      *)
LEMMA ServeNoticed ==
  ASSUME Noticed, Serve
  PROVE  Noticed'
<1> USE DEF Noticed, PauseNoted, BoundaryNoted, PastBoundary, timing, started, anchor, rdVars, Noted
<1>1. CASE Pause  BY <1>1 DEF Pause, StopConsumer
<1>2. CASE Resume  BY <1>2 DEF Resume
<1>3. CASE SetDeferred  BY <1>3 DEF SetDeferred
<1>4. CASE FlushBuffer  BY <1>4 DEF FlushBuffer
<1>5. CASE ResetTiming  BY <1>5 DEF ResetTiming
<1>6. CASE RefuseAll  BY <1>6 DEF RefuseAll
<1>7. CASE ArmGates  BY <1>7 DEF ArmGates
<1>8. CASE StartAnewArmed  BY <1>8 DEF StartAnewArmed, Anew
<1>9. CASE OpenBlanket  BY <1>9 DEF OpenBlanket
<1>10. CASE DetectSeek  BY <1>10 DEF DetectSeek
<1>11. CASE StartAnew  BY <1>11 DEF StartAnew, Anew
<1>12. CASE StampRtp  BY <1>12 DEF StampRtp
<1>13. CASE StampTime  BY <1>13 DEF StampTime
<1>14. CASE SetRate  BY <1>14 DEF SetRate, StopConsumer
<1>15. CASE ClearGates  BY <1>15 DEF ClearGates
<1>16. CASE HurryStart  BY <1>16 DEF HurryStart
<1> QED  BY <1>1, <1>2, <1>3, <1>4, <1>5, <1>6, <1>7, <1>8, <1>9, <1>10, <1>11, <1>12, <1>13, <1>14,
            <1>15, <1>16 DEF Serve

LEMMA StutterNoticed ==
  ASSUME Noticed, UNCHANGED vars
  PROVE  Noticed'
  BY DEF Noticed, PauseNoted, BoundaryNoted, PastBoundary, vars, timing, started, anchor,
         rdVars

LEMMA AlwaysNoticed == Spec => []Noticed
<1>1. Noticed /\ [Next]_vars => Noticed'
  BY OthersNoticed, ReadNoticed, ServeNoticed, StutterNoticed DEF Next
<1> QED  BY InitNoticed, <1>1, PTL DEF Spec

(* A frame is passed to the output in a pause only if the pause came       *)
(* within the read (audio_timing_read against audio_receiver_pause).       *)
THEOREM SilentInPause == Spec => []PausedIsSilent
<1>1. Noticed => PausedIsSilent  BY DEF Noticed, PauseNoted, PausedIsSilent
<1> QED  BY AlwaysNoticed, <1>1, PTL

(* A frame at or behind the boundary of a deferred flush is heard only if  *)
(* the flush was set within the read.                                      *)
THEOREM HeldAtBoundary == Spec => []BoundaryHeld
<1>1. Noticed => BoundaryHeld  BY DEF Noticed, BoundaryNoted, BoundaryHeld, PastBoundary
<1> QED  BY AlwaysNoticed, <1>1, PTL

(* A pause and a deferred flush hold for every frame that is read after    *)
(* them.                                                                   *)
THEOREM OrdersAreKept == Spec => []OrdersKept
BY SilentInPause, HeldAtBoundary, PTL DEF OrdersKept
-----------------------------------------------------------------------------
(* TypeOK is not inductive: a frame that is about to be queued relies on   *)
(* the room that there was when it was read, and nothing adds frames since.*)
QueueReady == rx = "queue" => rx_frame \in Frames /\ Len(buf) < Room

(* The parts of TypeOK, by what the steps change together.                 *)
SenderType ==
  /\ track \in 0 .. MaxTrack /\ place \in Rtps /\ next \in 1 .. LastRtp + 1
  /\ requests \in 0 .. MaxRequests /\ wire \in Seq(Frames)

GateType ==
  /\ before \in Stamps \union {NONE} /\ above \in Nat \union {NONE}
  /\ arm \in BOOLEAN /\ discard_all \in BOOLEAN

BufferType ==
  /\ buf \in Seq(Frames) /\ Len(buf) <= Room /\ QueueReady
  /\ rx \in {"recv", "queue"} /\ rx_frame \in Frames \union {NONE}

StartedType ==
  /\ playing \in BOOLEAN /\ playout_started \in BOOLEAN /\ quick_start \in BOOLEAN
  /\ waited \in {"no", "waiting", "over"}

AnchorType ==
  /\ anchor_valid \in BOOLEAN /\ anchor_rtp \in Stamps
  /\ due \in Leads \union {0} /\ age \in 0 .. MaxAge

HoldType ==
  /\ pending \in Frames \union {NONE} /\ flush_until \in Stamps \union {NONE}
  /\ early \in 0 .. MaxEarly /\ hand \in Frames \union {NONE} /\ from_pending \in BOOLEAN
  /\ rd \in {"idle", "take", "deferred", "judge", "restart", "hold", "play"}

RequestType ==
  /\ rq \in Request /\ fresh \in Stamps \union {NONE}
  /\ since \subseteq {"pause", "deferred"}

Typed ==
  /\ SenderType /\ GateType /\ BufferType /\ StartedType
  /\ AnchorType /\ HoldType /\ RequestType

LEMMA TypedParts == Typed <=> TypeOK /\ QueueReady
  BY DEF Typed, SenderType, GateType, BufferType, StartedType, AnchorType, HoldType,
     RequestType, TypeOK

LEMMA Constants ==
  /\ LastRtp \in Nat /\ LastRtp >= 1 /\ MaxTrack \in Nat /\ MaxRequests \in Nat
  /\ Room \in Nat /\ MaxAge \in Nat /\ MaxEarly \in Nat /\ GateWindow \in Nat
  BY PipelineAssumption

LEMMA IdleTyped == Idle \in Request
  BY Constants DEF Idle, Asked, Request, Stamps

LEMMA InitTyped == Init => Typed
<1>1. 0 \in Stamps /\ 0 \in 0 .. MaxAge /\ 0 \in 0 .. MaxEarly
  BY Constants DEF Stamps
<1>2. Init => SenderType  BY Constants DEF Init, SenderType, Rtps
<1>3. Init => GateType  BY DEF Init, GateType
<1>4. Init => BufferType  BY Constants DEF Init, BufferType, QueueReady
<1>5. Init => StartedType  BY DEF Init, StartedType
<1>6. Init => AnchorType  BY <1>1 DEF Init, AnchorType
<1>7. Init => HoldType  BY <1>1 DEF Init, HoldType
<1>8. Init => RequestType  BY IdleTyped DEF Init, RequestType
<1> QED  BY <1>2, <1>3, <1>4, <1>5, <1>6, <1>7, <1>8 DEF Typed

LEMMA TailTyped ==
  ASSUME NEW s \in Seq(Frames), s # <<>>, NEW n \in Nat, Len(s) <= n
  PROVE  Head(s) \in Frames /\ Tail(s) \in Seq(Frames) /\ Len(Tail(s)) < n
  OBVIOUS

(* What Queue does to the buffer.                                          *)
LEMMA InsertTyped ==
  ASSUME NEW S, NEW s \in Seq(S), NEW k \in 0 .. Len(s), NEW x \in S
  PROVE  InsertAt(s, k + 1, x) \in Seq(S) /\ Len(InsertAt(s, k + 1, x)) = Len(s) + 1
<1> DEFINE front == SubSeq(s, 1, k)
           back  == SubSeq(s, k + 1, Len(s))
<1>1. /\ (k + 1) - 1 = k /\ k \in Int /\ k + 1 \in Int /\ Len(s) \in Int
      /\ \A i \in 1 .. k : s[i] \in S
      /\ \A i \in k + 1 .. Len(s) : s[i] \in S
  OBVIOUS
<1>2. front \in Seq(S) /\ Len(front) = k
  BY <1>1, SubSeqProperties
<1>3. back \in Seq(S) /\ Len(back) = Len(s) - k
  BY <1>1, SubSeqProperties
<1>4. InsertAt(s, k + 1, x) = (front \o <<x>>) \o back
  BY <1>1, Zenon DEF InsertAt
<1> HIDE DEF front, back
<1>5. front \o <<x>> \in Seq(S) /\ Len(front \o <<x>>) = k + 1
  BY <1>2
<1> DEFINE put == front \o <<x>>
<1>6. /\ put \o back \in Seq(S)
      /\ Len(put \o back) = (k + 1) + (Len(s) - k)
  <2>1. put \in Seq(S) /\ Len(put) = k + 1  BY <1>5
  <2> HIDE DEF put
  <2>2. put \o back \in Seq(S) /\ Len(put \o back) = Len(put) + Len(back)
    BY <1>3, <2>1
  <2> QED  BY <1>3, <2>1, <2>2
<1>7. (k + 1) + (Len(s) - k) = Len(s) + 1
  OBVIOUS
<1> QED BY <1>4, <1>6, <1>7

(* The request at hand stays one.                                          *)
LEMMA GotoTyped ==
  ASSUME NEW r \in Request,
         NEW pc \in {"idle", "pause", "resume", "deferred", "flush", "reset", "clear", "quick", "blanket",
                     "arm", "rearm", "open", "seek", "anew", "stamp_rtp", "stamp", "rate"}
  PROVE  [r EXCEPT !.pc = pc] \in Request
  BY DEF Request

LEMMA ArmedTyped ==
  ASSUME NEW r \in Request
  PROVE  [r EXCEPT !.pc = "open", !.armed = TRUE] \in Request
  BY Zenon DEF Request

LEMMA AskedTyped ==
  ASSUME NEW r \in Stamps, NEW l \in Leads \union {0},
         NEW pc \in {"idle", "pause", "resume", "deferred", "flush", "arm"}
  PROVE  Asked(pc, r, l) \in Request
  BY DEF Asked, Request

LEMMA GatesTyped ==
  ASSUME rq \in Request, SetGates
  PROVE  before' \in Stamps /\ above' \in Nat
  BY Constants DEF SetGates, Request, Stamps

(* The buffer is left alone or emptied.                                    *)
LEMMA BufferKept ==
  ASSUME BufferType, buf' = buf \/ buf' = <<>>, UNCHANGED rxVars
  PROVE  BufferType'
<1>1. CASE buf' = buf  BY <1>1 DEF BufferType, QueueReady, rxVars
<1>2. CASE buf' = <<>>
  <2>1. buf' \in Seq(Frames) /\ Len(buf') <= Room /\ (Len(buf) < Room => Len(buf') < Room)
    BY <1>2, Constants DEF BufferType
  <2> QED  BY <2>1 DEF BufferType, QueueReady, rxVars
<1> QED  BY <1>1, <1>2

(* The sender, the receive task, and time.                                 *)
LEMMA ReceiveTyped ==
  ASSUME Typed, Send \/ ReceiveFrame \/ Tick \/ WaitEnds
  PROVE  Typed'
<1> USE DEF Typed
<1>1. CASE Send
  <2>1. GateType' /\ BufferType' /\ StartedType' /\ AnchorType' /\ HoldType' /\ RequestType'
    BY <1>1 DEF Send, GateType, gates, BufferType, QueueReady, rxVars, StartedType, timing,
       started, AnchorType, anchor, HoldType, rdVars, RequestType
  <2>2. SenderType'
    <3>1. next \in Rtps /\ track \in 0 .. MaxTrack  BY <1>1 DEF Send, SenderType
    <3>2. [rtp |-> next, track |-> track] \in Frames  BY <3>1 DEF Frames
    <3>3. wire' \in Seq(Frames)  BY <1>1, <3>2 DEF Send, SenderType
    <3>4. next' \in 1 .. LastRtp + 1  BY <1>1, <3>1, Constants DEF Send, Rtps
    <3> QED  BY <1>1, <3>3, <3>4 DEF Send, SenderType
  <2> QED  BY <2>1, <2>2
<1>2. CASE ReadFrame
  <2>1. StartedType' /\ AnchorType' /\ HoldType' /\ RequestType'
    BY <1>2 DEF ReadFrame, StartedType, timing, started, AnchorType, anchor, HoldType, rdVars,
       RequestType
  <2>2. SenderType'  BY <1>2 DEF ReadFrame, SenderType, senderVars
  <2>3. GateType'
    <3>1. before' \in {before, NONE} /\ above' \in {above, NONE} /\ UNCHANGED <<arm, discard_all>>
      BY <1>2 DEF ReadFrame
    <3> QED  BY <3>1 DEF GateType
  <2>4. BufferType'
    <3>1. UNCHANGED buf /\ Len(buf) < Room  BY <1>2 DEF ReadFrame, HasRoom
    <3>2. wire \in Seq(Frames) /\ wire # <<>>  BY <1>2 DEF ReadFrame, SenderType
    <3>3. Head(wire) \in Frames  BY <3>2
    <3>4. UNCHANGED rxVars \/ (rx' = "queue" /\ rx_frame' = Head(wire))  BY <1>2 DEF ReadFrame
    <3> QED  BY <3>1, <3>3, <3>4 DEF BufferType, QueueReady, rxVars
  <2> QED  BY <2>1, <2>2, <2>3, <2>4
<1>3. CASE Queue
  <2>1. SenderType' /\ GateType' /\ StartedType' /\ AnchorType' /\ HoldType'
    BY <1>3 DEF Queue, SenderType, senderVars, GateType, gates, StartedType, timing, started,
       AnchorType, anchor, HoldType, rdVars
  <2>2. BufferType'  BY <1>3, InsertTyped, Constants DEF Queue, BufferType, QueueReady, rxVars
  <2>3. RequestType'  BY <1>3 DEF Queue, RequestType
  <2> QED  BY <2>1, <2>2, <2>3
<1>4. CASE Tick
  <2>1. SenderType' /\ GateType' /\ BufferType' /\ StartedType' /\ HoldType' /\ RequestType'
    BY <1>4 DEF Tick, SenderType, senderVars, GateType, gates, BufferType, QueueReady, rxVars,
       StartedType, timing, started, HoldType, rdVars, RequestType
  <2>2. AnchorType'  BY <1>4, Constants DEF Tick, AnchorType, timing, anchor
  <2> QED  BY <2>1, <2>2
<1>5. CASE WaitEnds
  <2>1. SenderType' /\ GateType' /\ BufferType' /\ AnchorType' /\ HoldType' /\ RequestType'
    BY <1>5 DEF WaitEnds, SenderType, senderVars, GateType, gates, BufferType, QueueReady,
       rxVars, AnchorType, timing, anchor, HoldType, rdVars, RequestType
  <2>2. StartedType'  BY <1>5 DEF WaitEnds, StartedType, timing, started
  <2> QED  BY <2>1, <2>2
<1> QED  BY <1>1, <1>2, <1>3, <1>4, <1>5 DEF ReceiveFrame

(* The playback task.                                                      *)
LEMMA ReadTyped ==
  ASSUME Typed, Read
  PROVE  Typed'
<1> USE DEF Typed
<1>1. CASE StartRead
  <2>1. SenderType' /\ GateType' /\ BufferType' /\ StartedType' /\ AnchorType' /\ RequestType'
    BY <1>1 DEF StartRead, SenderType, senderVars, GateType, gates, BufferType, QueueReady,
       rxVars, StartedType, timing, started, AnchorType, anchor, RequestType
  <2>2. HoldType'  BY <1>1 DEF StartRead, HoldType, timing, rdVars
  <2> QED  BY <2>1, <2>2
<1>2. CASE StartWaiting
  <2>1. SenderType' /\ GateType' /\ BufferType' /\ AnchorType' /\ HoldType' /\ RequestType'
    BY <1>2 DEF StartWaiting, SenderType, senderVars, GateType, gates, BufferType, QueueReady,
       rxVars, AnchorType, timing, anchor, HoldType, rdVars, RequestType
  <2>2. StartedType'  BY <1>2 DEF StartWaiting, StartedType, timing, started
  <2> QED  BY <2>1, <2>2
<1>3. CASE Take
  <2>1. SenderType' /\ GateType' /\ StartedType' /\ AnchorType'
    BY <1>3 DEF Take, SenderType, senderVars, GateType, gates, StartedType, timing, started,
       AnchorType, anchor
  <2>2. BufferType'
    BY <1>3, TailTyped, Constants DEF Take, BufferType, QueueReady, rxVars, Return
  <2>3. HoldType'
    BY <1>3, TailTyped, Constants DEF Take, HoldType, timing, rdVars, Return, BufferType
  <2>4. RequestType'  BY <1>3 DEF Take, RequestType, Return
  <2> QED  BY <2>1, <2>2, <2>3, <2>4
<1>4. CASE TestDeferred
  <2>1. SenderType' /\ GateType' /\ StartedType' /\ AnchorType' /\ RequestType'
    BY <1>4 DEF TestDeferred, SenderType, senderVars, GateType, gates, StartedType, timing,
       started, AnchorType, anchor, RequestType
  <2>2. BufferType'
    <3>1. buf' = buf \/ buf' = <<>>  BY <1>4 DEF TestDeferred
    <3>2. UNCHANGED rxVars  BY <1>4 DEF TestDeferred
    <3> QED  BY <3>1, <3>2, BufferKept
  <2>3. HoldType'  BY <1>4 DEF TestDeferred, HoldType, timing, rdVars, Consume
  <2> QED  BY <2>1, <2>2, <2>3
<1>5. CASE RestartPlayout
  <2>1. SenderType' /\ GateType' /\ BufferType' /\ AnchorType'
    BY <1>5 DEF RestartPlayout, SenderType, senderVars, GateType, gates, BufferType, QueueReady,
       rxVars, AnchorType, timing, anchor
  <2>2. StartedType'  BY <1>5 DEF RestartPlayout, StartedType, timing, started
  <2>3. HoldType'
    <3>1. 0 \in 0 .. MaxEarly  BY Constants
    <3> QED  BY <1>5, <3>1 DEF RestartPlayout, HoldType, Return
  <2>4. RequestType'  BY <1>5 DEF RestartPlayout, RequestType, Return
  <2> QED  BY <2>1, <2>2, <2>3, <2>4
<1>6. CASE Judge
  <2>1. SenderType' /\ GateType' /\ BufferType' /\ StartedType'
    BY <1>6 DEF Judge, SenderType, senderVars, GateType, gates, BufferType, QueueReady, rxVars,
       StartedType, timing, started
  <2>2. AnchorType'  BY <1>6 DEF Judge, AnchorType, timing, anchor, PlayNow, DropLate, KeepEarly
  <2>3. HoldType'
    <3>1. 0 \in 0 .. MaxEarly  BY Constants
    <3>2. CASE PlayNow  BY <1>6, <3>1, <3>2 DEF Judge, PlayNow, HoldType
    <3>3. CASE DropLate  BY <1>6, <3>1, <3>3 DEF Judge, DropLate, Consume, HoldType
    <3>4. CASE KeepEarly
      <4>1. early' = 0 \/ (early' \in {early, early + 1} /\ early' <= MaxEarly)
        BY <3>4 DEF KeepEarly
      <4>2. early' \in 0 .. MaxEarly  BY <4>1, <3>1, Constants DEF HoldType
      <4> QED  BY <1>6, <3>4, <4>2 DEF Judge, KeepEarly, Return, HoldType
    <3> QED  BY <1>6, <3>2, <3>3, <3>4 DEF Judge
  <2>4. RequestType'  BY <1>6 DEF Judge, RequestType, PlayNow, DropLate, KeepEarly, Return
  <2> QED  BY <2>1, <2>2, <2>3, <2>4
<1>7. CASE Hold
  <2>1. SenderType' /\ GateType' /\ BufferType' /\ StartedType' /\ AnchorType'
    BY <1>7 DEF Hold, SenderType, senderVars, GateType, gates, BufferType, QueueReady, rxVars,
       StartedType, timing, started, AnchorType, anchor
  <2>2. HoldType'  BY <1>7 DEF Hold, HoldType, timing, rdVars, Return
  <2>3. RequestType'  BY <1>7 DEF Hold, RequestType, Return
  <2> QED  BY <2>1, <2>2, <2>3
<1>8. CASE Play
  <2>1. SenderType' /\ GateType' /\ BufferType' /\ AnchorType'
    BY <1>8 DEF Play, SenderType, senderVars, GateType, gates, BufferType, QueueReady, rxVars,
       AnchorType, timing, anchor
  <2>2. StartedType'  BY <1>8 DEF Play, StartedType, timing, started
  <2>3. HoldType'  BY <1>8 DEF Play, HoldType, timing, rdVars, Consume, Return
  <2>4. RequestType'  BY <1>8 DEF Play, RequestType, Return
  <2> QED  BY <2>1, <2>2, <2>3, <2>4
<1> QED  BY <1>1, <1>2, <1>3, <1>4, <1>5, <1>6, <1>7, <1>8 DEF Read

(* The RTSP task at work.                                                  *)
LEMMA ServeTyped ==
  ASSUME Typed, Serve
  PROVE  Typed'
<1> USE DEF Typed
<1>1. CASE Pause
  <2>1. SenderType' /\ GateType' /\ BufferType' /\ AnchorType'
    BY <1>1 DEF Pause, SenderType, senderVars, GateType, gates, BufferType, QueueReady, rxVars,
       AnchorType, timing, anchor
  <2>2. StartedType'  BY <1>1 DEF Pause, StartedType, timing, started, StopConsumer
  <2>3. HoldType'  BY <1>1 DEF Pause, HoldType, timing, rdVars, StopConsumer
  <2>4. RequestType'  BY <1>1, IdleTyped DEF Pause, RequestType, StopConsumer, Noted
  <2> QED  BY <2>1, <2>2, <2>3, <2>4
<1>2. CASE Resume
  <2>1. SenderType' /\ GateType' /\ BufferType' /\ AnchorType' /\ HoldType'
    BY <1>2 DEF Resume, SenderType, senderVars, GateType, gates, BufferType, QueueReady, rxVars,
       AnchorType, timing, anchor, HoldType, rdVars
  <2>2. StartedType'  BY <1>2 DEF Resume, StartedType, timing, started
  <2>3. RequestType'  BY <1>2, IdleTyped DEF Resume, RequestType
  <2> QED  BY <2>1, <2>2, <2>3
<1>3. CASE SetDeferred
  <2>1. SenderType' /\ GateType' /\ BufferType' /\ StartedType' /\ AnchorType'
    BY <1>3 DEF SetDeferred, SenderType, senderVars, GateType, gates, BufferType, QueueReady,
       rxVars, StartedType, timing, started, AnchorType, anchor
  <2>2. HoldType'  BY <1>3 DEF SetDeferred, HoldType, timing, rdVars, RequestType, Request
  <2>3. RequestType'  BY <1>3, IdleTyped DEF SetDeferred, RequestType, Noted
  <2> QED  BY <2>1, <2>2, <2>3
<1>4. CASE FlushBuffer
  <2>1. SenderType' /\ GateType' /\ StartedType' /\ AnchorType' /\ HoldType'
    BY <1>4 DEF FlushBuffer, SenderType, senderVars, GateType, gates, StartedType, timing,
       started, AnchorType, anchor, HoldType, rdVars
  <2>2. BufferType'  BY <1>4, Constants DEF FlushBuffer, BufferType, QueueReady, rxVars
  <2>3. RequestType'  BY <1>4, GotoTyped DEF FlushBuffer, RequestType, Goto
  <2> QED  BY <2>1, <2>2, <2>3
<1>5. CASE ResetTiming
  <2>1. SenderType' /\ GateType' /\ BufferType'
    BY <1>5 DEF ResetTiming, SenderType, senderVars, GateType, gates, BufferType, QueueReady,
       rxVars
  <2>2. StartedType'  BY <1>5 DEF ResetTiming, StartedType, timing, started
  <2>3. AnchorType'  BY <1>5 DEF ResetTiming, AnchorType, timing, anchor
  <2>4. HoldType'  BY <1>5, Constants DEF ResetTiming, HoldType, timing, rdVars
  <2>5. RequestType'  BY <1>5, GotoTyped DEF ResetTiming, RequestType, Goto
  <2> QED  BY <2>1, <2>2, <2>3, <2>4, <2>5
<1>6. CASE RefuseAll
  <2>1. SenderType' /\ BufferType' /\ AnchorType' /\ HoldType'
    BY <1>6 DEF RefuseAll, SenderType, senderVars, BufferType, QueueReady, rxVars, AnchorType,
       timing, anchor, HoldType, rdVars
  <2>2. GateType'  BY <1>6 DEF RefuseAll, GateType
  <2>3. StartedType'  BY <1>6 DEF RefuseAll, StartedType, timing, started
  <2>4. RequestType'  BY <1>6, IdleTyped DEF RefuseAll, RequestType
  <2> QED  BY <2>1, <2>2, <2>3, <2>4
<1>7. CASE ArmGates
  <2>1. SenderType' /\ StartedType' /\ AnchorType' /\ HoldType'
    BY <1>7 DEF ArmGates, SenderType, senderVars, StartedType, timing, started, AnchorType,
       anchor, HoldType, rdVars
  <2>2. GateType'
    <3>1. SetGates \/ UNCHANGED <<before, above>>  BY <1>7 DEF ArmGates
    <3>2. arm' \in {arm, FALSE} /\ UNCHANGED discard_all  BY <1>7 DEF ArmGates
    <3> QED  BY <3>1, <3>2, GatesTyped DEF GateType, RequestType
  <2>3. BufferType'
    <3>1. buf' = buf \/ buf' = <<>>  BY <1>7 DEF ArmGates
    <3>2. UNCHANGED rxVars  BY <1>7 DEF ArmGates
    <3> QED  BY <3>1, <3>2, BufferKept
  <2>4. RequestType'
    <3>1. rq' \in Request  BY <1>7, GotoTyped, ArmedTyped DEF ArmGates, RequestType, Goto
    <3>2. fresh' \in {fresh, rq.rtp} /\ UNCHANGED since  BY <1>7 DEF ArmGates
    <3> QED  BY <3>1, <3>2 DEF RequestType, Request
  <2> QED  BY <2>1, <2>2, <2>3, <2>4
<1>8. CASE StartAnewArmed
  <2>1. SenderType' /\ BufferType' /\ AnchorType'
    BY <1>8 DEF StartAnewArmed, Anew, SenderType, senderVars, BufferType, QueueReady, rxVars,
       AnchorType, timing, anchor
  <2>2. GateType'
    BY <1>8, Constants DEF StartAnewArmed, GateType, gates, SetGates, Anew, RequestType,
       Request, Stamps
  <2>3. StartedType'  BY <1>8 DEF StartAnewArmed, StartedType, timing, started, Anew
  <2>4. HoldType'  BY <1>8 DEF StartAnewArmed, HoldType, timing, rdVars, Anew
  <2>5. RequestType'  BY <1>8, ArmedTyped DEF StartAnewArmed, RequestType, Anew
  <2> QED  BY <2>1, <2>2, <2>3, <2>4, <2>5
<1>9. CASE OpenBlanket
  <2>1. SenderType' /\ BufferType' /\ StartedType' /\ AnchorType' /\ HoldType'
    BY <1>9 DEF OpenBlanket, SenderType, senderVars, BufferType, QueueReady, rxVars,
       StartedType, timing, started, AnchorType, anchor, HoldType, rdVars
  <2>2. GateType'  BY <1>9 DEF OpenBlanket, GateType, gates
  <2>3. RequestType'  BY <1>9, GotoTyped DEF OpenBlanket, RequestType, Goto
  <2> QED  BY <2>1, <2>2, <2>3
<1>10. CASE DetectSeek
  <2>1. SenderType' /\ GateType' /\ StartedType' /\ AnchorType' /\ HoldType'
    BY <1>10 DEF DetectSeek, SenderType, senderVars, GateType, gates, StartedType, timing,
       started, AnchorType, anchor, HoldType, rdVars
  <2>2. BufferType'
    <3>1. buf' = buf \/ buf' = <<>>  BY <1>10 DEF DetectSeek
    <3>2. UNCHANGED rxVars  BY <1>10 DEF DetectSeek
    <3> QED  BY <3>1, <3>2, BufferKept
  <2>3. RequestType'  BY <1>10, GotoTyped DEF DetectSeek, RequestType, Goto
  <2> QED  BY <2>1, <2>2, <2>3
<1>11. CASE StartAnew
  <2>1. SenderType' /\ BufferType' /\ AnchorType'
    BY <1>11 DEF StartAnew, Anew, SenderType, senderVars, BufferType, QueueReady, rxVars,
       AnchorType, timing, anchor
  <2>2. GateType'
    BY <1>11, Constants DEF StartAnew, GateType, gates, SetGates, Anew, RequestType, Request,
       Stamps
  <2>3. StartedType'  BY <1>11 DEF StartAnew, StartedType, timing, started, Anew
  <2>4. HoldType'  BY <1>11 DEF StartAnew, HoldType, timing, rdVars, Anew
  <2>5. RequestType'  BY <1>11, GotoTyped DEF StartAnew, RequestType, Goto, Anew
  <2> QED  BY <2>1, <2>2, <2>3, <2>4, <2>5
<1>12. CASE StampRtp
  <2>1. SenderType' /\ GateType' /\ BufferType' /\ StartedType' /\ HoldType'
    BY <1>12 DEF StampRtp, SenderType, senderVars, GateType, gates, BufferType, QueueReady,
       rxVars, StartedType, timing, started, HoldType, rdVars
  <2>2. AnchorType'  BY <1>12 DEF StampRtp, AnchorType, timing, anchor, RequestType, Request
  <2>3. RequestType'  BY <1>12, GotoTyped DEF StampRtp, RequestType, Goto
  <2> QED  BY <2>1, <2>2, <2>3
<1>13. CASE StampTime
  <2>1. SenderType' /\ GateType' /\ BufferType' /\ StartedType'
    BY <1>13 DEF StampTime, SenderType, senderVars, GateType, gates, BufferType, QueueReady,
       rxVars, StartedType, timing, started
  <2>2. AnchorType'
    BY <1>13, Constants DEF StampTime, AnchorType, timing, anchor, RequestType, Request
  <2>3. HoldType'  BY <1>13, Constants DEF StampTime, HoldType, timing, rdVars
  <2>4. RequestType'  BY <1>13, GotoTyped DEF StampTime, RequestType, Goto
  <2> QED  BY <2>1, <2>2, <2>3, <2>4
<1>14. CASE SetRate
  <2>1. SenderType' /\ GateType' /\ BufferType' /\ AnchorType'
    BY <1>14 DEF SetRate, SenderType, senderVars, GateType, gates, BufferType, QueueReady,
       rxVars, AnchorType, timing, anchor
  <2>2. StartedType'  BY <1>14 DEF SetRate, StartedType, timing, started, StopConsumer
  <2>3. HoldType'  BY <1>14 DEF SetRate, HoldType, timing, rdVars, StopConsumer
  <2>4. RequestType'  BY <1>14, IdleTyped DEF SetRate, RequestType, StopConsumer, Noted
  <2> QED  BY <2>1, <2>2, <2>3, <2>4
<1>15. CASE ClearGates
  <2>1. SenderType' /\ BufferType' /\ StartedType' /\ AnchorType' /\ HoldType'
    BY <1>15 DEF ClearGates, SenderType, senderVars, BufferType, QueueReady, rxVars,
       StartedType, timing, started, AnchorType, anchor, HoldType, rdVars
  <2>2. GateType'  BY <1>15 DEF ClearGates, GateType
  <2>3. RequestType'  BY <1>15, GotoTyped DEF ClearGates, RequestType, Goto
  <2> QED  BY <2>1, <2>2, <2>3
<1>16. CASE HurryStart
  <2>1. SenderType' /\ GateType' /\ BufferType' /\ AnchorType' /\ HoldType'
    BY <1>16 DEF HurryStart, SenderType, senderVars, GateType, gates, BufferType, QueueReady,
       rxVars, AnchorType, anchor, HoldType, rdVars
  <2>2. StartedType'  BY <1>16 DEF HurryStart, StartedType
  <2>3. RequestType'  BY <1>16, GotoTyped DEF HurryStart, RequestType, Goto
  <2> QED  BY <2>1, <2>2, <2>3
<1> QED
  BY <1>1, <1>2, <1>3, <1>4, <1>5, <1>6, <1>7, <1>8, <1>9, <1>10, <1>11, <1>12, <1>13, <1>14,
     <1>15, <1>16 DEF Serve

(* The requests of the sender.                                             *)
LEMMA AskTyped ==
  ASSUME Typed, Ask
  PROVE  Typed'
<1>1. GateType' /\ BufferType' /\ StartedType' /\ AnchorType' /\ HoldType'
  <2>1. UNCHANGED <<gates, buf, timing, rxVars, rdVars>>
    BY DEF Ask, AskPause, AskResume, AskFlush, AskDeferred, AskAnchor, Arrives
  <2> QED
    BY <2>1 DEF Typed, GateType, gates, BufferType, QueueReady, rxVars, StartedType, timing,
       started, AnchorType,
                anchor, HoldType, rdVars
<1>2. SenderType'
  <2>1. UNCHANGED wire /\ requests' = requests + 1 /\ requests < MaxRequests
    BY DEF Ask, AskPause, AskResume, AskFlush, AskDeferred, AskAnchor, Arrives
  <2>2. UNCHANGED <<track, place, next>> \/ \E r \in Rtps : MovesTo(r)
    BY DEF Ask, AskPause, AskResume, AskFlush, AskDeferred, AskAnchor
  <2>3. requests' \in 0 .. MaxRequests
    BY <2>1, Constants DEF Typed, SenderType
  <2>4. ASSUME NEW r \in Rtps, MovesTo(r)
        PROVE  track' \in 0 .. MaxTrack /\ place' \in Rtps /\ next' \in 1 .. LastRtp + 1
    BY <2>4, Constants DEF Typed, SenderType, MovesTo, Rtps
  <2> QED  BY <2>1, <2>2, <2>3, <2>4 DEF Typed, SenderType
<1>3. RequestType'
  <2>1. fresh' = NONE /\ UNCHANGED since
    BY DEF Ask, AskPause, AskResume, AskFlush, AskDeferred, AskAnchor, Arrives
  <2>2. 0 \in Stamps /\ \A r \in Rtps : r \in Stamps
    BY Constants DEF Rtps, Stamps
  <2>3. ASSUME NEW r \in Rtps, AskFlush(r) \/ AskDeferred(r) PROVE rq' \in Request
    BY <2>2, <2>3, AskedTyped DEF AskFlush, AskDeferred, Arrives
  <2>4. ASSUME NEW r \in Rtps, NEW l \in Leads, AskAnchor(r, l) PROVE rq' \in Request
    BY <2>2, <2>4, AskedTyped DEF AskAnchor, Arrives
  <2>5. rq' \in Request
    <3>1. CASE AskPause  BY <2>2, <3>1, AskedTyped DEF AskPause, Arrives
    <3>2. CASE AskResume  BY <2>2, <3>2, AskedTyped DEF AskResume, Arrives
    <3> QED  BY <2>3, <2>4, <3>1, <3>2 DEF Ask
  <2> QED  BY <2>1, <2>5 DEF Typed, RequestType
<1> QED  BY <1>1, <1>2, <1>3 DEF Typed

LEMMA StutterTyped ==
  ASSUME Typed, UNCHANGED vars
  PROVE  Typed'
  BY DEF Typed, SenderType, senderVars, GateType, gates, BufferType, QueueReady, rxVars,
     StartedType, timing, started,
         AnchorType, anchor, HoldType, rdVars, RequestType, vars

LEMMA StepTyped ==
  ASSUME Typed, [Next]_vars
  PROVE  Typed'
  BY ReceiveTyped, ReadTyped, ServeTyped, AskTyped, StutterTyped DEF Next

(* Every variable keeps its type, and the buffer its limit: no frame is    *)
(* read but for a free place (audio_buffer_is_nearly_full).                *)
THEOREM TypeCorrect == Spec => []TypeOK
<1>1. Typed => TypeOK  BY TypedParts
<1> QED  BY InitTyped, StepTyped, <1>1, PTL DEF Spec
-----------------------------------------------------------------------------
(***************************************************************************)
(* Playout is implemented.  The frames of a track keep the order in which  *)
(* they were sent on their whole way: in the hand or held in the pending   *)
(* slot, in the buffer, with the receive task, and in the socket.          *)
(***************************************************************************)
Older(f, g) == f.track = g.track => f.rtp < g.rtp

InHand == {pending, hand} \ {NONE}
Entering == {rx_frame} \ {NONE}
Within == ToSet(buf) \union InHand

(* Where a frame is: the hand and the slot hold the same one or only one.  *)
HandKnown ==
  /\ hand # NONE <=> rd \in {"deferred", "judge", "hold", "play"}
  /\ rx_frame # NONE <=> rx = "queue"
  /\ rx = "queue" => rd = "idle"
  /\ from_pending => hand # NONE /\ pending \in {hand, NONE}
  /\ hand # NONE /\ ~from_pending => pending = NONE

BufferOrdered == \A i, j \in DOMAIN buf : i < j => buf[i].rtp <= buf[j].rtp /\ Older(buf[i], buf[j])
HandFirst == \A f \in InHand : \A i \in DOMAIN buf : Older(f, buf[i])
EnteringNext == \A f \in Within, g \in Entering : Older(f, g)
WireOrdered ==
  \A i, j \in DOMAIN wire : i < j => Older(wire[i], wire[j]) /\ wire[i].track <= wire[j].track
WireLast == \A f \in Within \union Entering : \A i \in DOMAIN wire : Older(f, wire[i])
AllSent ==
  \A f \in Within \union Entering \union ToSet(wire) :
    f.track <= track /\ (f.track = track => f.rtp < next)

InOrder == BufferOrdered /\ HandFirst /\ EnteringNext /\ WireOrdered /\ WireLast /\ AllSent

-----------------------------------------------------------------------------
(* The elements of sequences.                                              *)
LEMMA TailElements ==
  ASSUME NEW S, NEW s \in Seq(S), s # <<>>
  PROVE  /\ 1 \in DOMAIN s /\ Head(s) = s[1]
         /\ \A i \in DOMAIN Tail(s) :
              i \in Nat /\ i + 1 \in DOMAIN s /\ Tail(s)[i] = s[i + 1] /\ 1 < i + 1
         /\ \A i \in DOMAIN s : i = 1 \/ \E j \in DOMAIN Tail(s) : i = j + 1
<1>1. Tail(s) \in Seq(S) /\ Len(Tail(s)) = Len(s) - 1 /\ Len(s) \in Nat /\ Len(s) >= 1
  OBVIOUS
<1>2. DOMAIN s = 1 .. Len(s) /\ DOMAIN Tail(s) = 1 .. Len(s) - 1
  BY <1>1
<1>3. \A i \in 1 .. Len(s) - 1 : Tail(s)[i] = s[i + 1]
  OBVIOUS
<1>4. \A i \in 1 .. Len(s) : i = 1 \/ i - 1 \in 1 .. Len(s) - 1
  BY <1>1
<1>5. \A i \in 1 .. Len(s) - 1 : i \in Nat /\ i + 1 \in 1 .. Len(s) /\ 1 < i + 1
  BY <1>1
<1>6. \A i \in 1 .. Len(s) : i = (i - 1) + 1
  BY <1>1
<1>7. 1 \in DOMAIN s /\ Head(s) = s[1]
  BY <1>1, <1>2
<1>8. \A i \in DOMAIN Tail(s) :
        i \in Nat /\ i + 1 \in DOMAIN s /\ Tail(s)[i] = s[i + 1] /\ 1 < i + 1
  BY <1>2, <1>3, <1>5, Zenon
<1>9. \A i \in DOMAIN s : i = 1 \/ \E j \in DOMAIN Tail(s) : i = j + 1
  BY <1>2, <1>4, <1>6, Zenon
<1> QED
  BY <1>7, <1>8, <1>9, Zenon

LEMMA AppendElements ==
  ASSUME NEW S, NEW s \in Seq(S), NEW x \in S
  PROVE  \A i \in DOMAIN Append(s, x) :
           \/ i \in DOMAIN s /\ Append(s, x)[i] = s[i]
           \/ Append(s, x)[i] = x /\ i = Len(s) + 1 /\ \A j \in DOMAIN s : j < i
<1>1. DOMAIN Append(s, x) = 1 .. Len(s) + 1 /\ DOMAIN s = 1 .. Len(s) /\ Len(s) \in Nat
  OBVIOUS
<1>2. \A i \in 1 .. Len(s) : Append(s, x)[i] = s[i]
  OBVIOUS
<1>3. Append(s, x)[Len(s) + 1] = x
  OBVIOUS
<1> QED
  BY <1>1, <1>2, <1>3

LEMMA InsertElements ==
  ASSUME NEW S, NEW s \in Seq(S), NEW k \in 0 .. Len(s), NEW x \in S,
         NEW t, t = InsertAt(s, k + 1, x)
  PROVE  /\ DOMAIN t = 1 .. Len(s) + 1 /\ DOMAIN s = 1 .. Len(s)
         /\ \A i \in 1 .. k : t[i] = s[i]
         /\ t[k + 1] = x
         /\ \A i \in k + 2 .. Len(s) + 1 : t[i] = s[i - 1]
<1> DEFINE front == SubSeq(s, 1, k)
           back  == SubSeq(s, k + 1, Len(s))
<1>1. /\ (k + 1) - 1 = k /\ k \in Int /\ k + 1 \in Int /\ Len(s) \in Nat
      /\ \A i \in 1 .. k : s[i] \in S
      /\ \A i \in k + 1 .. Len(s) : s[i] \in S
  OBVIOUS
<1>2. front \in Seq(S) /\ Len(front) = k /\ \A i \in 1 .. k : front[i] = s[i]
  BY <1>1, SubSeqProperties
<1>3. back \in Seq(S) /\ Len(back) = Len(s) - k /\ \A i \in 1 .. Len(s) - k : back[i] = s[k + i]
  BY <1>1, SubSeqProperties
<1>4. t = (front \o <<x>>) \o back
  BY <1>1, Zenon DEF InsertAt
<1> HIDE DEF front, back
<1> DEFINE put == front \o <<x>>
<1>5. put \in Seq(S) /\ Len(put) = k + 1 /\ (\A i \in 1 .. k : put[i] = s[i]) /\ put[k + 1] = x
  <2>1. <<x>> \in Seq(S) /\ Len(<<x>>) = 1 /\ <<x>>[1] = x
    OBVIOUS
  <2>2. put \in Seq(S) /\ Len(put) = k + 1
    BY <1>1, <1>2
  <2>3. \A i \in 1 .. k + 1 : put[i] = IF i <= k THEN front[i] ELSE <<x>>[i - k]
    BY <1>1, <1>2, <2>1, ConcatProperties
  <2>4. \A i \in 1 .. k : put[i] = s[i]
    BY <1>1, <1>2, <2>3
  <2>5. k + 1 \in 1 .. k + 1 /\ ~(k + 1 <= k) /\ (k + 1) - k = 1
    BY <1>1
  <2>6. put[k + 1] = x
    BY <2>1, <2>3, <2>5
  <2> QED
    BY <2>2, <2>4, <2>6
<1> HIDE DEF put
<1>6. (put \o back) \in Seq(S) /\ Len(put \o back) = Len(put) + Len(back)
      /\ (\A i \in 1 .. Len(put) : (put \o back)[i] = put[i])
      /\ (\A i \in Len(put) + 1 .. Len(put) + Len(back) : (put \o back)[i] = back[i - Len(put)])
  <2>1. (put \o back) \in Seq(S) /\ Len(put \o back) = Len(put) + Len(back)
    <3>1. put \in Seq(S) /\ back \in Seq(S)
      BY <1>3, <1>5
    <3> QED
      BY <3>1
  <2>2. \A i \in 1 .. Len(put) + Len(back) :
           (put \o back)[i] = IF i <= Len(put) THEN put[i] ELSE back[i - Len(put)]
    BY <1>3, <1>5, ConcatProperties
  <2>3. Len(put) \in Nat /\ Len(back) \in Nat
    BY <1>3, <1>5
  <2>4. \A i \in 1 .. Len(put) : i \in 1 .. Len(put) + Len(back) /\ i <= Len(put)
    BY <2>3
  <2>5. \A i \in Len(put) + 1 .. Len(put) + Len(back) :
           i \in 1 .. Len(put) + Len(back) /\ ~(i <= Len(put))
    BY <2>3
  <2> QED
    BY <2>1, <2>2, <2>4, <2>5
<1>7. t = put \o back
  BY <1>4 DEF put
<1>8. Len(put) + Len(back) = Len(s) + 1
  BY <1>1, <1>3, <1>5
<1>9. DOMAIN t = 1 .. Len(s) + 1 /\ DOMAIN s = 1 .. Len(s)
  BY <1>6, <1>7, <1>8
<1>10. \A i \in 1 .. k : t[i] = s[i]
  BY <1>1, <1>5, <1>6, <1>7
<1>11. t[k + 1] = x
  BY <1>1, <1>5, <1>6, <1>7
<1>12. ASSUME NEW i \in k + 2 .. Len(s) + 1 PROVE t[i] = s[i - 1]
  <2>1. i \in Len(put) + 1 .. Len(put) + Len(back) /\ i - Len(put) = i - (k + 1)
    BY <1>1, <1>5, <1>8
  <2>2. t[i] = back[i - (k + 1)]
    BY <1>6, <1>7, <2>1
  <2>3. i - (k + 1) \in 1 .. Len(s) - k /\ k + (i - (k + 1)) = i - 1
    BY <1>1
  <2> QED
    BY <1>3, <2>2, <2>3
<1> QED
  BY <1>9, <1>10, <1>11, <1>12

(* What InsertAt leaves where, and what ToSet makes of the changes of a    *)
(* sequence.                                                               *)
LEMMA InsertWhere ==
  ASSUME NEW S, NEW s \in Seq(S), NEW k \in 0 .. Len(s), NEW x \in S,
         NEW t, t = InsertAt(s, k + 1, x), NEW i \in DOMAIN t
  PROVE  \/ i \in 1 .. k /\ i \in DOMAIN s /\ t[i] = s[i]
         \/ i = k + 1 /\ t[i] = x
         \/ i - 1 \in k + 1 .. Len(s) /\ i - 1 \in DOMAIN s /\ t[i] = s[i - 1]
<1>1. /\ DOMAIN t = 1 .. Len(s) + 1 /\ DOMAIN s = 1 .. Len(s)
      /\ \A j \in 1 .. k : t[j] = s[j]
      /\ t[k + 1] = x
      /\ \A j \in k + 2 .. Len(s) + 1 : t[j] = s[j - 1]
  BY InsertElements
<1>2. Len(s) \in Nat /\ i \in 1 .. Len(s) + 1
  BY <1>1
<1>3. CASE i \in 1 .. k
  BY <1>1, <1>2, <1>3
<1>4. CASE i = k + 1
  BY <1>1, <1>4
<1>5. CASE i \in k + 2 .. Len(s) + 1
  <2>1. i - 1 \in k + 1 .. Len(s) /\ i - 1 \in 1 .. Len(s)
    BY <1>2, <1>5
  <2> QED
    BY <1>1, <1>5, <2>1
<1> QED
  BY <1>2, <1>3, <1>4, <1>5

LEMMA SetOfInsert ==
  ASSUME NEW S, NEW s \in Seq(S), NEW k \in 0 .. Len(s), NEW x \in S,
         NEW t, t = InsertAt(s, k + 1, x)
  PROVE  ToSet(t) = ToSet(s) \union {x}
<1>1. ASSUME NEW i \in DOMAIN t PROVE t[i] = x \/ \E j \in DOMAIN s : t[i] = s[j]
  <2>1. \/ i \in 1 .. k /\ i \in DOMAIN s /\ t[i] = s[i]
        \/ i = k + 1 /\ t[i] = x
        \/ i - 1 \in k + 1 .. Len(s) /\ i - 1 \in DOMAIN s /\ t[i] = s[i - 1]
    BY InsertWhere
  <2> QED
    BY <2>1, Zenon
<1>2. /\ DOMAIN t = 1 .. Len(s) + 1 /\ DOMAIN s = 1 .. Len(s)
      /\ \A i \in 1 .. k : t[i] = s[i]
      /\ t[k + 1] = x
      /\ \A i \in k + 2 .. Len(s) + 1 : t[i] = s[i - 1]
  BY InsertElements
<1>3. ASSUME NEW j \in DOMAIN s PROVE \E i \in DOMAIN t : t[i] = s[j]
  <2>1. j \in 1 .. k => j \in DOMAIN t /\ t[j] = s[j]
    BY <1>2
  <2>2. j \in k + 1 .. Len(s) => j + 1 \in DOMAIN t /\ t[j + 1] = s[(j + 1) - 1] /\ (j + 1) - 1 = j
    BY <1>2
  <2>3. j \in 1 .. k \/ j \in k + 1 .. Len(s)
    BY <1>2
  <2> QED
    BY <2>1, <2>2, <2>3
<1>4. k + 1 \in DOMAIN t
  BY <1>2
<1>5. ToSet(t) \subseteq ToSet(s) \union {x}
  BY <1>1 DEF ToSet
<1>6. ToSet(s) \subseteq ToSet(t) /\ x \in ToSet(t)
  BY <1>2, <1>3, <1>4 DEF ToSet
<1> QED
  BY <1>5, <1>6

LEMMA SetOfTail ==
  ASSUME NEW S, NEW s \in Seq(S), s # <<>>
  PROVE  ToSet(s) = {Head(s)} \union ToSet(Tail(s))
<1>1. /\ 1 \in DOMAIN s /\ Head(s) = s[1]
      /\ \A i \in DOMAIN Tail(s) : i + 1 \in DOMAIN s /\ Tail(s)[i] = s[i + 1]
      /\ \A i \in DOMAIN s : i = 1 \/ \E j \in DOMAIN Tail(s) : i = j + 1
  BY TailElements
<1> DEFINE t == Tail(s)
           h == Head(s)
<1>2. /\ 1 \in DOMAIN s /\ h = s[1]
      /\ \A i \in DOMAIN t : i + 1 \in DOMAIN s /\ t[i] = s[i + 1]
      /\ \A i \in DOMAIN s : i = 1 \/ \E j \in DOMAIN t : i = j + 1
  BY <1>1
<1> HIDE DEF t, h
<1>3. ASSUME NEW i \in DOMAIN s PROVE s[i] = h \/ \E j \in DOMAIN t : s[i] = t[j]
  BY <1>2, Zenon
<1>4. ASSUME NEW j \in DOMAIN t PROVE \E i \in DOMAIN s : t[j] = s[i]
  BY <1>2, Zenon
<1>5. \E i \in DOMAIN s : h = s[i]
  BY <1>2, Zenon
<1>6. ToSet(s) \subseteq {h} \union ToSet(t)
  BY <1>3 DEF ToSet
<1>7. ToSet(t) \subseteq ToSet(s) /\ h \in ToSet(s)
  BY <1>4, <1>5 DEF ToSet
<1> QED
  BY <1>6, <1>7 DEF t, h

LEMMA SetOfAppend ==
  ASSUME NEW S, NEW s \in Seq(S), NEW x \in S, NEW t, t = Append(s, x)
  PROVE  ToSet(t) \subseteq ToSet(s) \union {x}
<1> SUFFICES ASSUME NEW i \in DOMAIN t
             PROVE  t[i] = x \/ \E j \in DOMAIN s : t[i] = s[j]
  BY DEF ToSet
<1> QED
  BY AppendElements

LEMMA EmptySet == ToSet(<<>>) = {} /\ DOMAIN <<>> = {}
  BY DEF ToSet
-----------------------------------------------------------------------------
LEMMA FramesTyped ==
  ASSUME Typed
  PROVE  /\ buf \in Seq(Frames) /\ wire \in Seq(Frames)
         /\ ToSet(buf) \subseteq Frames /\ ToSet(wire) \subseteq Frames
         /\ InHand \subseteq Frames /\ Entering \subseteq Frames
         /\ \A f \in Frames : f.track \in Nat /\ f.rtp \in Nat
         /\ NONE \notin Frames
<1>1. buf \in Seq(Frames) /\ wire \in Seq(Frames)
  BY DEF Typed, BufferType, SenderType
<1>2. InHand \subseteq Frames /\ Entering \subseteq Frames
  BY DEF Typed, HoldType, BufferType, InHand, Entering
<1>3. \A f \in Frames : f.track \in Nat /\ f.rtp \in Nat
  BY Constants DEF Frames, Rtps
<1>4. ToSet(buf) \subseteq Frames /\ ToSet(wire) \subseteq Frames
  BY <1>1 DEF ToSet
<1> QED
  BY <1>1, <1>2, <1>3, <1>4, PipelineAssumption

LEMMA InitHandKnown == Init => HandKnown
  BY DEF Init, HandKnown

LEMMA OthersHandKnown ==
  ASSUME Typed, HandKnown, Send \/ ReceiveFrame \/ Ask \/ Serve \/ Tick \/ WaitEnds
  PROVE  HandKnown'
<1>1. CASE UNCHANGED <<rxVars, rdVars>> /\ pending' \in {pending, NONE}
  BY <1>1 DEF HandKnown, rxVars, rdVars
<1>2. CASE ReadFrame
  <2>1. Head(wire) # NONE
    BY <1>2, FramesTyped DEF ReadFrame
  <2>2. rd = "idle" /\ UNCHANGED <<rdVars, pending>>
    BY <1>2 DEF ReadFrame, timing
  <2>3. UNCHANGED rxVars \/ (rx' = "queue" /\ rx_frame' = Head(wire))
    BY <1>2 DEF ReadFrame
  <2> QED
    BY <2>1, <2>2, <2>3 DEF HandKnown, rxVars, rdVars
<1>3. CASE Queue
  BY <1>3 DEF Queue, HandKnown, rdVars, timing
<1>4. Send \/ Ask \/ Tick \/ WaitEnds => UNCHANGED <<rxVars, rdVars, pending>>
  BY DEF Send, Ask, AskPause, AskResume, AskFlush, AskDeferred, AskAnchor, Arrives, Tick, WaitEnds,
     timing
<1>5. Serve => UNCHANGED <<rxVars, rdVars>> /\ pending' \in {pending, NONE}
  BY DEF Serve, Pause, Resume, SetDeferred, FlushBuffer, ResetTiming, ClearGates, HurryStart,
     RefuseAll, ArmGates, StartAnewArmed, OpenBlanket, DetectSeek, StartAnew, Anew, StampRtp, StampTime, SetRate,
     StopConsumer, timing
<1> QED
  BY <1>1, <1>2, <1>3, <1>4, <1>5 DEF ReceiveFrame

LEMMA ReadHandKnown ==
  ASSUME Typed, HandKnown, Read
  PROVE  HandKnown'
<1> USE DEF HandKnown, rxVars, rdVars, Return, timing
<1>1. CASE StartRead  BY <1>1 DEF StartRead
<1>2. CASE StartWaiting  BY <1>2 DEF StartWaiting
<1>3. CASE Take
  <2>1. buf # <<>> => Head(buf) # NONE
    BY FramesTyped
  <2> QED
    BY <1>3, <2>1 DEF Take
<1>4. CASE TestDeferred  BY <1>4 DEF TestDeferred, Consume
<1>5. CASE RestartPlayout  BY <1>5 DEF RestartPlayout
<1>6. CASE Judge
  <2>1. CASE PlayNow  BY <1>6, <2>1 DEF Judge, PlayNow
  <2>2. CASE DropLate  BY <1>6, <2>2 DEF Judge, DropLate, Consume
  <2>3. CASE KeepEarly
    <3>1. \/ rd' \in {"play", "hold"} /\ UNCHANGED <<hand, from_pending, pending>>
          \/ rd' = "idle" /\ hand' = NONE /\ from_pending' = FALSE
      BY <1>6, <2>3, Zenon DEF Judge, KeepEarly
    <3>2. rd = "judge" /\ UNCHANGED <<rx, rx_frame>>
      BY <1>6 DEF Judge
    <3> QED
      BY <3>1, <3>2
  <2> QED  BY <1>6, <2>1, <2>2, <2>3 DEF Judge
<1>7. CASE Hold  BY <1>7 DEF Hold
<1>8. CASE Play  BY <1>8 DEF Play, Consume
<1> QED  BY <1>1, <1>2, <1>3, <1>4, <1>5, <1>6, <1>7, <1>8 DEF Read
-----------------------------------------------------------------------------
LEMMA InitInOrder == Init => InOrder
<1> SUFFICES ASSUME Init PROVE InOrder
  OBVIOUS
<1>1. /\ Within = {} /\ Entering = {} /\ ToSet(wire) = {} /\ InHand = {}
      /\ DOMAIN buf = {} /\ DOMAIN wire = {}
  BY EmptySet DEF Init, Within, Entering, InHand
<1> QED
  BY <1>1 DEF InOrder, BufferOrdered, HandFirst, EnteringNext, WireOrdered, WireLast, AllSent

(* Most steps take frames away at most: from the hand, or all of the       *)
(* buffer.                                                                 *)
Quiet ==
  /\ UNCHANGED <<rx_frame, wire, track, next>>
  /\ buf' \in {buf, <<>>} /\ InHand' \subseteq InHand

LEMMA FewerInOrder ==
  ASSUME InOrder, UNCHANGED <<rx_frame, wire, track, next>>, Within' \subseteq Within,
         BufferOrdered', HandFirst'
  PROVE  InOrder'
<1>1. Entering' = Entering
  BY DEF Entering
<1>2. EnteringNext' /\ WireLast'
  BY <1>1 DEF InOrder, EnteringNext, WireLast, Older
<1>3. WireOrdered' /\ AllSent'
  BY <1>1 DEF InOrder, WireOrdered, AllSent, Older
<1> QED
  BY <1>2, <1>3 DEF InOrder

LEMMA QuietInOrder ==
  ASSUME InOrder, Quiet
  PROVE  InOrder'
<1>1. Within' \subseteq Within
  BY EmptySet DEF Quiet, Within
<1>2. BufferOrdered' /\ HandFirst'
  <2>1. CASE buf' = buf
    BY <2>1 DEF Quiet, InOrder, BufferOrdered, HandFirst, Older
  <2>2. CASE buf' = <<>>
    BY <2>2, EmptySet DEF BufferOrdered, HandFirst
  <2> QED
    BY <2>1, <2>2 DEF Quiet
<1> QED
  BY <1>1, <1>2, FewerInOrder DEF Quiet

(* A frame is sent: it comes after all that were sent before.              *)
LEMMA SendInOrder ==
  ASSUME Typed, InOrder, Send
  PROVE  InOrder'
<1> DEFINE f == [rtp |-> next, track |-> track]
<1>1. /\ UNCHANGED <<buf, pending, hand, rx_frame, track>> /\ next' = next + 1
      /\ wire' = Append(wire, f) /\ f \in Frames
      /\ next \in Nat /\ track \in Nat
  <2>1. next \in Rtps /\ track \in 0 .. MaxTrack
    BY DEF Typed, SenderType, Send
  <2> QED
    BY <2>1, Constants DEF Send, timing, rdVars, rxVars, Frames, Rtps
<1>2. f.rtp = next /\ f.track = track
  OBVIOUS
<1> HIDE DEF f
<1>3. Within' = Within /\ Entering' = Entering /\ InHand' = InHand
  BY <1>1 DEF Within, Entering, InHand
<1>4. wire \in Seq(Frames) /\ Within \union Entering \union ToSet(wire) \subseteq Frames
      /\ \A g \in Frames : g.track \in Nat /\ g.rtp \in Nat
  BY FramesTyped DEF Within
<1>5. \A g \in Within \union Entering \union ToSet(wire) : Older(g, f) /\ g.track <= f.track
  BY <1>2, <1>4 DEF InOrder, AllSent, Older
<1>6. ToSet(wire') \subseteq ToSet(wire) \union {f}
  BY <1>1, <1>4, SetOfAppend
<1>7. BufferOrdered' /\ HandFirst' /\ EnteringNext'
  BY <1>1, <1>3 DEF InOrder, BufferOrdered, HandFirst, EnteringNext, Older
<1>8. AllSent'
  <2>1. \A g \in Within \union Entering \union ToSet(wire) :
           g.track <= track /\ (g.track = track => g.rtp < next + 1)
    BY <1>1, <1>4 DEF InOrder, AllSent
  <2>2. f.track <= track /\ (f.track = track => f.rtp < next + 1)
    BY <1>1, <1>2
  <2> QED
    BY <1>1, <1>3, <1>6, <2>1, <2>2 DEF AllSent
<1>9. \A i \in DOMAIN wire' :
         \/ i \in DOMAIN wire /\ wire'[i] = wire[i]
         \/ wire'[i] = f /\ i = Len(wire) + 1 /\ \A j \in DOMAIN wire : j < i
  BY <1>1, <1>4, AppendElements
<1>10. \A i \in DOMAIN wire : wire[i] \in ToSet(wire) /\ i \in 1 .. Len(wire) /\ Len(wire) \in Nat
  BY <1>4 DEF ToSet
<1>11. WireLast'
  BY <1>3, <1>5, <1>9 DEF InOrder, WireLast, Older
<1>12. WireOrdered'
  <2> SUFFICES ASSUME NEW i \in DOMAIN wire', NEW j \in DOMAIN wire', i < j
               PROVE  Older(wire'[i], wire'[j]) /\ wire'[i].track <= wire'[j].track
    BY DEF WireOrdered, Older
  <2>1. CASE i \in DOMAIN wire /\ wire'[i] = wire[i] /\ j \in DOMAIN wire /\ wire'[j] = wire[j]
    BY <2>1 DEF InOrder, WireOrdered
  <2>2. CASE i \in DOMAIN wire /\ wire'[i] = wire[i] /\ wire'[j] = f
    BY <2>2, <1>5, <1>10
  <2>3. CASE i = Len(wire) + 1
    <3>1. j \in 1 .. Len(wire) \/ j = Len(wire) + 1
      BY <1>9, <1>10
    <3>2. Len(wire) \in Nat
      BY <1>4
    <3> QED
      BY <2>3, <3>1, <3>2
  <2> QED
    BY <1>9, <2>1, <2>2, <2>3
<1> QED
  BY <1>7, <1>8, <1>11, <1>12 DEF InOrder

(* A frame is read from the socket, and refused or taken on.               *)
LEMMA ReadFrameInOrder ==
  ASSUME Typed, HandKnown, InOrder, ReadFrame
  PROVE  InOrder'
<1>1. /\ UNCHANGED <<buf, pending, hand, track, next>> /\ wire # <<>> /\ wire' = Tail(wire)
      /\ UNCHANGED rx_frame \/ rx_frame' = Head(wire)
  BY DEF ReadFrame, timing, rdVars, rxVars
<1>2. wire \in Seq(Frames) /\ Within \union Entering \union ToSet(wire) \subseteq Frames
  BY FramesTyped DEF Within
<1>3. Within' = Within /\ InHand' = InHand /\ Entering' \subseteq Entering \union {Head(wire)}
  BY <1>1 DEF Within, InHand, Entering
<1>4. /\ 1 \in DOMAIN wire /\ Head(wire) = wire[1]
      /\ \A i \in DOMAIN wire' :
           i \in Nat /\ i + 1 \in DOMAIN wire /\ wire'[i] = wire[i + 1] /\ 1 < i + 1
  BY <1>1, <1>2, TailElements
<1>5. ToSet(wire) = {Head(wire)} \union ToSet(wire')
  BY <1>1, <1>2, SetOfTail
<1> DEFINE h == Head(wire)
<1>6. BufferOrdered' /\ HandFirst'
  BY <1>1, <1>3 DEF InOrder, BufferOrdered, HandFirst, Older
<1>7. EnteringNext'
  <2>1. \A f \in Within : Older(f, wire[1])
    BY <1>4 DEF InOrder, WireLast
  <2> QED
    BY <1>3, <1>4, <2>1 DEF InOrder, EnteringNext, Older
<1>8. WireOrdered'
  <2>1. \A i, j \in DOMAIN wire' : i < j => i + 1 < j + 1
    BY <1>4
  <2> QED
    BY <1>4, <2>1 DEF InOrder, WireOrdered, Older
<1>9. WireLast'
  <2>1. \A i \in DOMAIN wire' : Older(wire[1], wire[i + 1])
    BY <1>4 DEF InOrder, WireOrdered
  <2> QED
    BY <1>3, <1>4, <2>1 DEF InOrder, WireLast, Older
<1>10. AllSent'
  BY <1>1, <1>3, <1>5 DEF InOrder, AllSent
<1> QED
  BY <1>6, <1>7, <1>8, <1>9, <1>10 DEF InOrder

(* The frame is queued: it may come before frames of another track only.   *)
LEMMA QueueInOrder ==
  ASSUME Typed, HandKnown, InOrder, Queue
  PROVE  InOrder'
<1>1. UNCHANGED <<pending, hand, wire, track, next>> /\ rx = "queue" /\ rx_frame' = NONE
  BY DEF Queue, timing, rdVars, senderVars
<1>2. /\ buf \in Seq(Frames) /\ rx_frame \in Frames /\ Within \union Entering \subseteq Frames
      /\ rx_frame \in Entering
      /\ \A f \in Frames : f.track \in Nat /\ f.rtp \in Nat
  BY <1>1, FramesTyped DEF HandKnown, Entering, Within
<1>3. PICK k \in 0 .. Len(buf) :
        /\ \A i \in 1 .. k : buf[i].rtp < rx_frame.rtp
        /\ \A i \in k + 1 .. Len(buf) : buf[i].rtp >= rx_frame.rtp
        /\ buf' = InsertAt(buf, k + 1, rx_frame)
  BY DEF Queue
<1>4. ToSet(buf') \subseteq ToSet(buf) \union {rx_frame}
  BY <1>2, <1>3, SetOfInsert
<1>5. Entering' = {} /\ InHand' = InHand /\ Within' \subseteq Within \union Entering
  BY <1>1, <1>2, <1>4 DEF Entering, InHand, Within
<1>6. \A i \in DOMAIN buf' :
        \/ i \in 1 .. k /\ i \in DOMAIN buf /\ buf'[i] = buf[i]
        \/ i = k + 1 /\ buf'[i] = rx_frame
        \/ i - 1 \in k + 1 .. Len(buf) /\ i - 1 \in DOMAIN buf /\ buf'[i] = buf[i - 1]
  BY <1>2, <1>3, InsertWhere
<1>7. \A i \in DOMAIN buf : i \in Int /\ buf[i] \in ToSet(buf) /\ buf[i] \in Frames
  BY <1>2 DEF ToSet
<1>8. \A f \in Within : Older(f, rx_frame)
  BY <1>2 DEF InOrder, EnteringNext
<1>9. EnteringNext' /\ WireLast' /\ WireOrdered' /\ AllSent'
  BY <1>1, <1>5 DEF InOrder, EnteringNext, WireLast, WireOrdered, AllSent, Older
<1>10. HandFirst'
  BY <1>5, <1>6, <1>8 DEF InOrder, HandFirst, Within, Older
<1>11. \A i \in k + 1 .. Len(buf) : i \in DOMAIN buf => Older(rx_frame, buf[i])
  <2> SUFFICES ASSUME NEW i \in k + 1 .. Len(buf), i \in DOMAIN buf, buf[i].track = rx_frame.track
               PROVE  FALSE
    BY DEF Older
  <2>1. buf[i].rtp < rx_frame.rtp
    BY <1>7, <1>8 DEF Older, Within
  <2>2. buf[i].rtp >= rx_frame.rtp
    BY <1>3
  <2> QED
    BY <1>2, <1>7, <2>1, <2>2
<1>12. BufferOrdered'
  <2> SUFFICES ASSUME NEW i \in DOMAIN buf', NEW j \in DOMAIN buf', i < j
               PROVE  buf'[i].rtp <= buf'[j].rtp /\ Older(buf'[i], buf'[j])
    BY DEF BufferOrdered, Older
  <2>1. k \in Nat /\ Len(buf) \in Nat
    BY <1>2
  <2>2. CASE i \in 1 .. k /\ i \in DOMAIN buf /\ buf'[i] = buf[i]
    <3>1. CASE j \in DOMAIN buf /\ buf'[j] = buf[j]
      BY <2>2, <3>1 DEF InOrder, BufferOrdered
    <3>2. CASE j = k + 1 /\ buf'[j] = rx_frame
      <4>1. buf[i].rtp < rx_frame.rtp /\ buf[i] \in Frames /\ buf[i] \in Within
        BY <1>3, <1>7, <2>2 DEF Within
      <4> QED
        BY <1>2, <1>8, <2>2, <3>2, <4>1
    <3>3. CASE j - 1 \in k + 1 .. Len(buf) /\ j - 1 \in DOMAIN buf /\ buf'[j] = buf[j - 1]
      <4>1. i < j - 1
        BY <2>1, <2>2, <3>3
      <4> QED
        BY <2>2, <3>3, <4>1 DEF InOrder, BufferOrdered
    <3> QED
      BY <1>6, <3>1, <3>2, <3>3
  <2>3. CASE i = k + 1 /\ buf'[i] = rx_frame
    <3>1. j - 1 \in k + 1 .. Len(buf) /\ j - 1 \in DOMAIN buf /\ buf'[j] = buf[j - 1]
      BY <1>6, <2>1, <2>3
    <3>2. buf[j - 1].rtp >= rx_frame.rtp /\ buf[j - 1] \in Frames
      BY <1>3, <1>7, <3>1
    <3> QED
      BY <1>2, <1>11, <2>3, <3>1, <3>2
  <2>4. CASE i - 1 \in k + 1 .. Len(buf) /\ i - 1 \in DOMAIN buf /\ buf'[i] = buf[i - 1]
    <3>1. j - 1 \in k + 1 .. Len(buf) /\ j - 1 \in DOMAIN buf /\ buf'[j] = buf[j - 1]
      BY <1>6, <2>1, <2>4
    <3>2. i - 1 < j - 1
      BY <2>1, <2>4, <3>1
    <3> QED
      BY <2>4, <3>1, <3>2 DEF InOrder, BufferOrdered
  <2> QED
    BY <1>6, <2>2, <2>3, <2>4
<1> QED
  BY <1>9, <1>10, <1>12 DEF InOrder

(* The oldest frame is taken from the buffer.                              *)
LEMMA TakeInOrder ==
  ASSUME Typed, InOrder, pending = NONE, hand = NONE, buf # <<>>,
         hand' = Head(buf), buf' = Tail(buf), UNCHANGED <<pending, rx_frame, wire, track, next>>
  PROVE  InOrder'
<1>1. buf \in Seq(Frames)
  BY FramesTyped
<1>2. /\ 1 \in DOMAIN buf /\ Head(buf) = buf[1]
      /\ \A i \in DOMAIN buf' :
           i \in Nat /\ i + 1 \in DOMAIN buf /\ buf'[i] = buf[i + 1] /\ 1 < i + 1
  BY <1>1, TailElements
<1>3. InHand' \subseteq {Head(buf)}
  BY DEF InHand
<1>4. Within' \subseteq Within
  BY <1>1, <1>3, SetOfTail DEF Within
<1>5. BufferOrdered'
  <2>1. \A i, j \in DOMAIN buf' : i < j => i + 1 < j + 1
    BY <1>2
  <2> QED
    BY <1>2, <2>1 DEF InOrder, BufferOrdered, Older
<1>6. HandFirst'
  <2>1. \A i \in DOMAIN buf' : Older(buf[1], buf[i + 1])
    BY <1>2 DEF InOrder, BufferOrdered
  <2> QED
    BY <1>2, <1>3, <2>1 DEF HandFirst, Older
<1> QED
  BY <1>4, <1>5, <1>6, FewerInOrder

LEMMA ReadInOrder ==
  ASSUME Typed, HandKnown, InOrder, Read
  PROVE  InOrder'
<1> USE DEF Quiet, InHand, rxVars, rdVars, senderVars, Return, timing
<1>1. CASE StartRead  BY <1>1, QuietInOrder DEF StartRead
<1>2. CASE StartWaiting  BY <1>2, QuietInOrder DEF StartWaiting
<1>3. CASE Take
  <2>1. rd = "take" /\ hand = NONE /\ UNCHANGED <<pending, rx_frame, wire, track, next>>
    BY <1>3 DEF Take, HandKnown
  <2>2. CASE pending = NONE /\ buf # <<>>
    BY <1>3, <2>1, <2>2, TakeInOrder DEF Take
  <2>3. CASE ~(pending = NONE /\ buf # <<>>)
    BY <1>3, <2>1, <2>3, QuietInOrder DEF Take
  <2> QED
    BY <2>2, <2>3
<1>4. CASE TestDeferred  BY <1>4, QuietInOrder DEF TestDeferred, Consume
<1>5. CASE RestartPlayout  BY <1>5, QuietInOrder DEF RestartPlayout
<1>6. CASE Judge
  <2>1. UNCHANGED <<rx_frame, wire, track, next, buf>>
    BY <1>6 DEF Judge
  <2>2. hand' \in {hand, NONE} /\ pending' \in {pending, NONE}
    <3>1. CASE PlayNow  BY <3>1 DEF PlayNow
    <3>2. CASE DropLate  BY <3>2 DEF DropLate, Consume
    <3>3. CASE KeepEarly  BY <3>3, Zenon DEF KeepEarly
    <3> QED  BY <1>6, <3>1, <3>2, <3>3 DEF Judge
  <2> QED  BY <2>1, <2>2, QuietInOrder
<1>7. CASE Hold  BY <1>7, QuietInOrder DEF Hold
<1>8. CASE Play  BY <1>8, QuietInOrder DEF Play, Consume
<1> QED  BY <1>1, <1>2, <1>3, <1>4, <1>5, <1>6, <1>7, <1>8 DEF Read

LEMMA ServeQuiet ==
  ASSUME Serve
  PROVE  /\ UNCHANGED <<hand, rd, from_pending, rx, rx_frame, wire, track, next>>
         /\ buf' \in {buf, <<>>} /\ pending' \in {pending, NONE}
  BY DEF Serve, Pause, Resume, SetDeferred, FlushBuffer, ResetTiming, ClearGates, HurryStart,
     RefuseAll, ArmGates, StartAnewArmed, OpenBlanket, DetectSeek, StartAnew, Anew, StampRtp, StampTime, SetRate,
     StopConsumer, timing, rdVars, rxVars, senderVars

(* A request: the sender may go on with a new track.                       *)
LEMMA AskInOrder ==
  ASSUME Typed, InOrder, Ask
  PROVE  InOrder'
<1>1. /\ UNCHANGED <<buf, pending, hand, rx_frame, wire>>
      /\ UNCHANGED <<track, next>> \/ track' = track + 1
  BY DEF Ask, AskPause, AskResume, AskFlush, AskDeferred, AskAnchor, Arrives, MovesTo,
     timing, rdVars, rxVars
<1>2. /\ track \in Nat /\ Within \union Entering \union ToSet(wire) \subseteq Frames
      /\ \A f \in Frames : f.track \in Nat
  BY FramesTyped DEF Within, Typed, SenderType
<1>3. Within' = Within /\ Entering' = Entering /\ InHand' = InHand
  BY <1>1 DEF Within, Entering, InHand
<1>4. BufferOrdered' /\ HandFirst' /\ EnteringNext' /\ WireOrdered' /\ WireLast'
  BY <1>1, <1>3 DEF InOrder, BufferOrdered, HandFirst, EnteringNext, WireOrdered, WireLast, Older
<1>5. AllSent'
  BY <1>1, <1>2, <1>3 DEF InOrder, AllSent
<1> QED
  BY <1>4, <1>5 DEF InOrder

LEMMA OthersInOrder ==
  ASSUME InOrder, Tick \/ WaitEnds \/ UNCHANGED vars
  PROVE  InOrder'
<1>1. UNCHANGED <<buf, pending, hand, rx_frame, wire, track, next>>
  BY DEF Tick, WaitEnds, vars, senderVars, timing, rdVars, rxVars
<1> QED
  BY <1>1, QuietInOrder DEF Quiet, InHand

(* The invariant of the order.                                             *)
Ordered == Typed /\ HandKnown /\ InOrder

LEMMA StepOrdered ==
  ASSUME Ordered, [Next]_vars
  PROVE  Ordered'
<1> USE DEF Ordered
<1>1. Typed'
  BY StepTyped
<1>2. HandKnown'
  <2>1. CASE UNCHANGED vars
    BY <2>1 DEF HandKnown, vars, rxVars, rdVars, timing
  <2> QED
    BY <2>1, OthersHandKnown, ReadHandKnown DEF Next
<1>3. InOrder'
  <2>1. CASE Serve
    BY <2>1, ServeQuiet, QuietInOrder DEF Quiet, InHand
  <2> QED
    BY <2>1, SendInOrder, ReadFrameInOrder, QueueInOrder, ReadInOrder, AskInOrder, OthersInOrder
    DEF Next, ReceiveFrame
<1> QED
  BY <1>1, <1>2, <1>3

LEMMA AlwaysOrdered == Spec => []Ordered
<1>1. Init => Ordered
  BY InitTyped, InitHandKnown, InitInOrder DEF Ordered
<1> QED
  BY <1>1, StepOrdered, PTL DEF Spec
-----------------------------------------------------------------------------
(***************************************************************************)
(* The refinement: what is to come has not been sent, or is in the socket  *)
(* or with the receive task; what may still be heard is in the buffer and, *)
(* until it is heard, in the hand or the slot.                             *)
(***************************************************************************)
Coming == Unsent \union ToSet(wire) \union Entering
Waiting == (ToSet(buf) \union Held) \ (IF rd = "play" THEN {hand} ELSE {})
Speaker == IF rd = "play" THEN hand ELSE NONE

(* While a frame is heard neither the slot nor the buffer offers it again. *)
LEMMA WhatWaits ==
  ASSUME Ordered
  PROVE  /\ rd # "play" => Waiting = ToSet(buf) \union InHand
         /\ rd = "play" => Waiting = ToSet(buf)
         /\ hand # NONE => InHand = {hand} /\ hand \notin ToSet(buf)
         /\ hand # NONE => \A g \in ToSet(buf) : Older(hand, g)
<1>1. hand # NONE => InHand = {hand}
  BY DEF Ordered, HandKnown, InHand
<1>2. ToSet(buf) \union InHand \subseteq Frames /\ \A f \in Frames : f.rtp \in Nat
  BY FramesTyped DEF Ordered
<1>3. hand # NONE => \A g \in ToSet(buf) : Older(hand, g)
  BY <1>1 DEF Ordered, InOrder, HandFirst, ToSet
<1>4. hand # NONE => hand \notin ToSet(buf)
  BY <1>1, <1>2, <1>3 DEF Older
<1>5. rd # "play" => Waiting = ToSet(buf) \union InHand
  BY DEF Waiting, Held, InHand
<1>6. ASSUME rd = "play" PROVE Waiting = ToSet(buf)
  <2>1. hand # NONE /\ Held \subseteq {hand}
    BY <1>1, <1>6 DEF Ordered, HandKnown, Held, InHand
  <2> QED
    BY <1>4, <1>6, <2>1 DEF Waiting
<1> QED
  BY <1>1, <1>3, <1>4, <1>5, <1>6

(* What is to come lies behind what is in the buffer and in the hand, and  *)
(* what has not been read behind what has.                                 *)
LEMMA UnreadLast ==
  ASSUME Ordered, NEW f \in Within \union Entering
  PROVE  \A g \in Unsent \union ToSet(wire) : Older(f, g)
<1>1. ASSUME NEW g \in Unsent PROVE Older(f, g)
  <2>1. f.track <= track /\ (f.track = track => f.rtp < next)
    BY DEF Ordered, InOrder, AllSent
  <2>2. g.track > track \/ (g.track = track /\ g.rtp >= next)
    BY DEF Unsent
  <2>3. /\ f.track \in Nat /\ f.rtp \in Nat /\ g.track \in Nat /\ g.rtp \in Nat
        /\ track \in Nat /\ next \in Nat
    BY FramesTyped DEF Ordered, Typed, SenderType, Unsent, Within
  <2> QED
    BY <2>1, <2>2, <2>3 DEF Older
<1>2. \A g \in ToSet(wire) : Older(f, g)
  BY DEF Ordered, InOrder, WireLast, ToSet
<1> QED
  BY <1>1, <1>2

LEMMA ComingLast ==
  ASSUME Ordered, NEW f \in Within
  PROVE  \A g \in Coming : Older(f, g)
  BY UnreadLast DEF Coming, Ordered, InOrder, EnteringNext

LEMMA GivesUp ==
  ASSUME Coming' \subseteq Coming, Waiting' \subseteq Waiting, Speaker' = Speaker
  PROVE  [Promise!Next]_(Promise!vars)
  BY DEF Coming, Entering, Waiting, Speaker, Promise!Next, Promise!GiveUp

(* Frames leave the hand or the buffer and none is heard or taken.         *)
LEMMA QuietGivesUp ==
  ASSUME Ordered, Ordered', rd # "play", rd' # "play", Coming' = Coming,
         buf' \in {buf, <<>>}, InHand' \subseteq InHand
  PROVE  [Promise!Next]_(Promise!vars)
<1>1. Waiting = ToSet(buf) \union InHand /\ Waiting' = ToSet(buf') \union InHand'
  BY WhatWaits DEF Waiting, Held, InHand
<1>2. Waiting' \subseteq Waiting
  BY <1>1, EmptySet
<1> QED
  BY <1>2, GivesUp DEF Speaker

LEMMA ComingKept ==
  ASSUME UNCHANGED <<wire, track, next, rx_frame>>
  PROVE  Coming' = Coming
  BY DEF Coming, Unsent, Entering

(* The frame takes its place behind what waits; the rest that is to come   *)
(* was behind it.                                                          *)
LEMMA QueueEnters ==
  ASSUME Ordered, Ordered', Queue
  PROVE  [Promise!Next]_(Promise!vars)
<1>1. /\ rx = "queue" /\ rd = "idle" /\ rd' = "idle" /\ UNCHANGED <<pending, hand>>
      /\ rx_frame' = NONE /\ UNCHANGED <<wire, track, next>>
  BY DEF Queue, Ordered, HandKnown, timing, rdVars, senderVars
<1>2. rx_frame \in Frames /\ rx_frame \in Entering /\ buf \in Seq(Frames)
  BY <1>1, FramesTyped DEF Ordered, HandKnown, Entering
<1>3. ToSet(buf') = ToSet(buf) \union {rx_frame}
  BY <1>2, SetOfInsert DEF Queue
<1>4. Waiting = Within /\ Waiting' = Waiting \union {rx_frame}
  BY <1>1, <1>3 DEF Waiting, Held, Within, InHand
<1>5. Waiting \subseteq Promise!Earlier(rx_frame)
  BY <1>2, <1>4, FramesTyped DEF Ordered, InOrder, EnteringNext, Older, Within, Promise!Earlier
<1>6. rx_frame \in Coming /\ Coming' \subseteq Coming
  BY <1>1, <1>2 DEF Coming, Entering, Unsent
<1>7. Coming' = Unsent \union ToSet(wire) /\ Coming' \subseteq Frames
  BY <1>1, FramesTyped DEF Coming, Entering, Unsent, Ordered
<1>8. Coming' \subseteq Promise!Later(rx_frame)
  BY <1>2, <1>7, UnreadLast DEF Older, Promise!Later
<1>9. Speaker' = Speaker
  BY <1>1 DEF Speaker
<1>10. Promise!Enter(rx_frame)
  BY <1>4, <1>5, <1>6, <1>8, <1>9 DEF Coming, Entering, Waiting, Speaker, Promise!Enter
<1> QED
  BY <1>2, <1>10 DEF Promise!Next

LEMMA JudgeHears ==
  ASSUME Ordered, Ordered', Judge, rd' = "play"
  PROVE  [Promise!Next]_(Promise!vars)
<1>1. rd = "judge" /\ UNCHANGED <<buf, hand, pending>> /\ hand # NONE
  <2>1. rd = "judge" /\ UNCHANGED buf
    BY DEF Judge
  <2>2. UNCHANGED <<hand, pending>>
    <3>1. CASE PlayNow  BY <3>1 DEF PlayNow
    <3>2. CASE DropLate  BY <3>2 DEF DropLate
    <3>3. CASE KeepEarly  BY <3>3, Zenon DEF KeepEarly, Return
    <3> QED  BY <3>1, <3>2, <3>3 DEF Judge
  <2> QED
    BY <2>1, <2>2 DEF Ordered, HandKnown
<1>2. /\ Waiting = ToSet(buf) \union {hand} /\ hand \notin ToSet(buf)
      /\ \A g \in ToSet(buf) : Older(hand, g)
  BY <1>1, WhatWaits
<1>3. Waiting' = Waiting \ {hand}
  BY <1>1 DEF Waiting, Held
<1>4. hand \in Frames /\ hand \in Within /\ Waiting \subseteq Frames
  BY <1>1, <1>2, FramesTyped DEF Ordered, InHand, Within
<1>5. Coming' = Coming /\ Coming \subseteq Frames
  <2>1. Coming' = Coming
    BY ComingKept DEF Judge, senderVars, rxVars
  <2>2. Coming \subseteq Frames
    BY FramesTyped DEF Ordered, Coming, Unsent
  <2> QED
    BY <2>1, <2>2
<1>6. \A g \in Coming : Older(hand, g)
  BY <1>4, ComingLast
<1>7. Coming \union (Waiting \ {hand}) \subseteq Promise!Later(hand)
  BY <1>2, <1>4, <1>5, <1>6, FramesTyped DEF Ordered, Older, Promise!Later
<1>8. Speaker = NONE /\ Speaker' = hand
  BY <1>1 DEF Speaker
<1>9. Promise!Hear(hand)
  BY <1>2, <1>3, <1>5, <1>7, <1>8 DEF Coming, Entering, Waiting, Speaker, Promise!Hear
<1> QED
  BY <1>4, <1>9 DEF Promise!Next

LEMMA PlayIsDone ==
  ASSUME Ordered, Ordered', Play
  PROVE  [Promise!Next]_(Promise!vars)
<1>1. rd = "play" /\ rd' = "idle" /\ hand' = NONE /\ UNCHANGED buf /\ hand # NONE
  BY DEF Play, Return, Ordered, HandKnown
<1>2. pending' = NONE
  BY <1>1 DEF Play, Consume, Ordered, HandKnown
<1>3. Waiting = ToSet(buf) /\ Waiting' = ToSet(buf)
  BY <1>1, <1>2, WhatWaits DEF Waiting, Held
<1>4. Speaker # NONE /\ Speaker' = NONE
  BY <1>1 DEF Speaker
<1>5. Coming' = Coming
  BY ComingKept DEF Play, senderVars, rxVars
<1>6. Promise!Done
  BY <1>3, <1>4, <1>5 DEF Coming, Entering, Waiting, Speaker, Promise!Done
<1> QED
  BY <1>6 DEF Promise!Next

LEMMA ReadKeepsComing ==
  ASSUME Read
  PROVE  Coming' = Coming
<1>1. UNCHANGED <<wire, track, next, rx_frame>>
  BY DEF Read, StartRead, StartWaiting, Take, TestDeferred, RestartPlayout, Judge, Hold, Play,
     rxVars, senderVars
<1> QED
  BY <1>1, ComingKept

LEMMA ReadImplements ==
  ASSUME Ordered, Ordered', Read
  PROVE  [Promise!Next]_(Promise!vars)
<1> USE ReadKeepsComing DEF InHand, rdVars, Return, timing
<1>1. CASE StartRead  BY <1>1, QuietGivesUp DEF StartRead
<1>2. CASE StartWaiting  BY <1>2, QuietGivesUp DEF StartWaiting
<1>3. CASE Take
  <2>1. rd = "take" /\ rd' \in {"deferred", "idle"} /\ hand = NONE /\ UNCHANGED pending
    BY <1>3 DEF Take, Ordered, HandKnown
  <2>2. CASE pending = NONE /\ buf # <<>>
    <3>1. hand' = Head(buf) /\ buf' = Tail(buf)
      BY <1>3, <2>2 DEF Take
    <3>2. ToSet(buf) = {Head(buf)} \union ToSet(Tail(buf))
      BY <2>2, FramesTyped, SetOfTail DEF Ordered
    <3>3. Waiting' \subseteq Waiting
      BY <2>1, <2>2, <3>1, <3>2 DEF Waiting, Held
    <3>4. Speaker' = Speaker
      BY <2>1 DEF Speaker
    <3> QED
      BY <3>3, <3>4, GivesUp
  <2>3. CASE ~(pending = NONE /\ buf # <<>>)
    BY <1>3, <2>1, <2>3, QuietGivesUp DEF Take
  <2> QED
    BY <2>2, <2>3
<1>4. CASE TestDeferred  BY <1>4, QuietGivesUp DEF TestDeferred, Consume
<1>5. CASE RestartPlayout  BY <1>5, QuietGivesUp DEF RestartPlayout
<1>6. CASE Judge
  <2>1. CASE rd' = "play"
    BY <1>6, <2>1, JudgeHears
  <2>2. CASE rd' # "play"
    <3>1. rd = "judge" /\ UNCHANGED buf
      BY <1>6 DEF Judge
    <3>2. hand' \in {hand, NONE} /\ pending' \in {pending, NONE}
      <4>1. CASE PlayNow  BY <4>1 DEF PlayNow
      <4>2. CASE DropLate  BY <4>2 DEF DropLate, Consume
      <4>3. CASE KeepEarly  BY <4>3, Zenon DEF KeepEarly
      <4> QED  BY <1>6, <4>1, <4>2, <4>3 DEF Judge
    <3> QED
      BY <2>2, <3>1, <3>2, QuietGivesUp
  <2> QED
    BY <2>1, <2>2
<1>7. CASE Hold  BY <1>7, QuietGivesUp DEF Hold
<1>8. CASE Play  BY <1>8, PlayIsDone
<1> QED  BY <1>1, <1>2, <1>3, <1>4, <1>5, <1>6, <1>7, <1>8 DEF Read

LEMMA ServeGivesUp ==
  ASSUME Ordered, Ordered', Serve
  PROVE  [Promise!Next]_(Promise!vars)
<1>1. /\ UNCHANGED <<hand, rd, rx_frame, wire, track, next>>
      /\ buf' \in {buf, <<>>} /\ pending' \in {pending, NONE}
  BY ServeQuiet
<1>2. ToSet(buf') \subseteq ToSet(buf) /\ Held' \subseteq Held
  BY <1>1, EmptySet DEF Held
<1>3. Waiting' \subseteq Waiting /\ Speaker' = Speaker
  BY <1>1, <1>2 DEF Waiting, Speaker
<1>4. Coming' = Coming
  BY <1>1, ComingKept
<1> QED
  BY <1>3, <1>4, GivesUp

(* What is sent, read or refused was to come, and a new place takes the    *)
(* rest of the old one away.                                               *)
LEMMA ComingShrinks ==
  ASSUME Ordered, Send \/ ReadFrame \/ Ask
  PROVE  Coming' \subseteq Coming
<1>1. CASE Send
  <2> DEFINE f == [rtp |-> next, track |-> track]
  <2>1. /\ next \in Rtps /\ track \in 0 .. MaxTrack /\ wire \in Seq(Frames)
        /\ next' = next + 1 /\ wire' = Append(wire, f) /\ UNCHANGED <<track, rx_frame>>
    BY <1>1 DEF Send, Ordered, Typed, SenderType, rxVars
  <2>2. f \in Frames /\ f \in Unsent
    <3>1. f \in Frames  BY <2>1 DEF Frames
    <3>2. next \in Int  BY <2>1, Constants DEF Rtps
    <3> QED  BY <3>1, <3>2 DEF Unsent
  <2> HIDE DEF f
  <2>3. ToSet(wire') \subseteq ToSet(wire) \union {f}
    BY <2>1, <2>2, SetOfAppend
  <2>4. Unsent' \subseteq Unsent
    <3>1. next \in Int /\ \A g \in Frames : g.rtp \in Int
      BY <2>1, Constants DEF Rtps, Frames
    <3> QED
      BY <2>1, <3>1 DEF Unsent
  <2> QED
    BY <2>1, <2>2, <2>3, <2>4 DEF Coming, Entering
<1>2. CASE ReadFrame
  <2>1. /\ wire # <<>> /\ wire' = Tail(wire) /\ UNCHANGED <<track, next>>
        /\ UNCHANGED rx_frame \/ rx_frame' = Head(wire)
    BY <1>2 DEF ReadFrame, rxVars
  <2>2. ToSet(wire) = {Head(wire)} \union ToSet(wire')
    BY <2>1, FramesTyped, SetOfTail DEF Ordered
  <2> QED
    BY <2>1, <2>2 DEF Coming, Entering, Unsent
<1>3. CASE Ask
  <2>1. UNCHANGED <<wire, rx_frame>> /\ (UNCHANGED <<track, next>> \/ track' = track + 1)
    BY <1>3 DEF Ask, AskPause, AskResume, AskFlush, AskDeferred, AskAnchor, Arrives, MovesTo,
       rxVars
  <2>2. track \in Nat /\ \A g \in Frames : g.track \in Nat
    BY FramesTyped DEF Ordered, Typed, SenderType
  <2>3. Unsent' \subseteq Unsent
    BY <2>1, <2>2 DEF Unsent
  <2> QED
    BY <2>1, <2>3 DEF Coming, Entering
<1> QED
  BY <1>1, <1>2, <1>3

LEMMA OthersGiveUp ==
  ASSUME Ordered, Send \/ ReadFrame \/ Ask \/ Tick \/ WaitEnds \/ UNCHANGED vars
  PROVE  [Promise!Next]_(Promise!vars)
<1>1. UNCHANGED <<buf, pending, hand, rd>>
  BY DEF Send, ReadFrame, Ask, AskPause, AskResume, AskFlush, AskDeferred, AskAnchor, Arrives, Tick,
     WaitEnds, vars, timing, rdVars
<1>2. Waiting' = Waiting /\ Speaker' = Speaker
  BY <1>1 DEF Waiting, Held, Speaker
<1>3. Coming' \subseteq Coming
  <2>1. CASE Tick \/ WaitEnds \/ UNCHANGED vars
    BY <2>1, ComingKept DEF Tick, WaitEnds, vars, senderVars, rxVars
  <2> QED
    BY <2>1, ComingShrinks
<1> QED
  BY <1>2, <1>3, GivesUp

(* The path from the socket to the output plays what Playout plays: every  *)
(* frame is heard once at most, and none after a later one of its track,   *)
(* because what was heard or given up is neither to come nor waits         *)
(* (audio_timing_read, audio_buffer_queue_decoded, audio_receiver.c).      *)
THEOREM PlayoutImplemented == Spec => ImplementsPlayout
<1>1. Init => Promise!Init
  <2> SUFFICES ASSUME Init PROVE Promise!Init
    OBVIOUS
  <2>1. ToSet(wire) = {} /\ ToSet(buf) = {} /\ Held = {} /\ rx_frame = NONE
    BY EmptySet DEF Init, Held
  <2>2. Unsent = Frames
    <3>1. \A f \in Frames : f.track \in Nat /\ f.rtp \in Nat /\ f.rtp >= 1
      BY Constants DEF Frames, Rtps
    <3>2. track = 0 /\ next = 1
      BY DEF Init
    <3>3. \A f \in Frames : f.track > track \/ (f.track = track /\ f.rtp >= next)
      BY <3>1, <3>2
    <3> QED
      BY <3>3 DEF Unsent
  <2> QED
    BY <2>1, <2>2 DEF Init, Promise!Init
<1>2. Ordered /\ Ordered' /\ [Next]_vars => [Promise!Next]_(Promise!vars)
  BY OthersGiveUp, QueueEnters, ReadImplements, ServeGivesUp DEF Next, ReceiveFrame
<1> QED
  BY <1>1, <1>2, AlwaysOrdered, PTL DEF Spec, ImplementsPlayout, Promise!Spec
-----------------------------------------------------------------------------
(***************************************************************************)
(* The gates of a seek.  A seek refuses everything until its anchor sets   *)
(* the gates; from then on they stand, except that a frame beyond the      *)
(* upper one opens the lower one: then what is left of the old track lies  *)
(* beyond the upper one as well, because the socket keeps the order.       *)
(***************************************************************************)
Anchoring == {"open", "seek", "anew", "stamp_rtp", "stamp", "rate"}

ArmedRefuses ==
  /\ arm => discard_all
  /\ rq.pc \in Anchoring \union {"rearm"} => ~arm
  /\ rq.pc = "arm" /\ arm => rx = "recv"

FreshRequest == fresh # NONE => rq.pc = "idle" \/ (rq.pc \in Anchoring /\ rq.armed)

Fits(f) == f.rtp \in fresh .. fresh + GateWindow \/ f.track = track
Beyond == \A i \in DOMAIN wire : wire[i].track = track \/ wire[i].rtp > above

FreshGates ==
  fresh # NONE /\ track <= 1 =>
    /\ rx = "queue" => Fits(rx_frame)
    /\ rx = "recv" => above = fresh + GateWindow /\ (before = fresh \/ (before = NONE /\ Beyond))

Gated == ArmedRefuses /\ FreshRequest /\ FreshGates

LEMMA InitGated == Init => Gated
  BY DEF Init, Gated, ArmedRefuses, FreshRequest, FreshGates, Idle, Asked, Anchoring

(* Neither the gates nor the frames that come up to them change.           *)
GatesStill == UNCHANGED <<before, above, fresh, track, wire, rx, rx_frame>>

LEMMA StillFresh ==
  ASSUME FreshGates, GatesStill
  PROVE  FreshGates'
  BY DEF GatesStill, FreshGates, Fits, Beyond

LEMMA OthersGated ==
  ASSUME Gated, Read \/ Tick \/ WaitEnds \/ UNCHANGED vars
  PROVE  Gated'
<1>1. GatesStill /\ UNCHANGED <<arm, discard_all, rq>>
  <2>1. CASE Read
    BY <2>1 DEF Read, StartRead, StartWaiting, Take, TestDeferred, RestartPlayout, Judge, Hold,
       Play, GatesStill, gates, rxVars, senderVars
  <2>2. CASE Tick \/ WaitEnds \/ UNCHANGED vars
    BY <2>2 DEF Tick, WaitEnds, vars, GatesStill, gates, rxVars, senderVars
  <2> QED
    BY <2>1, <2>2
<1>2. ArmedRefuses' /\ FreshRequest'
  BY <1>1 DEF GatesStill, Gated, ArmedRefuses, FreshRequest
<1> QED
  BY <1>1, <1>2, StillFresh DEF Gated

LEMMA SendGated ==
  ASSUME Typed, Gated, Send
  PROVE  Gated'
<1>1. UNCHANGED <<gates, rq, rx, rx_frame, fresh, track>>
  BY DEF Send, rxVars
<1>2. ArmedRefuses' /\ FreshRequest'
  BY <1>1 DEF gates, Gated, ArmedRefuses, FreshRequest
<1> DEFINE f == [rtp |-> next, track |-> track]
<1>3. wire' = Append(wire, f) /\ f \in Frames /\ f.track = track /\ wire \in Seq(Frames)
  BY DEF Send, Typed, SenderType, Frames
<1> HIDE DEF f
<1>4. \A i \in DOMAIN wire' : (i \in DOMAIN wire /\ wire'[i] = wire[i]) \/ wire'[i] = f
  BY <1>3, AppendElements
<1>5. Beyond => Beyond'
  BY <1>1, <1>3, <1>4 DEF Beyond, gates
<1>6. FreshGates'
  BY <1>1, <1>5 DEF Gated, FreshGates, Fits, gates
<1> QED
  BY <1>2, <1>6 DEF Gated

LEMMA ReadFrameGated ==
  ASSUME Ordered, Gated, ReadFrame
  PROVE  Gated'
<1>1. /\ UNCHANGED <<arm, discard_all, rq, fresh, track>>
      /\ rx = "recv" /\ wire # <<>> /\ wire' = Tail(wire)
  BY DEF ReadFrame
<1>2. arm => rx' = "recv"
  BY <1>1 DEF ReadFrame, rxVars, Gated, ArmedRefuses
<1>3. ArmedRefuses' /\ FreshRequest'
  BY <1>1, <1>2 DEF Gated, ArmedRefuses, FreshRequest
<1>4. FreshGates'
  <2> SUFFICES ASSUME fresh # NONE, track <= 1
               PROVE  /\ rx' = "queue" => Fits(rx_frame')
                      /\ rx' = "recv" => /\ above' = fresh + GateWindow
                                         /\ before' = fresh \/ (before' = NONE /\ Beyond')
    BY <1>1 DEF FreshGates, Fits
  <2> DEFINE f == Head(wire)
  <2>1. /\ fresh \in Nat /\ GateWindow \in Nat /\ NONE \notin Int /\ track \in Nat
        /\ wire \in Seq(Frames) /\ \A g \in Frames : g.rtp \in Nat /\ g.track \in Nat
    BY Constants, PipelineAssumption, FramesTyped
    DEF Ordered, Typed, RequestType, SenderType, Stamps
  <2>2. above = fresh + GateWindow /\ (before = fresh \/ (before = NONE /\ Beyond))
    BY <1>1 DEF Gated, FreshGates
  <2>3. /\ 1 \in DOMAIN wire /\ f = wire[1] /\ f \in Frames
        /\ \A i \in DOMAIN wire' : i + 1 \in DOMAIN wire /\ wire'[i] = wire[i + 1] /\ 1 < i + 1
    BY <1>1, <2>1, TailElements
  <2>4. /\ \A i \in DOMAIN wire : wire[i] \in Frames /\ wire[i].track <= track
        /\ \A i \in DOMAIN wire' :
             /\ wire'[i] \in Frames /\ Older(f, wire'[i])
             /\ f.track <= wire'[i].track /\ wire'[i].track <= track
    <3>1. \A i \in DOMAIN wire : wire[i] \in Frames /\ wire[i].track <= track
      BY <2>1 DEF Ordered, InOrder, AllSent, ToSet
    <3>2. \A i \in DOMAIN wire' : Older(wire[1], wire[i + 1]) /\ wire[1].track <= wire[i + 1].track
      BY <2>3 DEF Ordered, InOrder, WireOrdered
    <3> QED
      BY <2>3, <3>1, <3>2
  <2> HIDE DEF f
  <2>5. Beyond => \A i \in DOMAIN wire' : wire'[i].track = track \/ wire'[i].rtp > above
    BY <2>3 DEF Beyond
  <2>6. CASE UNCHANGED <<before, above, rxVars>>
    BY <1>1, <2>2, <2>5, <2>6 DEF Beyond, rxVars
  <2>7. CASE Above(f) /\ before' = NONE /\ UNCHANGED <<above, rxVars>>
    <3>1. f.rtp > above
      BY <2>7 DEF Above
    <3>2. \A i \in DOMAIN wire' : wire'[i].track = track \/ wire'[i].rtp > above
      <4> SUFFICES ASSUME NEW i \in DOMAIN wire', wire'[i].track # track
                   PROVE  wire'[i].rtp > above
        OBVIOUS
      <4>1. wire'[i].track = f.track
        BY <2>1, <2>3, <2>4
      <4>2. f.rtp < wire'[i].rtp
        BY <2>4, <4>1 DEF Older
      <4>3. above \in Nat /\ f.rtp \in Nat /\ wire'[i].rtp \in Nat
        BY <2>1, <2>2, <2>3, <2>4
      <4> QED
        BY <3>1, <4>2, <4>3
    <3> QED
      BY <1>1, <2>2, <2>7, <3>2 DEF Beyond, rxVars
  <2>8. CASE ~Below(f) /\ ~Above(f) /\ rx' = "queue" /\ rx_frame' = f
    <3>1. f.rtp <= fresh + GateWindow
      BY <2>1, <2>2, <2>3, <2>8 DEF Above
    <3>2. CASE before = fresh
      <4>1. f.rtp >= fresh
        BY <2>1, <2>3, <2>8, <3>2 DEF Below
      <4>2. f.rtp \in fresh .. fresh + GateWindow
        BY <2>1, <2>3, <3>1, <4>1
      <4> QED
        BY <2>8, <4>2 DEF Fits
    <3>3. CASE Beyond
      <4>1. f.track = track \/ f.rtp > above
        BY <2>3, <3>3 DEF Beyond
      <4>2. f.track = track
        BY <2>1, <2>2, <2>3, <3>1, <4>1
      <4> QED
        BY <2>8, <4>2 DEF Fits
    <3> QED
      BY <2>2, <3>2, <3>3
  <2> QED
    BY <2>6, <2>7, <2>8 DEF ReadFrame, f
<1> QED
  BY <1>3, <1>4 DEF Gated

LEMMA QueueGated ==
  ASSUME Gated, Queue
  PROVE  Gated'
<1>1. fresh' = NONE /\ rx' = "recv" /\ UNCHANGED <<gates, rq>>
  BY DEF Queue
<1> QED
  BY <1>1 DEF gates, Gated, ArmedRefuses, FreshRequest, FreshGates

LEMMA AskGated ==
  ASSUME Gated, Ask
  PROVE  Gated'
<1>1. fresh' = NONE /\ rx = "recv" /\ rx' = "recv" /\ UNCHANGED gates
  BY DEF Ask, AskPause, AskResume, AskFlush, AskDeferred, AskAnchor, Arrives, AtRest, rxVars
<1>2. rq'.pc \in {"pause", "resume", "flush", "deferred", "arm"}
  BY DEF Ask, AskPause, AskResume, AskFlush, AskDeferred, AskAnchor, Arrives, Asked
<1> QED
  BY <1>1, <1>2 DEF gates, Gated, ArmedRefuses, FreshRequest, FreshGates, Anchoring

(* How a step of the RTSP task that keeps the gates goes on.               *)
LEMMA Continues ==
  ASSUME Gated, GatesStill, UNCHANGED arm, arm => UNCHANGED discard_all,
         rq'.pc = "idle" \/ (rq'.pc \in Anchoring /\ rq.pc \in Anchoring /\ rq'.armed = rq.armed)
  PROVE  Gated'
<1>1. ArmedRefuses' /\ FreshRequest'
  BY DEF GatesStill, Gated, ArmedRefuses, FreshRequest, Anchoring
<1> QED
  BY <1>1, StillFresh DEF Gated

LEMMA GotoGoes ==
  ASSUME rq \in Request, NEW pc, rq' = [rq EXCEPT !.pc = pc]
  PROVE  rq'.pc = pc /\ rq'.armed = rq.armed
  BY DEF Request

LEMMA ServeGated ==
  ASSUME Typed, Gated, Serve
  PROVE  Gated'
<1>1. rq \in Request /\ Idle.pc = "idle"
  BY DEF Typed, RequestType, Idle, Asked
<1>2. UNCHANGED <<track, wire, rx, rx_frame>>
  BY ServeQuiet
<1> USE <1>1, <1>2 DEF GatesStill, gates, Anchoring
<1>3. CASE Pause  BY <1>3, Continues DEF Pause
<1>4. CASE Resume  BY <1>4, Continues DEF Resume
<1>5. CASE SetDeferred  BY <1>5, Continues DEF SetDeferred
<1>6. CASE FlushBuffer \/ ResetTiming
  <2>1. /\ rq'.pc \in {"reset", "clear"} /\ rq.pc \in {"flush", "reset"}
        /\ UNCHANGED <<gates, fresh>>
    BY <1>6, GotoGoes DEF FlushBuffer, ResetTiming, Goto
  <2> QED
    BY <2>1, StillFresh DEF Gated, ArmedRefuses, FreshRequest
<1>7. CASE RefuseAll
  <2>1. fresh = NONE
    BY <1>7 DEF RefuseAll, Gated, FreshRequest
  <2> QED
    BY <1>7, <2>1 DEF RefuseAll, Gated, ArmedRefuses, FreshRequest, FreshGates
<1>8. CASE ArmGates
  <2>1. rq.pc = "arm" /\ fresh = NONE /\ UNCHANGED discard_all
    BY <1>8 DEF ArmGates, Gated, FreshRequest
  <2>2. CASE arm
    <3>1. /\ rx' = "recv" /\ arm' = FALSE /\ SetGates /\ fresh' = rq.rtp
          /\ rq' = [rq EXCEPT !.pc = "open", !.armed = TRUE]
      BY <1>8, <2>1, <2>2 DEF ArmGates, Gated, ArmedRefuses
    <3>2. rq'.pc = "open" /\ rq'.armed
      BY <3>1 DEF Request
    <3>3. ArmedRefuses' /\ FreshRequest'
      BY <3>1, <3>2 DEF ArmedRefuses, FreshRequest
    <3>4. FreshGates'
      BY <3>1 DEF FreshGates, SetGates
    <3> QED
      BY <3>3, <3>4 DEF Gated
  <2>3. CASE ~arm
    <3>1. /\ UNCHANGED <<arm, fresh>>
          /\ rq' = [rq EXCEPT !.pc = "rearm"] \/ rq' = [rq EXCEPT !.pc = "open"]
      BY <1>8, <2>3 DEF ArmGates, Goto
    <3>2. rq'.pc \in {"rearm", "open"}
      BY <3>1 DEF Request
    <3> QED
      BY <2>1, <2>3, <3>1, <3>2 DEF Gated, ArmedRefuses, FreshRequest, FreshGates
  <2> QED
    BY <2>2, <2>3
<1>9. CASE StartAnewArmed
  <2>1. fresh' = NONE /\ ~arm /\ ~arm'
    BY <1>9 DEF StartAnewArmed, Anew, Gated, ArmedRefuses, FreshRequest
  <2> QED
    BY <2>1 DEF Gated, ArmedRefuses, FreshRequest, FreshGates
<1>10. CASE OpenBlanket
  <2>1. ~arm
    BY <1>10 DEF OpenBlanket, Gated, ArmedRefuses
  <2> QED
    BY <1>10, <2>1, GotoGoes, Continues DEF OpenBlanket, Goto
<1>11. CASE DetectSeek  BY <1>11, GotoGoes, Continues DEF DetectSeek, Goto
<1>12. CASE StartAnew
  <2>1. /\ rq.pc = "anew" /\ rq'.pc = "stamp_rtp" /\ rq'.armed = rq.armed
        /\ UNCHANGED <<arm, discard_all, fresh>>
    BY <1>12, GotoGoes DEF StartAnew, Anew, Goto
  <2>2. CASE rq.armed
    BY <1>12, <2>1, <2>2, Continues DEF StartAnew
  <2>3. CASE ~rq.armed
    <3>1. fresh = NONE
      BY <2>1, <2>3 DEF Gated, FreshRequest
    <3> QED
      BY <2>1, <3>1 DEF Gated, ArmedRefuses, FreshRequest, FreshGates
  <2> QED
    BY <2>2, <2>3
<1>13. CASE StampRtp  BY <1>13, GotoGoes, Continues DEF StampRtp, Goto
<1>14. CASE StampTime  BY <1>14, GotoGoes, Continues DEF StampTime, Goto
<1>15. CASE SetRate  BY <1>15, Continues DEF SetRate
<1>16. CASE HurryStart
  <2>1. rq.pc = "quick" /\ rq'.pc = "blanket" /\ UNCHANGED <<gates, fresh>>
    BY <1>16, GotoGoes DEF HurryStart, Goto
  <2> QED
    BY <2>1, StillFresh DEF Gated, ArmedRefuses, FreshRequest
<1>17. CASE ClearGates
  <2>1. fresh = NONE /\ fresh' = NONE /\ ~arm' /\ rq'.pc = "quick"
    BY <1>17, GotoGoes DEF ClearGates, Gated, FreshRequest, Goto
  <2> QED
    BY <2>1 DEF Gated, ArmedRefuses, FreshRequest, FreshGates
<1> QED
  BY <1>3, <1>4, <1>5, <1>6, <1>7, <1>8, <1>9, <1>10, <1>11, <1>12, <1>13, <1>14, <1>15, <1>16,
     <1>17 DEF Serve

(* After the first move of the sender (track <= 1) the first frame to      *)
(* enter the buffer after the anchor of a seek is of the place that plays  *)
(* or within GateWindow of the anchor; one of the old place passes if it   *)
(* is as near (audio_stream_process_frame, audio_receiver_set_anchor_time  *)
(* Path A).                                                                *)
THEOREM FirstAlwaysFits == Spec => FirstFitsWindow
<1>1. Ordered /\ Gated /\ [Next]_vars => Gated'
  BY OthersGated, SendGated, ReadFrameGated, QueueGated, AskGated, ServeGated
  DEF Next, ReceiveFrame, Ordered
<1>2. Gated => (rx = "queue" /\ rx' = "recv" /\ fresh # NONE /\ track <= 1
                  => rx_frame.rtp \in fresh .. fresh + GateWindow \/ rx_frame.track = track)
  BY DEF Gated, FreshGates, Fits
<1> QED
  BY InitGated, AlwaysOrdered, <1>1, <1>2, PTL DEF Spec, FirstFitsWindow
=============================================================================
