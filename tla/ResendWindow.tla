----------------------------- MODULE ResendWindow -----------------------------
(***************************************************************************)
(* Loss recovery of the realtime stream (main/audio/                       *)
(* audio_stream_realtime.c): the receive task follows the 16-bit sequence  *)
(* numbers, notes a short gap in a 64-bit mask, asks the sender for the    *)
(* packets (NACK), repeats the request every 250 ms and takes late packets *)
(* that it misses.  The RTSP task clears the same variables, without a     *)
(* lock, on a flush, a start and a stop (audio_receiver.c:33-39).          *)
(*                                                                         *)
(* Packets are absolute numbers; the code sees them % SeqModulus.  The     *)
(* network loses, repeats and reorders: any packet younger than Lifetime   *)
(* may arrive, any number of times or never, and so may any packet the     *)
(* sender was asked for, as long as it still has it.  retransmit_enabled   *)
(* and the control socket are taken to be set.  Each step makes at most    *)
(* one store, or one read-modify-write, of the shared window.              *)
(***************************************************************************)
EXTENDS Integers, FiniteSets, FiniteSetsExt

CONSTANTS
  SeqModulus,   (* 2^16                                                    *)
  WindowBits,   (* RESEND_WINDOW_BITS = MAX_RESEND_GAP                     *)
  Lifetime,     (* the network delivers a packet before this many more     *)
                (* were sent                                               *)
  History,      (* the sender has this many packets to send again          *)
  FirstSent,    (* the number of the sender's first packet                 *)
  MaxSent,      (* bound: the number of the last packet                    *)
  NONE

Half == SeqModulus \div 2

ASSUME ModulusAssumption == SeqModulus \in Nat /\ SeqModulus = 2 * Half
ASSUME WindowAssumption  == WindowBits \in Nat \ {0}
ASSUME LifetimeAssumption ==
  Lifetime \in Nat \ {0} /\ Lifetime + WindowBits < Half
ASSUME SenderAssumption ==
  /\ History \in 1 .. SeqModulus /\ FirstSent \in Nat /\ MaxSent \in Nat
  /\ NONE \notin Nat

VARIABLES
  rtp_sequence_valid,
  last_seq,          (* stats.last_seq                                     *)
  first,             (* resend_window_first                                *)
  mask,              (* resend_missing_mask, the set of its bits           *)
  requested,         (* resend_last_request_time_us: within the last       *)
                     (* RESEND_RETRY_INTERVAL_US                           *)
  failed,            (* last_resend_error_time_us: within the last         *)
                     (* RESEND_ERROR_BACKOFF_US                            *)
  pc,                (* the receive task                                   *)
  packet,            (* the packet in its hands, or NONE                   *)
  gap,               (* how many packets it found skipped before that      *)
  rpc,               (* a reset by the RTSP task                           *)
  sent, asked,       (* the sender: newest packet; numbers asked for       *)
  (* What the code does not know: absolute numbers of last_seq and first,  *)
  (* the packets played since the last reset, the most recent gap, and     *)
  (* whether the window can be trusted (Clean).                            *)
  top, base, delivered, latest, sound

window   == <<first, mask>>
rtpVars  == <<rtp_sequence_valid, last_seq>>
nackVars == <<requested, failed, asked>>
taskVars == <<pc, packet, gap>>
ghosts   == <<top, base, delivered, latest>>
vars == <<rtpVars, window, nackVars, taskVars, rpc, sent, ghosts, sound>>

Seqs     == 0 .. SeqModulus - 1
Packets  == FirstSent .. MaxSent
Seq16(n) == n % SeqModulus
(* (int16_t)                                                               *)
Signed(x) == LET d == x % SeqModulus IN IF d < Half THEN d ELSE d - SeqModulus
(* The packets just skipped, and the packets the bits stand for (between   *)
(* the two stores of a new window, those it will have).                    *)
Gap    == (packet - gap) .. (packet - 1)
Wanted == IF pc = "mask" THEN Gap ELSE {base + o : o \in mask}

Init ==
  /\ rtp_sequence_valid = FALSE /\ last_seq = 0
  /\ first = 0 /\ mask = {} /\ requested = FALSE /\ failed = FALSE
  /\ pc = "recv" /\ packet = NONE /\ gap = 0 /\ rpc = "idle"
  /\ sent = FirstSent /\ asked = {}
  /\ top = -1 /\ base = 0 /\ delivered = {} /\ latest = {} /\ sound = TRUE
-----------------------------------------------------------------------------
(* The window.                                                             *)

(* resend_mask_for_count                                                   *)
MaskForCount(count) == 0 .. (IF count >= WindowBits THEN WindowBits ELSE count) - 1

(* resend_slide_window, after bit o was cleared: the lowest bit left, if   *)
(* any, becomes bit 0.                                                     *)
SlideWindow(o) ==
  LET left == mask \ {o}
  IN  /\ requested' = (requested /\ left # {})
      /\ \/ /\ left = {}
            /\ mask' = {}
            /\ UNCHANGED <<first, base>>
         \/ \E low \in left :
              /\ \A b \in left : low <= b
              /\ mask' = {b - low : b \in left}
              /\ first' = Seq16(first + low)
              /\ base' = base + low

(* resend_mark_received                                                    *)
MarkReceived(n) ==
  LET o == Seq16(Seq16(n) - first)
  IN  /\ o \in mask
      /\ SlideWindow(o)

(* Mutant: only the start of the gap must lie in the window.               *)
FitsFromStart ==
  mask # {} /\ Seq16(Seq16(packet - gap) - first) < WindowBits

(* resend_track_missing: the gap joins the window ...                      *)
Fits ==
  LET o == Seq16(Seq16(packet - gap) - first)
  IN  mask # {} /\ o + gap <= WindowBits

JoinWindow ==
  /\ Fits
  /\ mask' = mask \union
             ({b + Seq16(Seq16(packet - gap) - first) : b \in MaskForCount(gap)}
                \intersect 0 .. WindowBits - 1)
  /\ latest' = Gap
  /\ pc' = "ask"
  /\ UNCHANGED <<first, base>>

(* ... or starts a new one: two stores.                                    *)
StartWindow ==
  /\ ~Fits
  /\ first' = Seq16(packet - gap)
  /\ base' = packet - gap
  /\ latest' = Gap
  /\ pc' = "mask"
  /\ UNCHANGED mask

TrackMissing ==
  /\ pc = "track"
  /\ JoinWindow \/ StartWindow
  /\ UNCHANGED <<rtpVars, nackVars, packet, gap, sent, rpc, top, delivered>>

StoreMask ==
  /\ pc = "mask"
  /\ mask' = MaskForCount(gap)
  /\ pc' = "ask"
  /\ UNCHANGED <<rtpVars, first, nackVars, packet, gap, sent, rpc, ghosts>>

(* Mutant: the range does not end at the first packet that was played.     *)
WholeSpan ==
  {o \in 0 .. WindowBits - 1 : \E lo, hi \in mask : lo <= o /\ o <= hi}

(* resend_next_range: the lowest run of bits.                              *)
NextRange ==
  {o \in mask : Min(mask) .. o \subseteq mask}
-----------------------------------------------------------------------------
(* The requests.                                                           *)

(* The sender understands a sequence number as its newest packet that has  *)
(* it, and ignores one that it never sent.                                 *)
Understood(seqs) ==
  {n \in FirstSent .. sent : Seq16(n) \in seqs /\ n > sent - History}

(* send_resend_request and resend_request_range; a request may be lost.    *)
Request(seqs) ==
  IF failed THEN UNCHANGED nackVars
  ELSE \/ failed' = TRUE /\ UNCHANGED <<requested, asked>>
       \/ /\ requested' = TRUE
          /\ failed' = FALSE
          /\ asked' \in {asked, asked \union Understood(seqs)}

(* The rest of track_regular_rtp_sequence after a short gap.               *)
AskForGap ==
  /\ pc = "ask"
  /\ Request({Seq16(n) : n \in Gap})
  /\ last_seq' = Seq16(packet)
  /\ top' = packet
  /\ pc' = "retry"
  /\ UNCHANGED <<rtp_sequence_valid, window, packet, gap, sent, rpc,
                 base, delivered, latest>>

(* resend_retry_if_due, and the rest of realtime_receive_packet.           *)
RetryIfDue ==
  IF mask = {} \/ requested THEN UNCHANGED nackVars
  ELSE Request({Seq16(first + o) : o \in NextRange})

Finish ==
  /\ pc = "retry"
  /\ RetryIfDue
  /\ delivered' = delivered \union ({packet} \ {NONE})
  /\ packet' = NONE
  /\ gap' = 0
  /\ pc' = "recv"
  /\ UNCHANGED <<rtpVars, window, sent, rpc, top, base, latest>>
-----------------------------------------------------------------------------
(* realtime_receive_packet                                                 *)

Delta(n) == Signed(Seq16(n) - (last_seq + 1))

Arrives(n) == pc = "recv" /\ n \in FirstSent .. sent /\ n > sent - Lifetime

(* Played without further ado: the first packet, the expected one, or one  *)
(* after a gap too large to ask for.                                       *)
TakeNewer(n) ==
  /\ Arrives(n)
  /\ rtp_sequence_valid => Delta(n) = 0 \/ Delta(n) > WindowBits
  /\ rtp_sequence_valid' = TRUE
  /\ last_seq' = Seq16(n)
  /\ top' = n
  /\ packet' = n
  /\ pc' = "retry"
  /\ UNCHANGED <<window, nackVars, gap, sent, rpc, base, delivered, latest>>

(* A short gap: resend_track_missing is called.                            *)
FindGap(n) ==
  /\ Arrives(n)
  /\ rtp_sequence_valid
  /\ Delta(n) \in 1 .. WindowBits
  /\ gap' = Delta(n)
  /\ packet' = n
  /\ pc' = "track"
  /\ UNCHANGED <<rtpVars, window, nackVars, sent, rpc, ghosts>>

(* A packet out of order is played when it is missed, and dropped when it  *)
(* is not (no step).                                                       *)
TakeLate(n) ==
  /\ Arrives(n)
  /\ rtp_sequence_valid
  /\ Delta(n) < 0
  /\ MarkReceived(n)
  /\ packet' = n
  /\ pc' = "retry"
  /\ UNCHANGED <<rtpVars, failed, asked, gap, sent, rpc, top, delivered, latest>>

(* Mutant: an answer is not looked up in the window.                       *)
TakeAnyResent(n) ==
  /\ pc = "recv"
  /\ n \in asked
  /\ packet' = n
  /\ pc' = "retry"
  /\ UNCHANGED <<rtpVars, window, nackVars, gap, sent, rpc, ghosts>>

(* An answer, which control_receiver_task has passed on to the data        *)
(* socket; it is stale unless the window still marks it.                   *)
TakeResent(n) ==
  /\ pc = "recv"
  /\ n \in asked
  /\ MarkReceived(n)
  /\ packet' = n
  /\ pc' = "retry"
  /\ UNCHANGED <<rtpVars, failed, asked, gap, sent, rpc, top, delivered, latest>>

(* Mutant: nothing is asked for again without fresh packets.               *)
TimeoutOnly ==
  /\ pc = "recv"
  /\ UNCHANGED <<rtpVars, window, nackVars, taskVars, sent, rpc, ghosts>>

(* 100 ms without a packet.                                                *)
ReceiveTimeout ==
  /\ pc = "recv"
  /\ pc' = "retry"
  /\ UNCHANGED <<rtpVars, window, nackVars, packet, gap, sent, rpc, ghosts>>
-----------------------------------------------------------------------------
(* audio_receiver_reset_resend_state                                       *)

ResetValid ==
  /\ rpc = "idle"
  /\ rtp_sequence_valid' = FALSE
  /\ rpc' = "first"
  /\ top' = -1 /\ delivered' = {} /\ latest' = {}
  /\ UNCHANGED <<last_seq, window, nackVars, taskVars, sent, base>>

ResetFirst ==
  /\ rpc = "first"
  /\ first' = 0
  /\ rpc' = "mask"
  /\ UNCHANGED <<rtpVars, mask, nackVars, taskVars, sent, ghosts>>

ResetMask ==
  /\ rpc = "mask"
  /\ mask' = {}
  /\ requested' = FALSE /\ failed' = FALSE
  /\ rpc' = "idle"
  /\ UNCHANGED <<rtpVars, first, asked, taskVars, sent, ghosts>>
-----------------------------------------------------------------------------
(* Time and the sender.                                                    *)

RetryFallsDue ==
  /\ requested /\ requested' = FALSE
  /\ UNCHANGED <<rtpVars, window, failed, asked, taskVars, sent, rpc, ghosts>>
BackoffEnds ==
  /\ failed /\ failed' = FALSE
  /\ UNCHANGED <<rtpVars, window, requested, asked, taskVars, sent, rpc, ghosts>>

Send ==
  /\ sent < MaxSent
  /\ sent' = sent + 1
  /\ asked' = {n \in asked : n > sent' - History}
  /\ UNCHANGED <<rtpVars, window, requested, failed, taskVars, rpc, ghosts>>

(* The sender, or the network, is done with a request.                     *)
Forget(n) ==
  /\ n \in asked
  /\ asked' = asked \ {n}
  /\ UNCHANGED <<rtpVars, window, requested, failed, taskVars, sent, rpc, ghosts>>
-----------------------------------------------------------------------------
Handle == TrackMissing \/ StoreMask \/ AskForGap \/ Finish

Receive == \E n \in Packets :
  TakeNewer(n) \/ FindGap(n) \/ TakeLate(n) \/ TakeResent(n)

Reset == ResetValid \/ ResetFirst \/ ResetMask

(* No reset while a packet is handled, and no hole that is a whole turn of *)
(* the sequence numbers old: its number would mean another packet.         *)
Clean ==
  /\ pc = "recv" \/ rpc = "idle"
  /\ mask # {} => sent - base < SeqModulus

(* Otherwise the window is torn, or the one of before the flush, or means  *)
(* other packets than it did.  It works on like that until a reset finds   *)
(* the task waiting; nothing is claimed meanwhile, so the model goes on    *)
(* from there, with any requests under way.                                *)
StartOver ==
  /\ rtp_sequence_valid' = FALSE /\ first' = 0 /\ mask' = {}
  /\ requested' = FALSE /\ failed' = FALSE
  /\ pc' = "recv" /\ packet' = NONE /\ gap' = 0 /\ rpc' = "idle"
  /\ sent' \in sent .. MaxSent
  /\ asked' \in SUBSET {n \in FirstSent .. sent' : n > sent' - History}
  /\ top' = -1 /\ delivered' = {} /\ latest' = {}
  /\ UNCHANGED <<last_seq, base>>

Watched(Step) == sound /\ Step /\ sound' = Clean'

Next ==
  \/ Watched(Handle)
  \/ Watched(Receive)
  \/ Watched(ReceiveTimeout)
  \/ Watched(Reset)
  \/ Watched(RetryFallsDue)
  \/ Watched(BackoffEnds)
  \/ Watched(Send)
  \/ Watched(\E n \in asked : Forget(n))
  \/ ~sound /\ sound' = TRUE /\ StartOver

Spec == Init /\ [][Next]_vars

(* The receive task runs, its socket times out, time passes and a reset    *)
(* that began ends.  The network is fair-lossy: a request that is repeated *)
(* without end gets through now and then, and so does an answer.           *)
Fairness ==
  /\ WF_vars(Watched(Handle))
  /\ WF_vars(Watched(ReceiveTimeout))
  /\ WF_vars(Watched(RetryFallsDue))
  /\ WF_vars(Watched(BackoffEnds))
  /\ WF_vars(Watched(ResetFirst))
  /\ WF_vars(Watched(ResetMask))
  /\ SF_vars(Watched(Finish) /\ asked' # asked)
  /\ SF_vars(Watched(\E n \in Packets : TakeResent(n)))

FairSpec == Spec /\ Fairness
-----------------------------------------------------------------------------
TypeOK ==
  /\ rtp_sequence_valid \in BOOLEAN /\ last_seq \in Seqs
  /\ first \in Seqs /\ mask \subseteq 0 .. WindowBits - 1
  /\ requested \in BOOLEAN /\ failed \in BOOLEAN
  /\ pc \in {"recv", "track", "mask", "ask", "retry"}
  /\ packet \in Nat \union {NONE} /\ gap \in 0 .. WindowBits
  /\ rpc \in {"idle", "first", "mask"}
  /\ sent \in Nat /\ asked \subseteq Nat
  /\ top \in Nat \union {-1} /\ base \in Int
  /\ delivered \subseteq Nat /\ latest \subseteq Nat /\ sound \in BOOLEAN

(* Every bit of the mask stands for a packet that was skipped, is older    *)
(* than the newest and was not played.                                     *)
WindowIsMissing ==
  sound /\ rpc = "idle" =>
    /\ mask # {} \/ pc = "mask" => first = Seq16(base)
    /\ \A n \in Wanted : n < sent /\ n # packet /\ n \notin delivered

(* The gap noticed last is wanted until each of its packets was played;    *)
(* older ones may be given up for it.                                      *)
LatestGapKept ==
  sound /\ rpc = "idle" => latest \subseteq Wanted \union delivered \union {packet}

(* The mask says what is missing and forgets nothing too early, whatever   *)
(* was lost, repeated or came late, and across the wrap of the 16-bit      *)
(* numbers (audio_stream_realtime.c:90-143).                               *)
WindowIsRight == WindowIsMissing /\ LatestGapKept

(* No packet is played twice between two flushes: a second copy, of the    *)
(* network or as an answer, finds its bit cleared                          *)
(* (audio_stream_realtime.c:299-312).                                      *)
PlayedOnce == sound /\ pc = "retry" => packet \notin delivered

(* The sender is asked for nothing that was played or will come by itself. *)
(* (audio_stream_realtime.c:145-229).                                      *)
AsksForHoles ==
  [][sound /\ sound' => asked' \ asked \subseteq Wanted]_vars

(* The code plays what MissingPackets plays.  A packet counts as played    *)
(* when it is in the hands of the task and past all checks.                *)
Abstract == INSTANCE MissingPackets WITH
  top       <- top,
  missing   <- IF rpc = "idle" THEN Wanted ELSE {},
  delivered <- delivered \union (IF pc = "retry" THEN {packet} \ {NONE} ELSE {})

ImplementsMissing ==
  Abstract!Init /\ [][sound' => [Abstract!Next]_(Abstract!vars)]_vars

(* The oldest hole is filled, unless the sender has sent so much since     *)
(* that it no longer has the packet (audio_stream_realtime.c:217-229).     *)
OldestHoleFilled ==
  \A n \in Packets :
    sound /\ mask # {} /\ n = base
      ~> ~sound \/ mask = {} \/ n # base \/ n <= sent - History
=============================================================================
