----------------------------- MODULE AudioBuffer -----------------------------
(***************************************************************************)
(* The jitter buffer of main/audio/audio_buffer.c: a pool of frame slots,  *)
(* an index array `sorted` kept in RTP order, a stack of free slots and    *)
(* the counting semaphore `data_ready`.                                    *)
(*                                                                         *)
(* The grain is the grain of the code.  What runs between portENTER_       *)
(* CRITICAL and portEXIT_CRITICAL is one step; every semaphore call made   *)
(* outside the spinlock is a step of its own, so that a producer can be    *)
(* preempted between storing a frame and giving its token, a flush between *)
(* emptying the index and draining the semaphore, and the consumer between *)
(* taking a token and popping a frame.                                     *)
(*                                                                         *)
(* One chunk of at most AAC_FRAMES_PER_PACKET samples is one unit of RTP   *)
(* time, and PCM contents are left out.                                    *)
(***************************************************************************)
EXTENDS Integers, Sequences, FiniteSets

CONSTANTS
  Capacity,         (* buffer->capacity, 1000 in the code                   *)
  RtpModulus,       (* RTP timestamps are 32 bits wide: 2^32 in the code    *)
  PacketChunks,     (* most chunks one decoded packet splits into           *)
  MaxPackets,       (* bound: packets the sender sends in a behaviour       *)
  Producers,        (* receive tasks that decode into the buffer            *)
  Throttled,        (* the producers that wait while it is nearly full      *)
  Consumers,        (* tasks that read: the playback task                   *)
  Flushers,         (* tasks that flush: RTSP, control or playback task     *)
  NoSlot            (* a consumer that holds no frame                       *)

Slots  == 0 .. Capacity - 1
Stamps == 0 .. RtpModulus - 1
Tasks  == Producers \cup Consumers \cup Flushers

ASSUME CapacityAssumption == Capacity \in Nat \ {0}
ASSUME ModulusAssumption  == RtpModulus \in Nat \ {0}
ASSUME PacketAssumption   == PacketChunks \in Nat \ {0}
ASSUME BoundAssumption    == MaxPackets \in Nat
ASSUME TaskAssumption     == /\ Throttled \subseteq Producers
                             /\ Producers \cap Consumers = {}
                             /\ Producers \cap Flushers = {}
ASSUME NoSlotAssumption   == NoSlot \notin Slots

VARIABLES
  sorted,      (* slot indices in RTP order; buffer->count is its length   *)
  free_stack,  (* indices of free slots; free_top is its length            *)
  rtp,         (* rtp_timestamp in the header of every slot of the pool    *)
  data_ready,  (* the counting semaphore                                   *)
  pc,          (* where each task stands inside a buffer operation         *)
  held,        (* the slot a consumer has taken and not returned           *)
  packet,      (* what a producer still has to queue: next stamp, chunks   *)
  sent         (* packets received so far, for the bound                   *)

vars == <<sorted, free_stack, rtp, data_ready, pc, held, packet, sent>>

-----------------------------------------------------------------------------
(* ts_cmp(a, b) < 0: the difference read as a signed integer.              *)
Before(a, b) == (a - b) % RtpModulus >= (RtpModulus + 1) \div 2

Elements(s) == {s[i] : i \in 1 .. Len(s)}

(* Mutant: the search compares timestamps as unsigned integers.            *)
InsertGapsUnsigned(index, t) ==
  {g \in 0 .. Len(index) : /\ g > 0 => rtp[index[g]] < t
                           /\ g < Len(index) => ~(rtp[index[g + 1]] < t)}

(* What the binary search of sorted_insert_pos ends on, whatever order the *)
(* array is in: everything just below is earlier, nothing just above is.   *)
InsertGaps(index, t) ==
  {g \in 0 .. Len(index) :
     /\ g > 0 => Before(rtp[index[g]], t)
     /\ g < Len(index) => ~Before(rtp[index[g + 1]], t)}

InsertAfter(s, g, slot) ==
  [i \in 1 .. Len(s) + 1 |->
     IF i <= g THEN s[i] ELSE IF i = g + 1 THEN slot ELSE s[i - 1]]

(* Mutant: back-pressure starts only once the buffer is full.              *)
NearlyFullTooLate == Len(sorted) >= Capacity
NearlyFull == Len(sorted) > (Capacity * 9) \div 10

(* The sender's stamps stay within half the RTP range of what is buffered: *)
(* 1000 slots of 352 samples span 352000 of 2^32.                          *)
SenderWindow(t, n) ==
  \E base \in Stamps :
    \A u \in {rtp[s] : s \in Elements(sorted)}
               \cup {(t + k) % RtpModulus : k \in 0 .. n - 1} :
      (u - base) % RtpModulus < RtpModulus \div 2

TypeOK ==
  /\ sorted \in Seq(Slots)
  /\ free_stack \in Seq(Slots)
  /\ rtp \in [Slots -> Stamps]
  /\ data_ready \in 0 .. Capacity
  /\ pc \in [Tasks -> {"idle", "queue", "give", "pop", "held", "drain"}]
  /\ held \in [Consumers -> Slots \cup {NoSlot}]
  /\ packet \in [Producers -> [ts : Stamps, left : 0 .. PacketChunks]]
  /\ sent \in 0 .. MaxPackets

(* audio_buffer_init.                                                      *)
Init ==
  /\ sorted = <<>>
  /\ free_stack = [i \in 1 .. Capacity |-> i - 1]
  /\ rtp = [s \in Slots |-> 0]
  /\ data_ready = 0
  /\ pc = [t \in Tasks |-> "idle"]
  /\ held = [c \in Consumers |-> NoSlot]
  /\ packet = [p \in Producers |-> [ts |-> 0, left |-> 0]]
  /\ sent = 0

Goto(t, from, to) == pc[t] = from /\ pc' = [pc EXCEPT ![t] = to]

-----------------------------------------------------------------------------
(* A receive task gets a packet and decodes it; the buffered task first    *)
(* waits until the buffer is not nearly full.                              *)
ReceivePacket(p) ==
  /\ sent < MaxPackets
  /\ p \in Throttled => ~NearlyFull
  /\ Goto(p, "idle", "queue")
  /\ \E t \in Stamps, n \in 1 .. PacketChunks :
       /\ SenderWindow(t, n)
       /\ packet' = [packet EXCEPT ![p] = [ts |-> t, left |-> n]]
  /\ sent' = sent + 1
  /\ UNCHANGED <<sorted, free_stack, rtp, data_ready, held>>

(* Overflow protection at the head of the critical section: the oldest     *)
(* frame is dropped and one token with it.                                 *)
Evicting == Len(sorted) >= Capacity

AfterEviction ==
  IF Evicting
  THEN [sorted |-> Tail(sorted),
        free   |-> Append(free_stack, Head(sorted)),
        tokens |-> IF data_ready > 0 THEN data_ready - 1 ELSE 0]
  ELSE [sorted |-> sorted, free |-> free_stack, tokens |-> data_ready]

(* No slot is free: the chunk and the rest of its packet are dropped.      *)
RefuseChunk(p) ==
  /\ ~Evicting /\ free_stack = <<>>
  /\ Goto(p, "queue", "idle")
  /\ packet' = [packet EXCEPT ![p].left = 0]
  /\ UNCHANGED <<sorted, free_stack, rtp, data_ready, held, sent>>

(* The critical section of audio_buffer_queue_chunk.                       *)
StoreChunk(p) ==
  LET made == AfterEviction
      slot == made.free[Len(made.free)]
      t    == packet[p].ts
  IN
  /\ made.free # <<>>
  /\ Goto(p, "queue", "give")
  /\ rtp' = [rtp EXCEPT ![slot] = t]
  /\ free_stack' = SubSeq(made.free, 1, Len(made.free) - 1)
  /\ data_ready' = made.tokens
  /\ \E g \in InsertGaps(made.sorted, t) :
       sorted' = InsertAfter(made.sorted, g, slot)
  /\ UNCHANGED <<held, packet, sent>>

(* Mutant: a token only for the frame that ends the emptiness.             *)
GiveTokenOnFirst(p) ==
  /\ data_ready' = IF Len(sorted) = 1 /\ data_ready < Capacity
                   THEN data_ready + 1 ELSE data_ready
  /\ packet' = [packet EXCEPT ![p].ts = (@ + 1) % RtpModulus,
                              ![p].left = @ - 1]
  /\ Goto(p, "give", IF packet[p].left > 1 THEN "queue" ELSE "idle")
  /\ UNCHANGED <<sorted, free_stack, rtp, held, sent>>

(* The token is given after the spinlock is released; a semaphore at its   *)
(* maximum refuses it.  Then the loop of audio_buffer_queue_decoded.       *)
GiveToken(p) ==
  /\ data_ready' = IF data_ready < Capacity THEN data_ready + 1 ELSE data_ready
  /\ packet' = [packet EXCEPT ![p].ts = (@ + 1) % RtpModulus,
                              ![p].left = @ - 1]
  /\ Goto(p, "give", IF packet[p].left > 1 THEN "queue" ELSE "idle")
  /\ UNCHANGED <<sorted, free_stack, rtp, held, sent>>

-----------------------------------------------------------------------------
(* audio_buffer_take with ticks = 0: a token first, then the critical      *)
(* section, where the index may have been emptied in between.              *)
TakeToken(c) ==
  /\ data_ready > 0
  /\ data_ready' = data_ready - 1
  /\ Goto(c, "idle", "pop")
  /\ UNCHANGED <<sorted, free_stack, rtp, held, packet, sent>>

TakeTimesOut(c) == pc[c] = "idle" /\ data_ready = 0 /\ UNCHANGED vars

TakeNothing(c) ==
  /\ sorted = <<>>
  /\ Goto(c, "pop", "idle")
  /\ UNCHANGED <<sorted, free_stack, rtp, data_ready, held, packet, sent>>

(* Mutant: the slot is free again as soon as it is taken.                  *)
TakeFrameFreeing(c) ==
  /\ sorted # <<>>
  /\ held' = [held EXCEPT ![c] = Head(sorted)]
  /\ sorted' = Tail(sorted)
  /\ free_stack' = Append(free_stack, Head(sorted))
  /\ Goto(c, "pop", "held")
  /\ UNCHANGED <<rtp, data_ready, packet, sent>>

TakeFrame(c) ==
  /\ sorted # <<>>
  /\ held' = [held EXCEPT ![c] = Head(sorted)]
  /\ sorted' = Tail(sorted)
  /\ Goto(c, "pop", "held")
  /\ UNCHANGED <<free_stack, rtp, data_ready, packet, sent>>

(* audio_buffer_return.                                                    *)
ReturnFrame(c) ==
  /\ free_stack' = Append(free_stack, held[c])
  /\ held' = [held EXCEPT ![c] = NoSlot]
  /\ Goto(c, "held", "idle")
  /\ UNCHANGED <<sorted, rtp, data_ready, packet, sent>>

-----------------------------------------------------------------------------
(* audio_buffer_flush: the index is emptied under the spinlock, the        *)
(* semaphore is drained after it, one token at a time.                     *)
FlushIndex(f) ==
  /\ free_stack' = free_stack \o sorted
  /\ sorted' = <<>>
  /\ Goto(f, "idle", "drain")
  /\ UNCHANGED <<rtp, data_ready, held, packet, sent>>

DrainToken(f) ==
  /\ data_ready > 0
  /\ data_ready' = data_ready - 1
  /\ Goto(f, "drain", "drain")
  /\ UNCHANGED <<sorted, free_stack, rtp, held, packet, sent>>

DrainDone(f) ==
  /\ data_ready = 0
  /\ Goto(f, "drain", "idle")
  /\ UNCHANGED <<sorted, free_stack, rtp, data_ready, held, packet, sent>>

Produce(p) == ReceivePacket(p) \/ StoreChunk(p) \/ RefuseChunk(p) \/ GiveToken(p)
Consume(c) == \/ TakeToken(c) \/ TakeTimesOut(c) \/ TakeNothing(c)
              \/ TakeFrame(c) \/ ReturnFrame(c)
Flush(f)   == FlushIndex(f) \/ DrainToken(f) \/ DrainDone(f)

Next ==
  \/ \E p \in Producers : Produce(p)
  \/ \E c \in Consumers : Consume(c)
  \/ \E f \in Flushers : Flush(f)

Spec == Init /\ [][Next]_vars

(* The playback task polls for ever and a task inside a buffer operation   *)
(* always finishes it; nothing obliges a sender to send.                   *)
FinishQueueing(p) == StoreChunk(p) \/ RefuseChunk(p) \/ GiveToken(p)
Fairness == /\ \A c \in Consumers : WF_vars(Consume(c))
            /\ \A p \in Producers : WF_vars(FinishQueueing(p))
-----------------------------------------------------------------------------
Injective(s) == \A i, j \in 1 .. Len(s) : s[i] = s[j] => i = j

(* Every slot of the pool is in exactly one place: queued, free, or lent   *)
(* to one consumer.  A slot returned twice, or freed while it is lent,     *)
(* would overflow free_stack and let a producer decode into a frame that   *)
(* is being played (audio_buffer.c:54-63, 213-221, 279-287, 306-312).      *)
SlotOwnership ==
  /\ Injective(sorted) /\ Injective(free_stack)
  /\ Elements(sorted) \cap Elements(free_stack) = {}
  /\ \A c \in Consumers : held[c] # NoSlot =>
       /\ held[c] \notin Elements(sorted) \cup Elements(free_stack)
       /\ \A d \in Consumers : held[d] = held[c] => d = c
  /\ \A s \in Slots : \/ s \in Elements(sorted) \cup Elements(free_stack)
                       \/ \E c \in Consumers : held[c] = s

(* The index stays in RTP order across the 32-bit wrap, whatever order     *)
(* packets arrive in and whatever is evicted, taken or flushed between     *)
(* them: sorted_insert_pos relies on it (audio_buffer.c:29-40).            *)
SortedByRtp ==
  \A i \in 1 .. Len(sorted) - 1 : ~Before(rtp[sorted[i + 1]], rtp[sorted[i]])

(* To the tasks around it the buffer is the queue of FrameQueue: order,    *)
(* displacement of the earliest, and frames that nobody changes while they *)
(* are read, although a frame is found by its slot, slots are reused, and  *)
(* the stamps of one window alone are comparable.                          *)
Promise == INSTANCE FrameQueue WITH
  Earlier <- {p \in Stamps \X Stamps : Before(p[1], p[2])},
  Size    <- Capacity,
  Readers <- Consumers,
  NONE    <- NoSlot,
  queue   <- [i \in 1 .. Len(sorted) |-> rtp[sorted[i]]],
  reading <- [c \in Consumers |-> IF held[c] = NoSlot THEN NoSlot ELSE rtp[held[c]]]

ImplementsQueue == Promise!Spec

(* A producer that waits while the buffer is nearly full never makes it    *)
(* drop a frame or refuse a chunk, although it checks once per packet and  *)
(* queues several chunks: "this prevents buffer overflow and keeps frames  *)
(* in order" (audio_stream_buffered.c:103-105).                            *)
ThrottledNeverEvicts ==
  \A p \in Throttled : pc[p] = "queue" => ~Evicting
ThrottledNeverLoses ==
  \A p \in Throttled : pc[p] = "queue" => ~Evicting /\ free_stack # <<>>

(* When the sender has stopped, whatever is queued is eventually played:   *)
(* no frame is stranded without a token (audio_buffer.c:100-107, 260-270). *)
Drains == (sent = MaxPackets) ~> (sorted = <<>>)
=============================================================================
