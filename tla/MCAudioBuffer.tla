---------------------------- MODULE MCAudioBuffer ----------------------------
(* Instances of AudioBuffer for TLC: the tasks are model values.           *)
EXTENDS AudioBuffer, TLC

CONSTANTS
  recv, playback, rtsp,
  Filled            (* frames queued before the run looks                   *)

OneProducer == {recv}
OneConsumer == {playback}
NoTasks     == {}

(* The RTSP and control tasks flush on FLUSH, seek and anchor changes; the *)
(* playback task itself flushes when a deferred flush falls due.           *)
AllFlushers == {rtsp, playback}

-----------------------------------------------------------------------------
(* A stream under way: Filled packets of one chunk have been queued, one   *)
(* after the other, and nothing has been played yet, as when the pipeline  *)
(* fills the buffer before it starts.                                      *)
FilledInit ==
  /\ sorted = [i \in 1 .. Filled |-> Capacity - i]
  /\ free_stack = [i \in 1 .. Capacity - Filled |-> i - 1]
  /\ rtp = [s \in Slots |-> IF s >= Capacity - Filled THEN Capacity - 1 - s ELSE 0]
  /\ data_ready = Filled
  /\ pc = [t \in Tasks |-> "idle"]
  /\ held = [c \in Consumers |-> NoSlot]
  /\ packet = [p \in Producers |-> [ts |-> Filled, left |-> 0]]
  /\ sent = Filled

(* The sender sends in order: what it sends next follows what it has sent. *)
InSequence ==
  \A p \in Producers : pc[p] = "idle" /\ pc'[p] = "queue" => packet'[p].ts = packet[p].ts

SteadyNext == Next /\ InSequence

SteadySpec == FilledInit /\ [][SteadyNext]_vars /\ Fairness
=============================================================================
