----------------------------- MODULE FrameQueue -----------------------------
(***************************************************************************)
(* What the jitter buffer promises to the tasks that fill, read and flush  *)
(* it, without slots, stack and semaphore: frames are played in the order  *)
(* of their stamps, one that comes when there is no room displaces the     *)
(* earliest, and the frame that somebody reads stays what it is until it   *)
(* is given back.  It is the buffer that AudioPipeline takes for granted.  *)
(***************************************************************************)
EXTENDS Integers, Sequences, SequencesExt

CONSTANTS
  Stamps,
  Earlier,   (* the pairs of stamps of which the first is the earlier one  *)
  Size,      (* how many frames there is room for                          *)
  Readers, NONE

VARIABLES
  queue,     (* the stamps of the frames that wait, the next one first     *)
  reading    (* what each reader holds, or NONE                            *)

vars == <<queue, reading>>

Init == queue = <<>> /\ reading = [r \in Readers |-> NONE]

(* What is left when a frame needs room.                                   *)
Kept == IF Len(queue) >= Size THEN Tail(queue) ELSE queue

(* Behind the frames that are earlier, in front of those that are not.     *)
Put(t) ==
  /\ \E k \in 0 .. Len(Kept) :
       /\ \A i \in 1 .. k : <<Kept[i], t>> \in Earlier
       /\ \A i \in k + 1 .. Len(Kept) : <<Kept[i], t>> \notin Earlier
       /\ queue' = InsertAt(Kept, k + 1, t)
  /\ UNCHANGED reading

TakeFirst(r) ==
  /\ reading[r] = NONE /\ queue # <<>>
  /\ reading' = [reading EXCEPT ![r] = Head(queue)]
  /\ queue' = Tail(queue)

GiveBack(r) ==
  /\ reading' = [reading EXCEPT ![r] = NONE]
  /\ UNCHANGED queue

Flush == queue' = <<>> /\ UNCHANGED reading

Next ==
  \/ \E t \in Stamps : Put(t)
  \/ \E r \in Readers : TakeFirst(r) \/ GiveBack(r)
  \/ Flush

Spec == Init /\ [][Next]_vars
=============================================================================
