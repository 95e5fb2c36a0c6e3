------------------------------- MODULE Playout -------------------------------
(***************************************************************************)
(* What the path from the network to the speaker promises.  A frame is     *)
(* first to come, then it waits, then it is heard, and nothing takes it    *)
(* back to where it was: it is heard once at most.  It enters behind what  *)
(* waits of its track, and when it is heard what waits and what is to come *)
(* of its track is later: none is heard after a later one.  On the way     *)
(* frames may be given up.                                                 *)
(***************************************************************************)
EXTENDS Integers

CONSTANTS Frames, NONE

VARIABLES
  coming,    (* frames that may still be received                          *)
  waiting,   (* frames received that may still be heard                    *)
  speaker    (* the frame that is being heard, or NONE                     *)

vars == <<coming, waiting, speaker>>

Init == coming = Frames /\ waiting = {} /\ speaker = NONE

Later(f) == {g \in Frames : g.track = f.track => g.rtp > f.rtp}
Earlier(f) == {g \in Frames : g.track = f.track => g.rtp < f.rtp}

(* A frame arrives; from now on only later ones of its track do.           *)
Enter(f) ==
  /\ f \in coming /\ waiting \subseteq Earlier(f)
  /\ waiting' = waiting \union {f}
  /\ coming' \subseteq coming \intersect Later(f)
  /\ UNCHANGED speaker

Hear(f) ==
  /\ speaker = NONE
  /\ f \in waiting
  /\ coming \union (waiting \ {f}) \subseteq Later(f)
  /\ waiting' = waiting \ {f}
  /\ speaker' = f
  /\ UNCHANGED coming

Done ==
  /\ speaker # NONE
  /\ speaker' = NONE
  /\ UNCHANGED <<coming, waiting>>

(* Frames are refused, are too late, or are flushed.                       *)
GiveUp == coming' \subseteq coming /\ waiting' \subseteq waiting /\ UNCHANGED speaker

Next == Done \/ GiveUp \/ \E f \in Frames : Enter(f) \/ Hear(f)

Spec == Init /\ [][Next]_vars
=============================================================================
