---------------------------- MODULE MissingPackets ----------------------------
(***************************************************************************)
(* What the realtime stream promises about the packets of an unreliable    *)
(* network: it plays a packet at most once, either because the packet is   *)
(* newer than all it has played, or because it was skipped, is still       *)
(* wanted and arrives late.  Packets have absolute numbers here; the code  *)
(* (ResendWindow) has 16-bit sequence numbers and a bit mask.              *)
(***************************************************************************)
EXTENDS Integers

CONSTANT Packets    (* the numbers of packets                              *)

VARIABLES
  top,         (* the newest packet played, -1 before the first            *)
  missing,     (* packets that were skipped and are wanted                 *)
  delivered    (* packets played since the last restart                    *)

vars == <<top, missing, delivered>>

Init == top = -1 /\ missing = {} /\ delivered = {}

(* A packet newer than all others is played; the ones in between are not   *)
(* wanted for that reason alone.                                           *)
Take(n) ==
  /\ n > top
  /\ top' = n
  /\ delivered' = delivered \union {n}
  /\ UNCHANGED missing

(* Packets that are newer than those played are noticed to be missing, in  *)
(* addition to the older ones or instead of them.                          *)
Skip(first, last) ==
  /\ top < first
  /\ missing' = first .. last \/ missing' = missing \union (first .. last)
  /\ UNCHANGED <<top, delivered>>

(* A missing packet arrives after all.                                     *)
Fill(n) ==
  /\ n \in missing
  /\ missing' = missing \ {n}
  /\ delivered' = delivered \union {n}
  /\ UNCHANGED top

(* A flush, or another sender: everything may come anew.                   *)
Restart == top' = -1 /\ missing' = {} /\ delivered' = {}

Next ==
  \/ Restart
  \/ \E n \in Packets : Take(n) \/ Fill(n) \/ \E m \in Packets : Skip(n, m)

Spec == Init /\ [][Next]_vars
=============================================================================
