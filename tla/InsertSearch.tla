----------------------------- MODULE InsertSearch -----------------------------
(***************************************************************************)
(* The binary search of sorted_insert_pos (main/audio/audio_buffer.c), one *)
(* probe of the array per step.  AudioBuffer uses only its contract, the   *)
(* operator InsertGaps; this module shows that the loop meets it, for      *)
(* EVERY array, also one that is not in RTP order: with 32-bit wrapping    *)
(* comparison "earlier" is not transitive, so an index whose stamps span   *)
(* half the range or more has no order for a search to rely on.            *)
(***************************************************************************)
EXTENDS Integers, Sequences

CONSTANTS
  Capacity,         (* buffer->capacity                                     *)
  RtpModulus        (* 2^32 in the code                                     *)

ASSUME CapacityAssumption == Capacity \in Nat \ {0}
ASSUME ModulusAssumption  == RtpModulus \in Nat \ {0}

Stamps == 0 .. RtpModulus - 1

VARIABLES
  stamps,      (* timestamps of the queued slots in index order            *)
  timestamp,   (* the timestamp to insert                                  *)
  lo, hi       (* the bounds of the search; C counts the array from 0      *)

searchVars == <<stamps, timestamp, lo, hi>>

(* ts_cmp(a, b) < 0                                                        *)
Before(a, b) == (a - b) % RtpModulus >= (RtpModulus + 1) \div 2

SearchInit ==
  /\ \E n \in 0 .. Capacity - 1 : stamps \in [1 .. n -> Stamps]
  /\ timestamp \in Stamps
  /\ lo = 0
  /\ hi = Len(stamps)

Mid == lo + (hi - lo) \div 2

(* Mutant: the bounds of a search for an equal element.                    *)
ProbeSkipping ==
  /\ lo < hi
  /\ IF Before(stamps[Mid + 1], timestamp)
     THEN lo' = Mid + 1 /\ hi' = hi
     ELSE hi' = Mid - 1 /\ lo' = lo
  /\ UNCHANGED <<stamps, timestamp>>

Probe ==
  /\ lo < hi
  /\ IF Before(stamps[Mid + 1], timestamp)
     THEN lo' = Mid + 1 /\ hi' = hi
     ELSE hi' = Mid /\ lo' = lo
  /\ UNCHANGED <<stamps, timestamp>>

SearchNext == Probe

SearchSpec == SearchInit /\ [][SearchNext]_searchVars
-----------------------------------------------------------------------------
SearchTypeOK ==
  /\ stamps \in Seq(Stamps) /\ Len(stamps) < Capacity
  /\ timestamp \in Stamps
  /\ lo \in 0 .. Len(stamps) /\ hi \in 0 .. Len(stamps)
  /\ lo <= hi

(* The contract AudioBuffer inserts by, over an array of stamps.           *)
Gaps(s, t) ==
  {g \in 0 .. Len(s) : /\ g > 0 => Before(s[g], t)
                       /\ g < Len(s) => ~Before(s[g + 1], t)}

(* The position the loop returns lies between an earlier frame and one     *)
(* that is not earlier, whatever array it searched; a search that returned *)
(* anything else would make the playback task take frames out of RTP order *)
(* (audio_buffer.c:27-40).                                                 *)
EndsInGap == lo = hi => lo \in Gaps(stamps, timestamp)

(* What the loop maintains: everything it has ruled out below lo, and from *)
(* hi upwards, is bounded by a probe that says so.                         *)
Bracketed ==
  /\ lo > 0 => Before(stamps[lo], timestamp)
  /\ hi < Len(stamps) => ~Before(stamps[hi + 1], timestamp)
=============================================================================
