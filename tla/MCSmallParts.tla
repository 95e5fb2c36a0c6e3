---------------------------- MODULE MCSmallParts ----------------------------
(* Two parts that are small enough to share a run: the binary search of    *)
(* every array, and the DACP client, which starts beside the search of an  *)
(* empty array.  Neither reads anything of the other.                      *)
EXTENDS InsertSearch, DacpClient

Beside == stamps = <<>> /\ timestamp = 0

SmallInit == SearchInit /\ DacpInit

SmallNext ==
  \/ SearchNext /\ UNCHANGED dacpVars
  \/ Beside /\ DacpNext /\ UNCHANGED searchVars

SmallSpec == SmallInit /\ [][SmallNext]_<<searchVars, dacpVars>> /\ DacpFairness
=============================================================================
