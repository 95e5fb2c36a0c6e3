-------------------------- MODULE MCSourceTakeover --------------------------
(***************************************************************************)
(* SourceTakeover and OutputHandover in one run of TLC.  Each models of    *)
(* the player task what the other leaves out, and they share no variable:  *)
(* a step of either is taken while the other is in its initial state.      *)
(***************************************************************************)
EXTENDS SourceTakeover, OutputHandover

MCInit == Init /\ HandoverInit

MCNext ==
  \/ HandoverInit /\ Next /\ UNCHANGED handoverVars
  \/ Init /\ HandoverNext /\ UNCHANGED vars

MCSpec == MCInit /\ [][MCNext]_<<vars, handoverVars>> /\ Fairness
=============================================================================
