------------------------- MODULE MCCascadePlusIfmap -------------------------
(***************************************************************************)
(* Small instances of CascadePlusIfmap and of the channel it implements.  *)
(***************************************************************************)
EXTENDS CascadePlusIfmapChannel, TLC

UserSymmetry == Permutations(Users)
=============================================================================
