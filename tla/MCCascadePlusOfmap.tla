------------------------- MODULE MCCascadePlusOfmap -------------------------
(***************************************************************************)
(* Small instances of CascadePlusOfmap and of the channel it implements.   *)
(* The runs check liveness, so they use no symmetry of the readers.        *)
(***************************************************************************)
EXTENDS CascadePlusOfmapChannel
=============================================================================
