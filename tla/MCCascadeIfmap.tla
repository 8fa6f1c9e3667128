--------------------------- MODULE MCCascadeIfmap ---------------------------
(***************************************************************************)
(* Small instances of CascadeIfmap.                                        *)
(***************************************************************************)
EXTENDS CascadeIfmap, TLC

ThreadSymmetry == Permutations(Users) \cup Permutations(JobWorkers)
=============================================================================
