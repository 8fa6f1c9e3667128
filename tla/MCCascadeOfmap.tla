--------------------------- MODULE MCCascadeOfmap ---------------------------
(***************************************************************************)
(* Small instances of CascadeOfmap.                                        *)
(***************************************************************************)
EXTENDS CascadeOfmap, TLC

ThreadSymmetry == Permutations(Readers) \cup Permutations(JobWorkers)
=============================================================================
