---------------------------- MODULE MCModelTable ----------------------------
(* Instances of ModelTable: models and devices are interchangeable.        *)
EXTENDS ModelTable, TLC

TableSymmetry == Permutations(Models) \cup Permutations(Groups)
=============================================================================
