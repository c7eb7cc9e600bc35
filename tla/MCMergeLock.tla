---------------------------- MODULE MCMergeLock ----------------------------
(***************************************************************************)
(* Instances of MergeLock. Processes are interchangeable, so the safety     *)
(* runs use their permutations as a symmetry.    *)
(***************************************************************************)
EXTENDS MergeLock, TLC

Symmetry == Permutations(Runs)
=============================================================================
