---------------------------- MODULE MCMergeGate ----------------------------
(***************************************************************************)
(* Small instances of MergeGate. Changes are model values that no           *)
(* definition tells apart.                                                  *)
(***************************************************************************)
EXTENDS MergeGate, TLC

Symmetry == Permutations(Mine) \cup Permutations(Theirs)
=============================================================================
