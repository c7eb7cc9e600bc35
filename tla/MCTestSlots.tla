---------------------------- MODULE MCTestSlots ----------------------------
(***************************************************************************)
(* Instances of TestSlots. Processes of one kind are interchangeable.       *)
(***************************************************************************)
EXTENDS TestSlots, TLC

Symmetry == Permutations(Gates) \cup Permutations(Workers)
=============================================================================
