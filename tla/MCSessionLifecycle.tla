------------------------ MODULE MCSessionLifecycle ------------------------
(***************************************************************************)
(* Small instances of SessionLifecycle. Tasks and commands are model values *)
(* that no definition tells apart.                                          *)
(***************************************************************************)
EXTENDS SessionLifecycle, TLC

Symmetry == Permutations(Tasks) \cup Permutations(Commands)
=============================================================================
