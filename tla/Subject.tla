------------------------------ MODULE Subject ------------------------------
(***************************************************************************)
(* The parts of the program in the modules that extend this one share no   *)
(* state. One of them is the subject of a behaviour, and the others rest:   *)
(* a run over all of them is as large as their sum.                         *)
(***************************************************************************)
VARIABLES
    subject,  \* the part that is looked at
    given     \* what it was given: the input of an algorithm, fixed throughout
=============================================================================
