------------------------------ MODULE MCPane ------------------------------
(***************************************************************************)
(* A small instance of Pane: one client, the watcher and a person.          *)
(***************************************************************************)
EXTENDS Pane
=============================================================================
