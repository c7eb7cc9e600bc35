--------------------------- MODULE MCPullRequest ---------------------------
(***************************************************************************)
(* Small instances of PullRequest: commands are model values that no        *)
(* definition tells apart.                                                  *)
(***************************************************************************)
EXTENDS PullRequest, TLC

Symmetry == Permutations(Cmds)
=============================================================================
