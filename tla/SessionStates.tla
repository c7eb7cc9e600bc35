--------------------------- MODULE SessionStates ---------------------------
(***************************************************************************)
(* The states of a session and the edges between them                       *)
(* (session-state.utils.ts). The fix round's two edges, out of `merged` and *)
(* back, are in no table: only transitionSessionAlong takes them.           *)
(***************************************************************************)

SessionState == {"queued", "running", "awaiting-review", "rejected",
                 "blocked", "merged", "killed"}

TRANSITIONS ==
    {<<"queued", "running">>, <<"queued", "killed">>,
     <<"running", "awaiting-review">>, <<"running", "killed">>,
     <<"running", "blocked">>,
     <<"awaiting-review", "merged">>, <<"awaiting-review", "rejected">>,
     <<"awaiting-review", "running">>, <<"awaiting-review", "killed">>,
     <<"rejected", "running">>, <<"rejected", "blocked">>,
     <<"rejected", "killed">>,
     <<"blocked", "running">>, <<"blocked", "killed">>}

canTransition(from, to) == <<from, to>> \in TRANSITIONS
isTerminal(st) == st \in {"merged", "killed"}
=============================================================================
