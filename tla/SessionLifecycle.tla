------------------------- MODULE SessionLifecycle -------------------------
(***************************************************************************)
(* A task's sessions from `pup launch` to `merged` or `killed`: the rows of *)
(* the store (session.repository.ts), the tmux window and the branch each   *)
(* session has, the operator's commands (session-lifecycle.service.ts,      *)
(* session-handoff.service.ts and the CLI), the agent's `pup session done`  *)
(* and the merge gate (merge-gate.service.ts).                              *)
(*                                                                          *)
(* Each command is a process. It reads the store, then works on git and     *)
(* tmux for seconds, then writes the store: every such stretch is an action *)
(* of its own, and a command may be killed, or throw, between any two. A    *)
(* store write is one SQL statement or one transaction, so atomic. The gate *)
(* holds the merge lock (module MergeLock), so there is one at a time, and  *)
(* it runs beside the commands.                                             *)
(*                                                                          *)
(* A session's id is its task and how many sessions the task had before it. *)
(* Left out: `--over-cap`, the memory floor, routes, and the fix round, the *)
(* one way back out of `merged`.                                            *)
(***************************************************************************)
EXTENDS SessionStates, Integers, FiniteSets

CONSTANTS
    Tasks,
    Commands,     \* the processes of the operator and the conductor
    NoWindow,     \* no window
    NoSession,    \* no session
    Cap,          \* maxSessions: the sessions that may hold scope at once
    MaxRejects,   \* MAX_REJECTS_BEFORE_BLOCKED, 2 in the code
    MaxSessions,  \* bound: sessions in all
    MaxEdits,     \* bound: edits of one task's spec
    MaxFails      \* bound: failed gates of one session

ASSUME WindowAssumption == NoWindow \notin Commands
ASSUME BoundsAssumption == /\ Cap \in Nat
                           /\ MaxRejects \in Nat
                           /\ MaxSessions \in Nat \ {0}
                           /\ MaxEdits \in Nat
                           /\ MaxFails \in Nat

Numbers == 0 .. MaxSessions - 1
Sessions == Tasks \X Numbers
TaskOf(s) == s[1]

VARIABLES
    planned,   \* the tasks with a row
    spec,      \* the version of each task's stored spec
    state,     \* sessions.state, "none" where there is no row
    compiled,  \* the version of the spec compiled into the session's context
    rejects,   \* sessions.reject_count
    resteers,  \* history: how often the gate handed the session its report
    pane,      \* sessions.tmux_target: unset, of a window that is gone, of the one up
    window,    \* the session's window, by the command that opened it
    branches,  \* the sessions whose branch and worktree exist
    landed,    \* the sessions whose commit the target holds
    pc,        \* what each command does next
    on,        \* the session a command is about
    version,   \* the spec a launch read
    gatePc,    \* what the gate does next
    gateOn     \* the session it gates

vars == <<planned, spec, state, compiled, rejects, resteers, pane, window,
          branches, landed, pc, on, version, gatePc, gateOn>>

\* What a session owns outside the store, and its counts.
works == <<window, branches, landed>>
counts == <<rejects, resteers>>
tasks == <<planned, spec>>
commands == <<pc, on, version>>
gate == <<gatePc, gateOn>>

States == {"none"} \cup SessionState
Launch == {"count", "add", "insert", "open", "record", "kickoff"}
Kill == {"kill", "killrow"}
Respawn == {"close", "reopen", "repin"}
Steps == {"idle", "lift"} \cup Launch \cup Kill \cup Respawn
GateSteps == {"free", "stages", "land", "record", "teardown",
              "reject", "park", "steer", "resume"}

TypeOK ==
    /\ planned \in SUBSET Tasks
    /\ spec \in [Tasks -> 0 .. MaxEdits]
    /\ state \in [Sessions -> States]
    /\ compiled \in [Sessions -> 0 .. MaxEdits]
    /\ rejects \in [Sessions -> 0 .. MaxFails]
    /\ resteers \in [Sessions -> Nat]
    /\ pane \in [Sessions -> {"unset", "gone", "up"}]
    /\ window \in [Sessions -> Commands \cup {NoWindow}]
    /\ branches \in SUBSET Sessions
    /\ landed \in SUBSET Sessions
    /\ pc \in [Commands -> Steps]
    /\ on \in [Commands -> Sessions \cup {NoSession}]
    /\ \A c \in Commands : pc[c] # "idle" => on[c] \in Sessions
    /\ version \in [Commands -> 0 .. MaxEdits]
    /\ gatePc \in GateSteps
    /\ gateOn \in Sessions \cup {NoSession}
    /\ gatePc # "free" => gateOn \in Sessions

Row(s) == state[s] # "none"
Claims(s) == state[s] \notin {"none", "killed"}
Holds(s) == Claims(s) /\ ~isTerminal(state[s])

claimed(t) == \E s \in Sessions : TaskOf(s) = t /\ Claims(s)
Holding == {s \in Sessions : Holds(s)}

\* transitionSession: a session already there stays, an illegal edge throws.
Allowed(s, to) == state[s] = to \/ canTransition(state[s], to)
transitionSession(s, to) == Allowed(s, to) /\ state' = [state EXCEPT ![s] = to]
Throws(s, to) == ~Allowed(s, to) /\ state' = state

Init ==
    /\ planned = {}
    /\ spec = [t \in Tasks |-> 0]
    /\ state = [s \in Sessions |-> "none"]
    /\ compiled = [s \in Sessions |-> 0]
    /\ rejects = [s \in Sessions |-> 0]
    /\ resteers = [s \in Sessions |-> 0]
    /\ pane = [s \in Sessions |-> "unset"]
    /\ window = [s \in Sessions |-> NoWindow]
    /\ branches = {}
    /\ landed = {}
    /\ pc = [c \in Commands |-> "idle"]
    /\ on = [c \in Commands |-> NoSession]
    /\ version = [c \in Commands |-> 0]
    /\ gatePc = "free"
    /\ gateOn = NoSession

(* The commands. *)

At(c, step) == pc[c] = step
Step(c, step) == pc' = [pc EXCEPT ![c] = step]

\* A command goes on to `step`, about the session it was about.
Goto(c, step) ==
    /\ Step(c, step)
    /\ UNCHANGED <<on, version, gate>>

Begin(c, step, s) ==
    /\ At(c, "idle")
    /\ Step(c, step)
    /\ on' = [on EXCEPT ![c] = s]
    /\ UNCHANGED gate

Return(c) ==
    /\ Step(c, "idle")
    /\ on' = [on EXCEPT ![c] = NoSession]
    /\ version' = [version EXCEPT ![c] = 0]
    /\ UNCHANGED gate

\* planTask: `pup plan add`, and the first half of `pup new`.
planTask(c, t) ==
    /\ At(c, "idle")
    /\ t \notin planned
    /\ planned' = planned \cup {t}
    /\ UNCHANGED <<spec, state, compiled, counts, pane, works, commands, gate>>

\* Mutant: guarded by holdingStates, so a merged session's spec can be edited.
updateTaskSpec_Held(c, t) ==
    /\ At(c, "idle")
    /\ t \in planned
    /\ ~\E s \in Sessions : TaskOf(s) = t /\ Holds(s)
    /\ spec[t] < MaxEdits
    /\ spec' = [spec EXCEPT ![t] = @ + 1]
    /\ UNCHANGED <<planned, state, compiled, counts, pane, works, commands, gate>>

\* updateTaskSpec: one UPDATE, guarded by the claim.
updateTaskSpec(c, t) ==
    /\ At(c, "idle")
    /\ t \in planned
    /\ ~claimed(t)
    /\ spec[t] < MaxEdits
    /\ spec' = [spec EXCEPT ![t] = @ + 1]
    /\ UNCHANGED <<planned, state, compiled, counts, pane, works, commands, gate>>

\* deleteTask: one DELETE, refused once any session ran.
deleteTask(c, t) ==
    /\ At(c, "idle")
    /\ t \in planned
    /\ ~\E s \in Sessions : TaskOf(s) = t /\ Row(s)
    /\ planned' = planned \ {t}
    /\ UNCHANGED <<spec, state, compiled, counts, pane, works, commands, gate>>

\* Mutant: the cap is passed by one.
launchTask_OneOver(c, t) ==
    /\ t \in planned
    /\ ~claimed(t)
    /\ Cardinality(Holding) <= Cap
    /\ Begin(c, "count", <<t, 0>>)
    /\ version' = [version EXCEPT ![c] = spec[t]]
    /\ UNCHANGED <<tasks, state, compiled, counts, pane, works>>

\* launchTask, its reads: the claim, the room, and the spec it will compile.
launchTask(c, t) ==
    /\ t \in planned
    /\ ~claimed(t)
    /\ Cardinality(Holding) < Cap
    /\ Begin(c, "count", <<t, 0>>)
    /\ version' = [version EXCEPT ![c] = spec[t]]
    /\ UNCHANGED <<tasks, state, compiled, counts, pane, works>>

\* startSession mints the id from the rows the task has by now: the code map
\* and the route were built since the claim was read.
CountSessions(c) ==
    /\ At(c, "count")
    /\ LET t == TaskOf(on[c])
           count == Cardinality({n \in Numbers : Row(<<t, n>>)})
       IN  /\ Cardinality({s \in Sessions : Row(s)}) < MaxSessions
           /\ count \in Numbers
           /\ on' = [on EXCEPT ![c] = <<t, count>>]
    /\ Step(c, "add")
    /\ UNCHANGED <<tasks, state, compiled, counts, pane, works, version, gate>>

\* `git worktree add -b`, which refuses a branch that exists.
AddWorktree(c) ==
    /\ At(c, "add")
    /\ \/ /\ on[c] \notin branches
          /\ branches' = branches \cup {on[c]}
          /\ Goto(c, "insert")
       \/ /\ on[c] \in branches
          /\ branches' = branches
          /\ Return(c)
    /\ UNCHANGED <<tasks, state, compiled, counts, pane, window, landed>>

\* insertSession: refused for a task dropped since, or an id that was taken.
insertSession(c) ==
    /\ At(c, "insert")
    /\ \/ /\ TaskOf(on[c]) \in planned
          /\ ~Row(on[c])
          /\ state' = [state EXCEPT ![on[c]] = "queued"]
          /\ compiled' = [compiled EXCEPT ![on[c]] = version[c]]
          /\ Goto(c, "open")
       \/ /\ TaskOf(on[c]) \notin planned \/ Row(on[c])
          /\ UNCHANGED <<state, compiled>>
          /\ Return(c)
    /\ UNCHANGED <<tasks, counts, pane, works>>

\* launchSession: tmux refuses a second window of the same name.
OpenWindow(c, from, to) ==
    /\ At(c, from)
    /\ \/ /\ window[on[c]] = NoWindow
          /\ window' = [window EXCEPT ![on[c]] = c]
          /\ Goto(c, to)
       \/ /\ window[on[c]] # NoWindow
          /\ window' = window
          /\ Return(c)
    /\ UNCHANGED <<tasks, state, compiled, counts, pane, branches, landed>>

\* The pane of the window this command opened, which may be gone by now.
RecordPane(c) ==
    pane' = [pane EXCEPT ![on[c]] = IF window[on[c]] = c THEN "up" ELSE "gone"]

\* startSession records the pane, then moves the row to `running`, which
\* throws if the row was killed since its insert.
RecordWindow(c) ==
    /\ At(c, "record")
    /\ RecordPane(c)
    /\ \/ transitionSession(on[c], "running") /\ Goto(c, "kickoff")
       \/ Throws(on[c], "running") /\ Return(c)
    /\ UNCHANGED <<tasks, compiled, counts, works>>

\* Mutant: the rollback ends the row and leaves the window.
deliverKickoff_RowOnly(c) ==
    /\ At(c, "kickoff")
    /\ \/ window[on[c]] = c /\ Return(c)
       \/ Goto(c, "killrow")
    /\ UNCHANGED <<tasks, state, compiled, counts, pane, works>>

\* deliverKickoff: delivered, or the launch is rolled back by a kill.
deliverKickoff(c) ==
    /\ At(c, "kickoff")
    /\ \/ window[on[c]] = c /\ Return(c)
       \/ Goto(c, "kill")
    /\ UNCHANGED <<tasks, state, compiled, counts, pane, works>>

\* The window of `s` is gone, and the pane the row names with it.
CloseWindow(s) ==
    /\ window' = [window EXCEPT ![s] = NoWindow]
    /\ pane' = [pane EXCEPT ![s] = IF @ = "up" THEN "gone" ELSE @]

\* killSession: the window first, by name and by pane, the row after it.
killSession(c, s) ==
    /\ Row(s)
    /\ Begin(c, "kill", s)
    /\ UNCHANGED <<tasks, state, compiled, counts, pane, works, version>>

KillWindow(c) ==
    /\ At(c, "kill")
    /\ CloseWindow(on[c])
    /\ Goto(c, "killrow")
    /\ UNCHANGED <<tasks, state, compiled, counts, branches, landed>>

KillRow(c) ==
    /\ At(c, "killrow")
    /\ transitionSession(on[c], "killed") \/ Throws(on[c], "killed")
    /\ Return(c)
    /\ UNCHANGED <<tasks, compiled, counts, pane, works>>

\* relaunchWindow, of `pup respawn` and `pup kill --respawn`: the state is
\* read once, before the kill of the old window.
relaunchWindow(c, s) ==
    /\ state[s] = "running"
    /\ Begin(c, "close", s)
    /\ UNCHANGED <<tasks, state, compiled, counts, pane, works, version>>

CloseOldWindow(c) ==
    /\ At(c, "close")
    /\ CloseWindow(on[c])
    /\ Goto(c, "reopen")
    /\ UNCHANGED <<tasks, state, compiled, counts, branches, landed>>

RepinPane(c) ==
    /\ At(c, "repin")
    /\ RecordPane(c)
    /\ Return(c)
    /\ UNCHANGED <<tasks, state, compiled, counts, works>>

\* `pup unblock`: reads `blocked`, shows the reason, then moves the row.
unblock(c, s) ==
    /\ state[s] = "blocked"
    /\ Begin(c, "lift", s)
    /\ UNCHANGED <<tasks, state, compiled, counts, pane, works, version>>

\* Mutant: the unblock forgives the rejections.
LiftBlock_Forgives(c) ==
    /\ At(c, "lift")
    /\ transitionSession(on[c], "running") \/ Throws(on[c], "running")
    /\ rejects' = [rejects EXCEPT ![on[c]] = 0]
    /\ Return(c)
    /\ UNCHANGED <<tasks, compiled, resteers, pane, works>>

LiftBlock(c) ==
    /\ At(c, "lift")
    /\ transitionSession(on[c], "running") \/ Throws(on[c], "running")
    /\ Return(c)
    /\ UNCHANGED <<tasks, compiled, counts, pane, works>>

\* A command is killed, or throws, and undoes nothing.
Fail(c) ==
    /\ ~At(c, "idle")
    /\ Return(c)
    /\ UNCHANGED <<tasks, state, compiled, counts, pane, works>>

(* The agent. *)

\* markSessionDone, from inside the window.
markSessionDone(s) ==
    /\ window[s] # NoWindow
    /\ transitionSession(s, "awaiting-review")
    /\ UNCHANGED <<tasks, compiled, counts, pane, works, commands, gate>>

\* A window ends by itself: the machine restarts, the agent exits.
WindowDies(s) ==
    /\ window[s] # NoWindow
    /\ CloseWindow(s)
    /\ UNCHANGED <<tasks, state, compiled, counts, branches, landed, commands, gate>>

(* The gate, under the merge lock. *)

GateAt(step) == gatePc = step
GateGoto(step) == gatePc' = step /\ UNCHANGED <<gateOn, commands>>
GateEnds == gatePc' = "free" /\ gateOn' = NoSession /\ UNCHANGED commands

\* planMerge, settled again under the lock when anything changed meanwhile.
planMerge(s) ==
    /\ GateAt("free")
    /\ state[s] = "awaiting-review"
    /\ gatePc' = "stages"
    /\ gateOn' = s
    /\ UNCHANGED <<tasks, state, compiled, counts, pane, works, commands>>

StagesPass ==
    /\ GateAt("stages")
    /\ GateGoto("land")
    /\ UNCHANGED <<tasks, state, compiled, counts, pane, works>>

\* A hard stage fails: rejectOrBlock counts it before anything else.
StagesFail ==
    /\ GateAt("stages")
    /\ rejects[gateOn] < MaxFails
    /\ rejects' = [rejects EXCEPT ![gateOn] = @ + 1]
    /\ GateGoto("reject")
    /\ UNCHANGED <<tasks, state, compiled, resteers, pane, works>>

\* fastForward, or the push and the pull request of `--pr`.
Land ==
    /\ GateAt("land")
    /\ landed' = landed \cup {gateOn}
    /\ GateGoto("record")
    /\ UNCHANGED <<tasks, state, compiled, counts, pane, window, branches>>

RecordMerged ==
    /\ GateAt("record")
    /\ \/ transitionSession(gateOn, "merged") /\ GateGoto("teardown")
       \/ Throws(gateOn, "merged") /\ GateEnds
    /\ UNCHANGED <<tasks, compiled, counts, pane, works>>

\* The window goes; the branch stays when it moved past the pin, or its
\* worktree could not be removed.
Teardown ==
    /\ GateAt("teardown")
    /\ CloseWindow(gateOn)
    /\ branches' \in {branches, branches \ {gateOn}}
    /\ GateEnds
    /\ UNCHANGED <<tasks, state, compiled, counts, landed>>

\* rejectOrBlock: past the cap the session is parked, else handed the report.
Reject ==
    /\ GateAt("reject")
    /\ \/ /\ transitionSession(gateOn, "rejected")
          /\ GateGoto(IF rejects[gateOn] > MaxRejects THEN "park" ELSE "steer")
       \/ Throws(gateOn, "rejected") /\ GateEnds
    /\ UNCHANGED <<tasks, compiled, counts, pane, works>>

Park ==
    /\ GateAt("park")
    /\ transitionSession(gateOn, "blocked") \/ Throws(gateOn, "blocked")
    /\ GateEnds
    /\ UNCHANGED <<tasks, compiled, counts, pane, works>>

\* steerSession: a terminal row, a gone pane or a paste that never landed
\* parks the session too.
SteerReport ==
    /\ GateAt("steer")
    /\ \/ /\ ~isTerminal(state[gateOn])
          /\ pane[gateOn] = "up"
          /\ resteers' = [resteers EXCEPT ![gateOn] = @ + 1]
          /\ GateGoto("resume")
       \/ resteers' = resteers /\ GateGoto("park")
    /\ UNCHANGED <<tasks, state, compiled, rejects, pane, works>>

Resume ==
    /\ GateAt("resume")
    /\ transitionSession(gateOn, "running") \/ Throws(gateOn, "running")
    /\ GateEnds
    /\ UNCHANGED <<tasks, compiled, counts, pane, works>>

\* A soft flag refuses the merge, a git call throws, or the run is killed.
GateFails ==
    /\ ~GateAt("free")
    /\ GateEnds
    /\ UNCHANGED <<tasks, state, compiled, counts, pane, works>>

Command(c) ==
    \/ \E t \in Tasks : planTask(c, t) \/ updateTaskSpec(c, t) \/ deleteTask(c, t)
    \/ \E t \in Tasks : launchTask(c, t)
    \/ CountSessions(c)
    \/ AddWorktree(c)
    \/ insertSession(c)
    \/ OpenWindow(c, "open", "record")
    \/ RecordWindow(c)
    \/ deliverKickoff(c)
    \/ \E s \in Sessions : killSession(c, s) \/ relaunchWindow(c, s) \/ unblock(c, s)
    \/ KillWindow(c)
    \/ KillRow(c)
    \/ CloseOldWindow(c)
    \/ OpenWindow(c, "reopen", "repin")
    \/ RepinPane(c)
    \/ LiftBlock(c)
    \/ Fail(c)

Gate ==
    \/ \E s \in Sessions : planMerge(s)
    \/ StagesPass
    \/ StagesFail
    \/ Land
    \/ RecordMerged
    \/ Teardown
    \/ Reject
    \/ Park
    \/ SteerReport
    \/ Resume
    \/ GateFails

Next ==
    \/ \E c \in Commands : Command(c)
    \/ \E s \in Sessions : markSessionDone(s) \/ WindowDies(s)
    \/ Gate

Spec == Init /\ [][Next]_vars

-----------------------------------------------------------------------------
(* What the commands promise when they are given one at a time, as one      *)
(* dashboard gives them, with the gate, the agents and every crash beside.  *)

\* A task is never in two sessions' hands (claimingSession, decision 40): a
\* second one would start with a fresh reject count, past the cap that parked
\* the first.
OneClaim ==
    \A r, s \in Sessions : TaskOf(r) = TaskOf(s) /\ Claims(r) /\ Claims(s) => r = s

\* The sessions holding scope never pass the cap assertRoomToLaunch reads
\* (decision 96), whatever a kill, a block or a relaunch does between.
CapRespected == Cardinality(Holding) <= Cap

\* While a session claims its task, the stored spec is the one compiled into
\* its context and audited at its gate (updateTaskSpec).
SpecFrozen == \A s \in Sessions : Claims(s) => compiled[s] = spec[TaskOf(s)]

\* A killed session has no window left running (killSession), also when the
\* launch it rolled back was half done.
KilledIsStopped == \A s \in Sessions : state[s] = "killed" => window[s] = NoWindow

(* What holds whatever runs beside what. *)

\* The gate hands one session its report at most MaxRejects times in its life,
\* however often an operator unblocks it (rejectOrBlock, decision 7).
BoundedResteers == \A s \in Sessions : resteers[s] <= MaxRejects

\* Only landed work reads as merged.
MergedIsLanded == \A s \in Sessions : state[s] = "merged" => s \in landed

\* `merged` and `killed` are final (isTerminal), whichever of a gate, a kill,
\* a launch and an unblock reads the row before another writes it.
TerminalForever ==
    [][\A s \in Sessions : isTerminal(state[s]) => state'[s] = state[s]]_vars
=============================================================================
