----------------------- MODULE SessionLifecycleProofs -----------------------
(***************************************************************************)
(* Theorems about SessionLifecycle, for any tasks, commands and bounds.     *)
(***************************************************************************)
EXTENDS SessionLifecycle, FiniteSetTheorems, TLAPS

-----------------------------------------------------------------------------
(***************************************************************************)
(* Every variable keeps the values its declaration describes, and a command *)
(* or a gate under way is about a session.                                  *)
(***************************************************************************)
LEMMA TypeStep == TypeOK /\ [Next]_vars => TypeOK'
<1> SUFFICES ASSUME TypeOK, [Next]_vars PROVE TypeOK'
  OBVIOUS
<1> USE BoundsAssumption
<1> USE DEF TypeOK, tasks, works, counts, commands, gate, At, Goto, Step,
            Begin, Return, Steps, Launch, Kill,
            Respawn, States, SessionState
<1>1. ASSUME NEW c \in Commands, Command(c) PROVE TypeOK'
  <2>1. ASSUME NEW t \in Tasks, planTask(c, t) \/ deleteTask(c, t) PROVE TypeOK'
    BY <2>1 DEF planTask, deleteTask
  <2>2. ASSUME NEW t \in Tasks, updateTaskSpec(c, t) PROVE TypeOK'
    BY <2>2 DEF updateTaskSpec
  <2>3. ASSUME NEW t \in Tasks, launchTask(c, t) PROVE TypeOK'
    <3>1. <<t, 0>> \in Sessions
      BY DEF Sessions, Numbers
    <3> QED BY <2>3, <3>1 DEF launchTask
  <2>4. CASE CountSessions(c)
    <3>1. TaskOf(on[c]) \in Tasks
      BY <2>4 DEF CountSessions, Sessions, TaskOf
    <3>2. \A n \in Numbers : <<TaskOf(on[c]), n>> \in Sessions
      BY <3>1 DEF Sessions
    <3> QED BY <2>4, <3>2 DEF CountSessions
  <2>5. CASE AddWorktree(c)
    BY <2>5 DEF AddWorktree
  <2>6. CASE insertSession(c)
    BY <2>6 DEF insertSession
  <2>7. CASE OpenWindow(c, "open", "record") \/ OpenWindow(c, "reopen", "repin")
    BY <2>7 DEF OpenWindow
  <2>8. CASE RecordWindow(c)
    BY <2>8 DEF RecordWindow, RecordPane, transitionSession, Throws
  <2>9. CASE deliverKickoff(c)
    BY <2>9 DEF deliverKickoff
  <2>10. ASSUME NEW s \in Sessions,
                killSession(c, s) \/ relaunchWindow(c, s) \/ unblock(c, s)
         PROVE TypeOK'
    BY <2>10 DEF killSession, relaunchWindow, unblock
  <2>11. CASE KillWindow(c) \/ CloseOldWindow(c)
    BY <2>11 DEF KillWindow, CloseOldWindow, CloseWindow
  <2>12. CASE KillRow(c) \/ LiftBlock(c)
    BY <2>12 DEF KillRow, LiftBlock, transitionSession, Throws
  <2>13. CASE RepinPane(c) \/ Fail(c)
    BY <2>13 DEF RepinPane, RecordPane, Fail
  <2> QED BY <1>1, <2>1, <2>2, <2>3, <2>4, <2>5, <2>6, <2>7, <2>8, <2>9,
             <2>10, <2>11, <2>12, <2>13 DEF Command
<1>2. ASSUME NEW s \in Sessions, markSessionDone(s) \/ WindowDies(s) PROVE TypeOK'
  BY <1>2 DEF markSessionDone, WindowDies, CloseWindow, transitionSession
<1>3. CASE Gate
  <2> USE DEF GateSteps, GateAt, GateGoto, GateEnds
  <2>1. ASSUME NEW s \in Sessions, planMerge(s) PROVE TypeOK'
    BY <2>1 DEF planMerge
  <2>2. CASE StagesPass \/ StagesFail
    BY <2>2 DEF StagesPass, StagesFail
  <2>3. CASE Land
    BY <2>3 DEF Land
  <2>4. CASE RecordMerged \/ Reject \/ Park \/ Resume
    BY <2>4 DEF RecordMerged, Reject, Park, Resume, transitionSession, Throws
  <2>5. CASE Teardown
    BY <2>5 DEF Teardown, CloseWindow
  <2>6. CASE SteerReport \/ GateFails
    BY <2>6 DEF SteerReport, GateFails
  <2> QED BY <1>3, <2>1, <2>2, <2>3, <2>4, <2>5, <2>6 DEF Gate
<1>4. CASE UNCHANGED vars
  BY <1>4 DEF vars
<1> QED BY <1>1, <1>2, <1>3, <1>4 DEF Next

\* The store, the windows and the commands at first.
LEMMA TypeInit == Init => TypeOK
BY BoundsAssumption DEF Init, TypeOK, States, SessionState, Steps, GateSteps

\* The store, the windows, the commands and the gate keep their types
\* (session.repository.ts, and the commands of session-lifecycle.service.ts).
THEOREM TypeCorrect == Spec => []TypeOK
BY TypeInit, TypeStep, PTL DEF Spec

-----------------------------------------------------------------------------
(***************************************************************************)
(* Every step moves a session along an edge of the transition table, or     *)
(* inserts its row.                                                         *)
(***************************************************************************)
LEMMA StateStep ==
    TypeOK /\ [Next]_vars =>
        \A s \in Sessions : \/ state'[s] = state[s]
                            \/ canTransition(state[s], state'[s])
                            \/ ~Row(s) /\ \E c \in Commands : insertSession(c)
<1> SUFFICES ASSUME TypeOK, [Next]_vars, NEW s \in Sessions
             PROVE \/ state'[s] = state[s]
                   \/ canTransition(state[s], state'[s])
                   \/ ~Row(s) /\ \E c \in Commands : insertSession(c)
  OBVIOUS
<1> USE DEF TypeOK, At, transitionSession, Throws, Allowed
<1>1. ASSUME NEW c \in Commands, Command(c), state' # state
      PROVE \/ state'[s] = state[s]
            \/ canTransition(state[s], state'[s])
            \/ ~Row(s) /\ insertSession(c)
  <2>1. insertSession(c) \/ RecordWindow(c) \/ KillRow(c) \/ LiftBlock(c)
    BY <1>1 DEF Command, planTask, updateTaskSpec, deleteTask, launchTask,
                CountSessions, AddWorktree, OpenWindow, deliverKickoff,
                killSession, relaunchWindow, unblock, KillWindow,
                CloseOldWindow, RepinPane, Fail
  <2>2. on[c] \in Sessions
    BY <2>1 DEF insertSession, RecordWindow, KillRow, LiftBlock
  <2>3. CASE insertSession(c)
    BY <2>2, <2>3 DEF insertSession
  <2>4. CASE RecordWindow(c) \/ KillRow(c) \/ LiftBlock(c)
    BY <2>2, <2>4 DEF RecordWindow, KillRow, LiftBlock
  <2> QED BY <2>1, <2>3, <2>4
<1>2. ASSUME NEW r \in Sessions, markSessionDone(r) \/ WindowDies(r)
      PROVE state'[s] = state[s] \/ canTransition(state[s], state'[s])
  BY <1>2 DEF markSessionDone, WindowDies
<1>3. ASSUME Gate, state' # state
      PROVE state'[s] = state[s] \/ canTransition(state[s], state'[s])
  <2>1. RecordMerged \/ Reject \/ Park \/ Resume
    BY <1>3 DEF Gate, planMerge, StagesPass, StagesFail, Land, Teardown,
                SteerReport, GateFails
  <2>2. gateOn \in Sessions
    BY <2>1 DEF RecordMerged, Reject, Park, Resume, GateAt
  <2> QED BY <2>1, <2>2 DEF RecordMerged, Reject, Park, Resume
<1>4. CASE UNCHANGED vars
  BY <1>4 DEF vars
<1> QED BY <1>1, <1>2, <1>3, <1>4 DEF Next

(***************************************************************************)
(* `merged` and `killed` are final, whatever runs beside what: no edge of   *)
(* the table leaves them.                                                   *)
(***************************************************************************)
THEOREM TerminalIsForever == Spec => TerminalForever
<1>1. TypeOK /\ [Next]_vars =>
         [\A s \in Sessions : isTerminal(state[s]) => state'[s] = state[s]]_vars
  BY StateStep DEF isTerminal, canTransition, TRANSITIONS, Row
<1> QED BY <1>1, TypeCorrect, PTL DEF Spec, TerminalForever

-----------------------------------------------------------------------------
\* Work is in the target from before its session reads merged.
LandedFirst == MergedIsLanded /\ (GateAt("record") => gateOn \in landed)

\* Who records a merge has landed first.
LEMMA LandedStep == TypeOK /\ LandedFirst /\ [Next]_vars => LandedFirst'
<1> SUFFICES ASSUME TypeOK, LandedFirst, [Next]_vars PROVE LandedFirst'
  OBVIOUS
<1> USE DEF LandedFirst, MergedIsLanded, TypeOK, GateAt, GateGoto, GateEnds,
            gate, works, transitionSession, Throws, At
<1>1. ASSUME NEW c \in Commands, Command(c) PROVE LandedFirst'
  <2>1. UNCHANGED <<landed, gatePc, gateOn>>
    BY <1>1 DEF Command, planTask, updateTaskSpec, deleteTask, launchTask,
                CountSessions, AddWorktree, insertSession, OpenWindow,
                RecordWindow, deliverKickoff, killSession, relaunchWindow,
                unblock, KillWindow, KillRow, CloseOldWindow, RepinPane,
                LiftBlock, Fail, Begin, Goto, Return, CloseWindow
  <2>2. \A s \in Sessions : state'[s] = "merged" => state[s] = "merged"
    <3>1. state' = state
          \/ \E to \in {"queued", "running", "killed"} :
                on[c] \in Sessions /\ state' = [state EXCEPT ![on[c]] = to]
      BY <1>1 DEF Command, planTask, updateTaskSpec, deleteTask, launchTask,
                  CountSessions, AddWorktree, insertSession, OpenWindow,
                  RecordWindow, deliverKickoff, killSession, relaunchWindow,
                  unblock, KillWindow, KillRow, CloseOldWindow, RepinPane,
                  LiftBlock, Fail
    <3> QED BY <3>1
  <2> QED BY <2>1, <2>2
<1>2. ASSUME NEW s \in Sessions, markSessionDone(s) \/ WindowDies(s)
      PROVE LandedFirst'
  BY <1>2 DEF markSessionDone, WindowDies, CloseWindow
<1>3. CASE Gate
  <2>1. ASSUME NEW s \in Sessions, planMerge(s) PROVE LandedFirst'
    BY <2>1 DEF planMerge
  <2>2. CASE StagesPass \/ StagesFail \/ SteerReport \/ GateFails
    BY <2>2 DEF StagesPass, StagesFail, SteerReport, GateFails
  <2>3. CASE Land
    BY <2>3 DEF Land
  <2>4. CASE RecordMerged \/ Reject \/ Park \/ Resume
    BY <2>4 DEF RecordMerged, Reject, Park, Resume
  <2>5. CASE Teardown
    BY <2>5 DEF Teardown
  <2> QED BY <1>3, <2>1, <2>2, <2>3, <2>4, <2>5 DEF Gate
<1>4. CASE UNCHANGED vars
  BY <1>4 DEF vars
<1> QED BY <1>1, <1>2, <1>3, <1>4 DEF Next

(***************************************************************************)
(* A session reads merged only once its work is in the target, also when    *)
(* the gate is killed between the two and run again.                        *)
(***************************************************************************)
THEOREM MergedWasLanded == Spec => []MergedIsLanded
<1>1. Init => LandedFirst
  BY DEF Init, LandedFirst, MergedIsLanded, GateAt
<1>2. LandedFirst => MergedIsLanded
  BY DEF LandedFirst
<1> QED BY <1>1, <1>2, LandedStep, TypeCorrect, PTL DEF Spec

-----------------------------------------------------------------------------
\* Each report handed over was paid for by a counted rejection within the cap.
ReportsPaid ==
    /\ \A s \in Sessions : resteers[s] <= MaxRejects /\ resteers[s] <= rejects[s]
    /\ GateAt("reject") => resteers[gateOn] < rejects[gateOn]
    /\ GateAt("steer") => /\ resteers[gateOn] < rejects[gateOn]
                          /\ rejects[gateOn] <= MaxRejects

\* Each re-steer is paid for by a count.
LEMMA ReportsStep == TypeOK /\ ReportsPaid /\ [Next]_vars => ReportsPaid'
<1> SUFFICES ASSUME TypeOK, ReportsPaid, [Next]_vars PROVE ReportsPaid'
  OBVIOUS
<1> USE BoundsAssumption
        DEF ReportsPaid, TypeOK, GateAt, GateGoto, GateEnds, gate, counts
<1>1. ASSUME NEW c \in Commands, Command(c) PROVE ReportsPaid'
  <2>1. UNCHANGED <<rejects, resteers, gatePc, gateOn>>
    BY <1>1 DEF Command, planTask, updateTaskSpec, deleteTask, launchTask,
                CountSessions, AddWorktree, insertSession, OpenWindow,
                RecordWindow, deliverKickoff, killSession, relaunchWindow,
                unblock, KillWindow, KillRow, CloseOldWindow, RepinPane,
                LiftBlock, Fail, Begin, Goto, Return
  <2> QED BY <2>1
<1>2. ASSUME NEW s \in Sessions, markSessionDone(s) \/ WindowDies(s)
      PROVE ReportsPaid'
  BY <1>2 DEF markSessionDone, WindowDies
<1>3. CASE Gate
  <2>1. ASSUME NEW s \in Sessions, planMerge(s) PROVE ReportsPaid'
    BY <2>1 DEF planMerge
  <2>2. CASE StagesPass \/ Land \/ RecordMerged \/ Teardown \/ Park \/ Resume \/ GateFails
    BY <2>2 DEF StagesPass, Land, RecordMerged, Teardown, Park, Resume, GateFails
  <2>3. CASE StagesFail
    BY <2>3 DEF StagesFail
  <2>4. CASE Reject
    BY <2>4 DEF Reject
  <2>5. CASE SteerReport
    BY <2>5 DEF SteerReport
  <2> QED BY <1>3, <2>1, <2>2, <2>3, <2>4, <2>5 DEF Gate
<1>4. CASE UNCHANGED vars
  BY <1>4 DEF vars
<1> QED BY <1>1, <1>2, <1>3, <1>4 DEF Next

(***************************************************************************)
(* The gate hands one session its report at most MaxRejects times, whatever *)
(* is killed and however often the operator unblocks it.                    *)
(***************************************************************************)
THEOREM ResteersAreBounded == Spec => []BoundedResteers
<1>1. Init => ReportsPaid
  BY BoundsAssumption DEF Init, ReportsPaid, GateAt
<1>2. ReportsPaid => BoundedResteers
  BY DEF ReportsPaid, BoundedResteers
<1> QED BY <1>1, <1>2, ReportsStep, TypeCorrect, PTL DEF Spec

-----------------------------------------------------------------------------
\* The commands are given one at a time.
Alone == \A c, d \in Commands : c = d

\* What a launch read is still so when it inserts the row, a window is opened
\* for a session that is not killed, and a row is killed after its window.
Unraced ==
    \A c \in Commands :
        /\ pc[c] \in {"count", "add", "insert"} =>
              ~claimed(TaskOf(on[c])) /\ version[c] = spec[TaskOf(on[c])]
        /\ pc[c] \in {"open", "close", "reopen"} => state[on[c]] # "killed"
        /\ pc[c] = "killrow" => window[on[c]] = NoWindow

AInv == OneClaim /\ SpecFrozen /\ KilledIsStopped /\ Unraced

\* A step that inserts no row claims no task and compiles no spec.
LEMMA NoNewClaim ==
    ASSUME TypeOK, [Next]_vars, \A c \in Commands : ~insertSession(c)
    PROVE  /\ \A s \in Sessions : Claims(s)' => Claims(s)
           /\ \A t : claimed(t)' => claimed(t)
           /\ compiled' = compiled
<1>1. \A s \in Sessions : Claims(s)' => Claims(s)
  <2>1. \A s \in Sessions : state'[s] = state[s] \/ canTransition(state[s], state'[s])
    BY StateStep
  <2> QED BY <2>1 DEF Claims, canTransition, TRANSITIONS
<1>2. compiled' = compiled
  <2>1. ASSUME NEW c \in Commands, Command(c) PROVE compiled' = compiled
    BY <2>1 DEF Command, planTask, updateTaskSpec, deleteTask, launchTask,
                CountSessions, AddWorktree, OpenWindow, RecordWindow,
                deliverKickoff, killSession, relaunchWindow, unblock,
                KillWindow, KillRow, CloseOldWindow, RepinPane, LiftBlock, Fail
  <2>2. ASSUME NEW s \in Sessions, markSessionDone(s) \/ WindowDies(s)
        PROVE compiled' = compiled
    BY <2>2 DEF markSessionDone, WindowDies
  <2>3. CASE Gate
    BY <2>3 DEF Gate, planMerge, StagesPass, StagesFail, Land, RecordMerged,
                Teardown, Reject, Park, SteerReport, Resume, GateFails
  <2> QED BY <2>1, <2>2, <2>3 DEF Next, vars
<1> QED BY <1>1, <1>2 DEF claimed

\* With one command, nothing it read changes before it is used.
LEMMA AloneStep ==
    ASSUME Alone, TypeOK, TypeOK', AInv, [Next]_vars PROVE AInv'
<1> USE DEF AInv, Alone
<1>1. ASSUME NEW c \in Commands, insertSession(c) PROVE AInv'
  <2>0. PICK s \in Sessions : s = on[c]
    BY <1>1 DEF insertSession, At, TypeOK
  <2>1. /\ s = on[c]
        /\ At(c, "insert")
        /\ ~claimed(TaskOf(s))
        /\ version[c] = spec[TaskOf(s)]
        /\ UNCHANGED <<spec, window>>
    BY <1>1, <2>0 DEF insertSession, At, TypeOK, Unraced, tasks, works
  <2>2. CASE /\ state' = [state EXCEPT ![s] = "queued"]
             /\ compiled' = [compiled EXCEPT ![s] = version[c]]
             /\ Goto(c, "open")
    <3>1. state \in [Sessions -> States] /\ compiled \in [Sessions -> 0 .. MaxEdits]
      BY DEF TypeOK
    <3>2. /\ state'[s] = "queued" /\ compiled'[s] = spec[TaskOf(s)]
          /\ \A r \in Sessions \ {s} : state'[r] = state[r] /\ compiled'[r] = compiled[r]
      BY <2>1, <2>2, <3>1
    <3>3. \A r \in Sessions : TaskOf(r) = TaskOf(s) => ~Claims(r)
      BY <2>1 DEF claimed
    <3>4. OneClaim'
      BY <3>2, <3>3 DEF OneClaim, Claims
    <3>5. SpecFrozen'
      BY <2>1, <3>2 DEF SpecFrozen, Claims
    <3>6. KilledIsStopped'
      BY <2>1, <3>2 DEF KilledIsStopped
    <3>7. Unraced'
      <4>1. pc'[c] = "open" /\ on'[c] = s
        BY <2>1, <2>2 DEF Goto, Step, TypeOK
      <4> QED BY <3>2, <4>1 DEF Unraced
    <3> QED BY <3>4, <3>5, <3>6, <3>7
  <2>3. CASE UNCHANGED <<state, compiled>> /\ Return(c)
    <3>1. pc'[c] = "idle"
      BY <2>3 DEF Return, Step, TypeOK
    <3>2. Unraced'
      BY <3>1 DEF Unraced
    <3> QED BY <2>1, <2>3, <3>2 DEF OneClaim, SpecFrozen, KilledIsStopped, Claims
  <2> QED BY <1>1, <2>0, <2>2, <2>3 DEF insertSession
<1>2. ASSUME \A c \in Commands : ~insertSession(c) PROVE AInv'
  <2>1. /\ \A s \in Sessions : Claims(s)' => Claims(s)
        /\ \A t : claimed(t)' => claimed(t)
        /\ compiled' = compiled
    BY <1>2, NoNewClaim
  <2>2. OneClaim'
    BY <2>1 DEF OneClaim
  <2>3. SpecFrozen'
    <3>1. CASE UNCHANGED spec
      BY <2>1, <3>1 DEF SpecFrozen
    <3>2. ASSUME NEW c \in Commands, NEW t \in Tasks, updateTaskSpec(c, t)
          PROVE SpecFrozen'
      <4>1. \A s \in Sessions : Claims(s) => spec'[TaskOf(s)] = spec[TaskOf(s)]
        <5>1. \A s \in Sessions : TaskOf(s) \in Tasks
          BY DEF Sessions, TaskOf
        <5> QED BY <3>2, <5>1 DEF updateTaskSpec, claimed, TypeOK
      <4> QED BY <2>1, <4>1 DEF SpecFrozen
    <3>3. spec' = spec \/ \E c \in Commands, t \in Tasks : updateTaskSpec(c, t)
      <4>1. ASSUME NEW c \in Commands, Command(c), \A t \in Tasks : ~updateTaskSpec(c, t)
            PROVE spec' = spec
        BY <1>2, <4>1
           DEF Command, planTask, deleteTask, launchTask, CountSessions,
               AddWorktree, OpenWindow, RecordWindow, deliverKickoff,
               killSession, relaunchWindow, unblock, KillWindow, KillRow,
               CloseOldWindow, RepinPane, LiftBlock, Fail, tasks
      <4>2. ASSUME NEW s \in Sessions, markSessionDone(s) \/ WindowDies(s)
            PROVE spec' = spec
        BY <4>2 DEF markSessionDone, WindowDies, tasks
      <4>3. CASE Gate
        BY <4>3 DEF Gate, planMerge, StagesPass, StagesFail, Land, RecordMerged,
                    Teardown, Reject, Park, SteerReport, Resume, GateFails, tasks
      <4> QED BY <4>1, <4>2, <4>3 DEF Next, vars
    <3> QED BY <3>1, <3>2, <3>3
  <2>4. KilledIsStopped' /\ Unraced'
    <3> USE DEF At, Goto, Begin, Return, Step
    <3> DEFINE Kept == KilledIsStopped' /\ Unraced'
    <3>1. ASSUME NEW c \in Commands, Command(c) PROVE Kept
      <4>1. ASSUME NEW t \in Tasks,
                   planTask(c, t) \/ updateTaskSpec(c, t) \/ deleteTask(c, t)
            PROVE Kept
        <5>1. pc'[c] = "idle" /\ UNCHANGED <<state, window>>
          BY <4>1 DEF planTask, updateTaskSpec, deleteTask, commands, works
        <5> QED BY <5>1 DEF KilledIsStopped, Unraced
      <4>2. ASSUME NEW t \in Tasks, launchTask(c, t) PROVE Kept
        <5>1. /\ pc'[c] = "count" /\ on'[c] = <<t, 0>> /\ version'[c] = spec[t]
              /\ ~claimed(t) /\ UNCHANGED <<spec, state, window>>
          BY <4>2 DEF launchTask, TypeOK, tasks, works
        <5>2. TaskOf(on'[c]) = t
          BY <5>1 DEF TaskOf
        <5> QED BY <2>1, <5>1, <5>2 DEF KilledIsStopped, Unraced
      <4>3. CASE CountSessions(c)
        <5>1. /\ pc'[c] = "add" /\ At(c, "count")
              /\ TaskOf(on'[c]) = TaskOf(on[c])
              /\ UNCHANGED <<spec, state, window, version>>
          BY <4>3 DEF CountSessions, TypeOK, TaskOf, tasks, works
        <5> QED BY <2>1, <5>1 DEF KilledIsStopped, Unraced
      <4>4. CASE AddWorktree(c)
        <5>1. /\ UNCHANGED <<spec, state, window>> /\ At(c, "add")
              /\ \/ pc'[c] = "insert" /\ UNCHANGED <<on, version>>
                 \/ pc'[c] = "idle"
          BY <4>4 DEF AddWorktree, TypeOK, tasks
        <5> QED BY <2>1, <5>1 DEF KilledIsStopped, Unraced
      <4>5. CASE OpenWindow(c, "open", "record") \/ OpenWindow(c, "reopen", "repin")
        <5>1. /\ pc'[c] \in {"record", "repin", "idle"} /\ state' = state
              /\ state[on[c]] # "killed" /\ on[c] \in Sessions
              /\ \A s \in Sessions : s # on[c] => window'[s] = window[s]
          BY <4>5 DEF OpenWindow, TypeOK, Unraced
        <5> QED BY <5>1 DEF KilledIsStopped, Unraced
      <4>6. CASE RecordWindow(c) \/ LiftBlock(c)
        <5>1. /\ pc'[c] \in {"kickoff", "idle"} /\ window' = window
              /\ \A s \in Sessions : state'[s] = "killed" => state[s] = "killed"
          BY <4>6 DEF RecordWindow, LiftBlock, transitionSession, Throws, TypeOK, works
        <5> QED BY <5>1 DEF KilledIsStopped, Unraced
      <4>7. CASE deliverKickoff(c) \/ Fail(c) \/ RepinPane(c)
        <5>1. pc'[c] \in {"kill", "idle"} /\ UNCHANGED <<state, window>>
          BY <4>7 DEF deliverKickoff, Fail, RepinPane, TypeOK, works
        <5> QED BY <5>1 DEF KilledIsStopped, Unraced
      <4>8. ASSUME NEW s \in Sessions,
                   killSession(c, s) \/ relaunchWindow(c, s) \/ unblock(c, s)
            PROVE Kept
        <5>1. /\ UNCHANGED <<state, window>>
              /\ \/ pc'[c] \in {"kill", "lift"}
                 \/ pc'[c] = "close" /\ on'[c] = s /\ state[s] = "running"
          BY <4>8 DEF killSession, relaunchWindow, unblock, TypeOK, works
        <5> QED BY <5>1 DEF KilledIsStopped, Unraced
      <4>9. CASE KillWindow(c) \/ CloseOldWindow(c)
        <5>1. /\ UNCHANGED <<state, on>>
              /\ window' = [window EXCEPT ![on[c]] = NoWindow]
              /\ \/ pc'[c] = "killrow"
                 \/ pc'[c] = "reopen" /\ At(c, "close")
          BY <4>9 DEF KillWindow, CloseOldWindow, CloseWindow, TypeOK
        <5>2. on[c] \in Sessions
          BY <4>9 DEF KillWindow, CloseOldWindow, TypeOK
        <5>3. \A s \in Sessions : window'[s] = window[s] \/ window'[s] = NoWindow
          BY <5>1, <5>2 DEF TypeOK
        <5>4. window'[on[c]] = NoWindow
          BY <5>1, <5>2 DEF TypeOK
        <5> QED BY <5>1, <5>3, <5>4 DEF KilledIsStopped, Unraced
      <4>10. CASE KillRow(c)
        <5>1. /\ pc'[c] = "idle" /\ window' = window
              /\ window[on[c]] = NoWindow
              /\ \A s \in Sessions : s # on[c] => state'[s] = state[s]
          BY <4>10 DEF KillRow, transitionSession, Throws, TypeOK, Unraced, works
        <5> QED BY <5>1 DEF KilledIsStopped, Unraced
      <4> QED BY <1>2, <3>1, <4>1, <4>2, <4>3, <4>4, <4>5, <4>6, <4>7, <4>8,
                 <4>9, <4>10 DEF Command
    <3>2. ASSUME UNCHANGED <<pc, on, version, spec>>,
                 \A s \in Sessions : state'[s] = "killed" => state[s] = "killed",
                 \A s \in Sessions : window'[s] = window[s] \/ window'[s] = NoWindow
          PROVE Kept
      <4>1. KilledIsStopped'
        BY <3>2 DEF KilledIsStopped
      <4>2. \A c \in Commands : pc[c] # "idle" => on[c] \in Sessions
        BY DEF TypeOK
      <4>3. Unraced'
        BY <2>1, <3>2, <4>2 DEF Unraced
      <4> QED BY <4>1, <4>3
    <3>3. ASSUME NEW r \in Sessions, markSessionDone(r) \/ WindowDies(r) PROVE Kept
      <4>1. /\ UNCHANGED <<pc, on, version, spec>>
            /\ \A s \in Sessions : state'[s] = "killed" => state[s] = "killed"
            /\ \A s \in Sessions : window'[s] = window[s] \/ window'[s] = NoWindow
        BY <3>3 DEF markSessionDone, WindowDies, CloseWindow, transitionSession,
                    TypeOK, commands, tasks, works
      <4> QED BY <3>2, <4>1
    <3>4. CASE Gate
      <4> USE DEF GateGoto, GateEnds, commands, tasks, works
      <4>1. UNCHANGED <<pc, on, version, spec>>
        BY <3>4 DEF Gate, planMerge, StagesPass, StagesFail, Land, RecordMerged,
                    Teardown, Reject, Park, SteerReport, Resume, GateFails
      <4>2. \A s \in Sessions : state'[s] = "killed" => state[s] = "killed"
        BY <3>4 DEF Gate, planMerge, StagesPass, StagesFail, Land, RecordMerged,
                    Teardown, Reject, Park, SteerReport, Resume, GateFails,
                    transitionSession, Throws, TypeOK
      <4>3. \A s \in Sessions : window'[s] = window[s] \/ window'[s] = NoWindow
        BY <3>4 DEF Gate, planMerge, StagesPass, StagesFail, Land, RecordMerged,
                    Teardown, Reject, Park, SteerReport, Resume, GateFails,
                    CloseWindow, TypeOK
      <4> QED BY <3>2, <4>1, <4>2, <4>3
    <3>5. CASE UNCHANGED vars
      <4>1. /\ UNCHANGED <<pc, on, version, spec>>
            /\ \A s \in Sessions : state'[s] = "killed" => state[s] = "killed"
            /\ \A s \in Sessions : window'[s] = window[s] \/ window'[s] = NoWindow
        BY <3>5 DEF vars
      <4> QED BY <3>2, <4>1
    <3> QED BY <3>1, <3>3, <3>4, <3>5 DEF Next
  <2> QED BY <2>2, <2>3, <2>4
<1> QED BY <1>1, <1>2

\* Nothing is claimed, killed or read at first.
LEMMA AloneInit == Init => AInv
BY DEF Init, AInv, OneClaim, SpecFrozen, KilledIsStopped, Unraced, Claims, At

\* The invariant of one command at a time, in every state.
LEMMA AloneInductive == ASSUME Alone PROVE Spec => []AInv
<1>1. TypeOK /\ TypeOK' /\ AInv /\ [Next]_vars => AInv'
  BY AloneStep
<1> QED BY <1>1, AloneInit, TypeCorrect, PTL DEF Spec

(***************************************************************************)
(* Commands given one at a time, with the gate, the agents and every crash  *)
(* beside them, never leave a task in two sessions' hands: a launch's claim *)
(* check still holds when its row is inserted.                              *)
(***************************************************************************)
THEOREM OneClaimWhenAlone == ASSUME Alone PROVE Spec => []OneClaim
BY AloneInductive, PTL DEF AInv

(***************************************************************************)
(* One at a time, no edit changes the spec a session was launched with.     *)
(***************************************************************************)
THEOREM SpecFrozenWhenAlone == ASSUME Alone PROVE Spec => []SpecFrozen
BY AloneInductive, PTL DEF AInv

(***************************************************************************)
(* One at a time, a killed session's window is closed, for good.            *)
(***************************************************************************)
THEOREM KilledIsStoppedWhenAlone == ASSUME Alone PROVE Spec => []KilledIsStopped
BY AloneInductive, PTL DEF AInv

-----------------------------------------------------------------------------
(* The cap, whatever runs beside what.                                      *)

\* The launches that have read the room and not inserted their row, and how far
\* they can pass the cap together: all but the last to read it.
InFlight == {c \in Commands : pc[c] \in {"count", "add", "insert"}}
Overrun == IF Commands = {} THEN 0 ELSE Cardinality(Commands) - 1

CapInv == /\ IsFiniteSet(Holding)
          /\ Cardinality(Holding) + Cardinality(InFlight) <= Cap + Overrun

\* Only an insert adds to the sessions holding scope, and only its own.
LEMMA HoldingStep ==
    ASSUME TypeOK, [Next]_vars
    PROVE  \/ Holding' \subseteq Holding
           \/ \E c \in Commands : insertSession(c) /\ Holding' \subseteq Holding \cup {on[c]}
<1>1. CASE \A c \in Commands : ~insertSession(c)
  <2>1. \A s \in Sessions : state'[s] = state[s] \/ canTransition(state[s], state'[s])
    BY <1>1, StateStep
  <2>2. \A s \in Sessions : Holds(s)' => Holds(s)
    BY <2>1 DEF Holds, Claims, isTerminal, canTransition, TRANSITIONS
  <2> QED BY <2>2 DEF Holding
<1>2. ASSUME NEW c \in Commands, insertSession(c)
      PROVE  Holding' \subseteq Holding \cup {on[c]}
  <2>1. \A s \in Sessions \ {on[c]} : state'[s] = state[s]
    BY <1>2 DEF insertSession, TypeOK
  <2> QED BY <2>1 DEF Holding, Holds, Claims
<1> QED BY <1>1, <1>2

\* A launch that goes on to its row counts in flight until then, and no other
\* step starts one but the one that reads the room.
LEMMA InFlightStep ==
    ASSUME TypeOK, [Next]_vars
    PROVE  /\ \/ InFlight' \subseteq InFlight
              \/ /\ Commands # {} /\ Cardinality(Holding) < Cap
                 /\ \A c \in Commands : ~insertSession(c)
           /\ \A c \in Commands : insertSession(c) => InFlight' = InFlight \ {c} /\ c \in InFlight
<1> USE DEF At, Step, Goto, Begin, Return, commands
<1>0. pc \in [Commands -> Steps]
  BY DEF TypeOK
<1>1. ASSUME NEW c \in Commands, insertSession(c)
      PROVE  InFlight' = InFlight \ {c} /\ c \in InFlight
  BY <1>0, <1>1 DEF insertSession, InFlight
<1>2. ASSUME NEW c \in Commands, NEW t \in Tasks, launchTask(c, t)
      PROVE  /\ Commands # {} /\ Cardinality(Holding) < Cap
             /\ \A d \in Commands : ~insertSession(d)
  <2>1. pc[c] = "idle" /\ pc'[c] = "count"
    BY <1>0, <1>2 DEF launchTask
  <2>2. ASSUME NEW d \in Commands, insertSession(d) PROVE FALSE
    BY <1>0, <2>1, <2>2 DEF insertSession
  <2> QED BY <1>2, <2>2 DEF launchTask
<1>3. ASSUME NEW c \in Commands, Command(c), \A t \in Tasks : ~launchTask(c, t)
      PROVE  InFlight' \subseteq InFlight
  <2>1. \A d \in Commands \ {c} : pc'[d] = pc[d]
    BY <1>0, <1>3 DEF Command, planTask, updateTaskSpec, deleteTask, CountSessions, AddWorktree,
       insertSession, OpenWindow, RecordWindow, deliverKickoff, killSession, relaunchWindow, unblock,
       KillWindow, KillRow, CloseOldWindow, RepinPane, LiftBlock, Fail
  <2>2. pc'[c] \in {"count", "add", "insert"} => pc[c] \in {"count", "add", "insert"}
    BY <1>0, <1>3 DEF Command, planTask, updateTaskSpec, deleteTask, CountSessions, AddWorktree,
       insertSession, OpenWindow, RecordWindow, deliverKickoff, killSession, relaunchWindow, unblock,
       KillWindow, KillRow, CloseOldWindow, RepinPane, LiftBlock, Fail
  <2> QED BY <2>1, <2>2 DEF InFlight
<1>4. ASSUME Gate \/ \E s \in Sessions : markSessionDone(s) \/ WindowDies(s)
      PROVE  InFlight' \subseteq InFlight
  <2>1. pc' = pc
    BY <1>4 DEF Gate, planMerge, StagesPass, StagesFail, Land, RecordMerged, Teardown, Reject, Park,
       SteerReport, Resume, GateFails, GateGoto, GateEnds, markSessionDone, WindowDies
  <2> QED BY <2>1 DEF InFlight
<1>5. ASSUME UNCHANGED vars PROVE InFlight' \subseteq InFlight
  BY <1>5 DEF vars, InFlight
<1> QED BY <1>1, <1>2, <1>3, <1>4, <1>5 DEF Next

LEMMA CapStep ==
    ASSUME IsFiniteSet(Commands), TypeOK, CapInv, [Next]_vars PROVE CapInv'
<1> USE DEF CapInv
<1>1. IsFiniteSet(InFlight) /\ IsFiniteSet(InFlight') /\ Cardinality(InFlight') <= Cardinality(Commands)
  <2>1. InFlight \in SUBSET Commands /\ InFlight' \in SUBSET Commands
    BY DEF InFlight
  <2> QED BY <2>1, FS_Subset
<1>2. /\ Cardinality(Holding) \in Nat /\ Cardinality(InFlight) \in Nat /\ Cardinality(InFlight') \in Nat
      /\ Cardinality(Commands) \in Nat /\ Cap \in Nat
  BY <1>1, FS_CardinalityType, BoundsAssumption
<1>3. Overrun' = Overrun /\ (Commands # {} => Overrun = Cardinality(Commands) - 1)
      /\ (Commands = {} => Overrun = 0)
  BY DEF Overrun
<1>4. CASE Holding' \subseteq Holding
  <2>1. IsFiniteSet(Holding') /\ Cardinality(Holding') <= Cardinality(Holding) /\ Cardinality(Holding') \in Nat
    BY <1>4, FS_Subset, FS_CardinalityType
  <2>2. CASE InFlight' \subseteq InFlight
    <3>1. Cardinality(InFlight') <= Cardinality(InFlight)
      BY <1>1, <2>2, FS_Subset
    <3> QED BY <1>2, <1>3, <2>1, <3>1 DEF Overrun
  <2>3. CASE Commands # {} /\ Cardinality(Holding) < Cap
    BY <1>1, <1>2, <1>3, <2>1, <2>3
  <2> QED BY <2>2, <2>3, InFlightStep
<1>5. ASSUME NEW c \in Commands, insertSession(c), Holding' \subseteq Holding \cup {on[c]} PROVE CapInv'
  <2>1. IsFiniteSet(Holding \cup {on[c]}) /\ Cardinality(Holding \cup {on[c]}) <= Cardinality(Holding) + 1
    BY <1>2, FS_AddElement
  <2>2. /\ IsFiniteSet(Holding') /\ Cardinality(Holding') <= Cardinality(Holding \cup {on[c]})
        /\ Cardinality(Holding') \in Nat /\ Cardinality(Holding \cup {on[c]}) \in Nat
    BY <1>5, <2>1, FS_Subset, FS_CardinalityType
  <2>3. Cardinality(InFlight') = Cardinality(InFlight) - 1
    BY <1>1, <1>5, InFlightStep, FS_RemoveElement
  <2>4. Overrun \in Int
    BY <1>2, <1>3
  <2> QED BY <1>2, <1>3, <2>1, <2>2, <2>3, <2>4
<1> QED BY <1>4, <1>5, HoldingStep

LEMMA CapInit == ASSUME IsFiniteSet(Commands) PROVE Init => CapInv
<1> SUFFICES ASSUME Init PROVE CapInv
  OBVIOUS
<1>1. Holding = {} /\ InFlight = {}
  BY DEF Init, Holding, Holds, Claims, InFlight
<1>2. Cardinality(Commands) \in Nat /\ (Commands # {} => Cardinality(Commands) # 0)
  BY FS_CardinalityType, FS_EmptySet
<1>3. Overrun \in Nat
  BY <1>2 DEF Overrun
<1> QED BY <1>1, <1>3, FS_EmptySet, BoundsAssumption DEF CapInv

(***************************************************************************)
(* With any number of commands side by side the cap is passed by no more    *)
(* than all but one of them: each launch counts the sessions before its     *)
(* worktree and its row, and nothing else adds to those that hold scope     *)
(* (assertRoomToLaunch, startSession).                                      *)
(***************************************************************************)
THEOREM CapOverrunIsBounded ==
    ASSUME IsFiniteSet(Commands) PROVE Spec => [](Cardinality(Holding) <= Cap + Overrun)
<1>1. CapInv => Cardinality(Holding) <= Cap + Overrun
  <2> SUFFICES ASSUME CapInv PROVE Cardinality(Holding) <= Cap + Overrun
    OBVIOUS
  <2>1. IsFiniteSet(InFlight)
    BY FS_Subset DEF InFlight
  <2>2. Cardinality(InFlight) \in Nat /\ Cardinality(Holding) \in Nat /\ Overrun \in Int /\ Cap \in Nat
    BY <2>1, FS_CardinalityType, BoundsAssumption DEF CapInv, Overrun
  <2> QED BY <2>2 DEF CapInv
<1>2. TypeOK /\ CapInv /\ [Next]_vars => CapInv'
  BY CapStep
<1> QED BY <1>1, <1>2, CapInit, TypeCorrect, PTL DEF Spec

(***************************************************************************)
(* One at a time they never pass it, whatever a kill, a block or a relaunch *)
(* does between (decision 96).                                              *)
(***************************************************************************)
THEOREM CapRespectedWhenAlone == ASSUME Alone PROVE Spec => []CapRespected
<1>1. IsFiniteSet(Commands) /\ Overrun = 0
  <2>1. CASE Commands = {}
    BY <2>1, FS_EmptySet DEF Overrun
  <2>2. ASSUME NEW c \in Commands PROVE IsFiniteSet(Commands) /\ Overrun = 0
    <3>1. Commands = {c}
      BY DEF Alone
    <3> QED BY <3>1, FS_Singleton DEF Overrun
  <2> QED BY <2>1, <2>2
<1>2. Cardinality(Holding) <= Cap + Overrun => CapRespected
  BY <1>1, BoundsAssumption DEF CapRespected
<1> QED BY <1>1, <1>2, CapOverrunIsBounded, PTL
=============================================================================
