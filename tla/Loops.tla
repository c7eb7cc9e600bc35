------------------------------- MODULE Loops --------------------------------
(***************************************************************************)
(* The parts of pup that run on and must come to an end, or come round      *)
(* again: the dashboard's keys, the watchdog, a child of the gate, the      *)
(* commands of a measurement, the search for the files a test loads, and    *)
(* the reads of a hook. They share no state, so each is followed with the   *)
(* others at rest.                                                          *)
(***************************************************************************)
EXTENDS Controls, Watch, GateChild, Stages, DiffSize, HookClock

partVars == <<controlsVars, watchVars, childVars, stagesVars, sizeVars,
              hookClockVars>>

\* One part begins, the others rest
Init ==
    /\ subject \in {"controls", "watch", "gatechild", "stages", "diffsize",
                    "hookclock"}
    /\ IF subject = "controls" THEN ControlsInit ELSE ControlsRests
    /\ IF subject = "watch" THEN WatchInit ELSE WatchRests
    /\ IF subject = "gatechild" THEN ChildInit ELSE ChildRests
    /\ IF subject = "stages" THEN StagesInit ELSE StagesRests
    /\ IF subject = "diffsize" THEN SizeInit ELSE SizeRests
    /\ IF subject = "hookclock" THEN HookClockInit ELSE HookClockRests

Next ==
    /\ UNCHANGED <<subject, given>>
    /\ IF subject = "controls" THEN ControlsNext ELSE UNCHANGED controlsVars
    /\ IF subject = "watch" THEN WatchNext ELSE UNCHANGED watchVars
    /\ IF subject = "gatechild" THEN ChildNext ELSE UNCHANGED childVars
    /\ IF subject = "stages" THEN StagesNext ELSE UNCHANGED stagesVars
    /\ IF subject = "diffsize" THEN SizeNext ELSE UNCHANGED sizeVars
    /\ IF subject = "hookclock" THEN HookClockNext ELSE UNCHANGED hookClockVars

Fair == ControlsFair /\ WatchFair /\ ChildFair /\ StagesFair /\ SizeFair
Spec == Init /\ [][Next]_<<subject, given, partVars>> /\ Fair
-----------------------------------------------------------------------------
\* The values each part's variables take, while it is the subject.
LoopsTypeOK ==
    CASE subject = "controls" -> ControlsTypeOK
      [] subject = "watch" -> WatchTypeOK
      [] subject = "gatechild" -> ChildTypeOK
      [] subject = "stages" -> StagesTypeOK
      [] subject = "diffsize" -> SizeTypeOK
      [] subject = "hookclock" -> HookClockTypeOK

-----------------------------------------------------------------------------
(* What the parts promise, each of its own.                                 *)

\* A verdict is of what ran to its own end: no interrupt, timeout, kill or wait
\* that ran out is read as one, by a child of the gate, a measurement or a hook.
VerdictsAreMeasured ==
    /\ InterruptedIsNoVerdict /\ PassIsWhole
    /\ InterruptIsNoVerdict /\ OnlyItsOwnFailureIsRetried
    /\ AnswersInTime /\ PassIsAnswered

\* What runs is held by what started it, one at a time where there is room for
\* one, and what is over has left nothing running: a child, a measurement, a
\* hook, the dashboard.
RunsAreHeld ==
    /\ NothingOutlivesItsStage /\ HearsWhileAChildRuns /\ NeverUnconfined
    /\ NothingIsLeftRunning /\ OneSuiteAtATime
    /\ NothingIsLeft
    /\ OneActionAtATime /\ NoMergeOutlivesTheScreen

\* What the gate reports of a branch is so: a pass is of every command, a failure
\* is the branch's, and a test is nobody's source (measureBranch, countChangedLines).
ReportIsTrue == PassIsOfEveryCommand /\ FailureIsReported /\ OnlyUnloadedTestsAreTests

\* The dashboard does what it was asked, to what it named (answerPrompt).
ScreenActsAsAsked == ActsOnWhatItNamed /\ UnblocksOnlyTheBlocked

\* What waits comes round: a dead turn is resumed, a stopped child and its group
\* end, a measurement and a search come to a result, the keys come back.
EverythingComesRound ==
    /\ EveryDeadTurnIsResumed /\ KeysComeBack
    /\ NothingOutlivesPup /\ StoppedChildSettles
    /\ MeasurementEnds /\ SearchEnds
=============================================================================
