# Pupitre in TLA+

Pupitre runs a fleet of coding agents. Each *session* is an agent in a tmux
window with a git worktree and a branch of its own, working on one *task*; a
*merge gate* measures what it did and lands it, in place or through a pull
request. Several processes act on the same store, the same git repository, the
same GitHub and the same machine at once: the operator's commands, a conductor
agent's commands, the agents' own `pup session ...`, the gate, the CI's review,
the watchers. They share nothing but SQLite, git, files and tmux, and any of them
may be killed between any two calls. That is what these modules are about.

## The system

| part | state it keeps | operations | talks to | module |
|---|---|---|---|---|
| merge lock (`withMergeLock`) | `.git/pup-merge.lock/pid`, its reclaim lock | take, wait, reclaim, release | other runs, by files | `MergeLock` |
| test slots (`test-slot.service.ts`) | `~/.pupitre/slots/slot-N.lock`, `gate-*.wait` | wait, take, reclaim, release | every suite of the machine | `TestSlots` |
| sessions and their store (`session-lifecycle.service.ts`, `session.repository.ts`) | tables `tasks`, `sessions`, `events`; windows; branches | plan, edit, drop, launch, kill, unblock, done | store, git, tmux, gate | `SessionLifecycle` |
| routing ladder (`routing.utils.ts`) | a session's rung, read off its events | route a launch, respawn or round | store | `Routing` |
| handoff and respawn (`session-handoff.service.ts`) | the request and its signal on the log, the document | ask, wait, relaunch | store, tmux, files | `Handoff` |
| merge gate (`merge-gate.service.ts`) | target ref, checkouts, ledger, baseline, `merge_result` events | plan, gate, land or open a PR, reject | lock, slots, store, git, GitHub | `MergeGate`, `Landing` |
| a measurement of the gate | its jobs, its slot, its checkout | build, test, lint, retry, judge | children, slots | `Stages` |
| a gate's child and sandbox (`sandbox.utils.ts`) | a process group, pipes, a watcher | spawn, forward, stop, settle | the system | `GateChild` |
| the gate's cut, the size of a diff | the checkout's links; who loads which test | vet, link, count | git | `Links`, `DiffSize` |
| pull requests (`fix-round.service.ts`, `regate.service.ts`, `land.service.ts`) | the PR, `fix_round`, `merge` and `landed` events | fix, re-gate, land, kill | lock, store, git, GitHub, tmux | `PullRequest`, `LandMerge`, `Answers` |
| the CI's review and `pup ci wait` | reviews, the status of a head, the metrics branch | preflight, post, record; digest | GitHub | `CiReview` |
| debt baseline and audit (`debt.service.ts`, `audit.service.ts`) | `projects.baseline` | capture, judge, ratchet | adapters, store | `Baseline` |
| session runtime (`session-runtime.service.ts`) | a pane | steer, interrupt, tell | tmux, store | `Pane` |
| turn watchdog and radar (`turn-watchdog.service.ts`, `pup watch`) | `turn_died` events, a beat | sweep, resume, nudge | store, tmux | `Pane`, `Watch` |
| conductor (`conductor.service.ts`) | its window, profile, cap and checkout | start, stop | tmux, git, files | `Conductor` |
| hooks of a session (`profile-compiler.service.ts`) | a snapshot of the worktree | scope check, recheck, deadline | the agent, git | `Recheck`, `HookClock` |
| terminal dashboard (`use-controls.hook.ts`, `dashboard.service.ts`) | a table, a question, an action | keys; the needs-you inbox | store, children | `Controls`, `Inbox` |
| web dashboard, report, mind map, usage, adapters, code map, intents | text, caches | render, run, parse | - | not modelled |

What is hard: the lock and slot files are read, judged and then moved by path, so
what is judged need not be what is moved; a command reads the store or GitHub, works
on git and tmux for seconds, and writes on the strength of what it read; a gate runs
for minutes beside kills and unblocks, and its children do not die in the order they
were started; nothing locks a pane; a decision is read back from a log that several
commands append to; and a crash can fall between a ref and the row that records it.
`PROJECT.json` lists each such place at its line under "hazards", with the properties
that would catch it and what they leave out.

## How the project is laid out

Six systems of actors that share state have a module and runs of their own:
`MergeLock`, `TestSlots`, `SessionLifecycle`, `MergeGate` (with the abstract
`Landing`), `PullRequest` and `Pane`. `SessionStates` is the state machine of
`session-state.utils.ts`, which three of them use. The smaller parts are gathered
in two compositions: `Rules`, ten parts that decide from a record, and
`Loops`, six parts that wait and must end. The parts in one composition share
no state, so a product of them would be of no interest: `Subject` declares which
part a behaviour is about (`subject`), and what that part is given (`given`: a host,
a log, a set of links, a fixed input), the others stay at the values of their `...Rests`.
The runs take those of `Rules` in two groups (`Parts`).
A run's states are then the sum of the parts', and a property of a part says so
(`subject = ...`).

An MC module gives a specification a symmetry set or a bounded input; each cfg gives
the constants. A `...Proofs` module holds a module's theorems: `LockProofs` those of `MergeLock`
and `TestSlots`, whose definitions therefore have names of their own, and `ReviewProofs` what
`RulesProofs` draws on for five of the parts of `Rules`.

## Modules

### MergeLock

`lock` is the directory at the lock path: who made it (its dev and ino) and the pid
inside. `reclaiming` is the same for the reclaim lock, `aged` whether it is older
than `RECLAIM_STALE_MS`. Each run has a program counter over the system calls of
`withMergeLock`, the identity it read after its mkdir, the pid it last read, and how
long it has seen a pidless lock. `intruded` is a history variable: some run's
reclaim lock was removed by another while it was using it. That is the one way
the code can lose mutual exclusion, so the properties say what holds up to then.

The caller's deadline is left open: a run may give up at any answer, which covers
`pup fix` (no wait) and every `MERGE_LOCK_WAIT_MS`. The pidless second is the
two-step counter `pidless`. Time is otherwise only `Age`: with `Stalls` TRUE a
reclaim may be suspended past ten seconds, with `Stalls` FALSE only a killed
run's reclaim lock ages.

### TestSlots

`slot` is what is at each slot's path, `aside` what a reclaimer moved aside,
`waiting` the wait files, `late` the gates past `GATE_SLOT_WAIT_MS`. `lost` is a
history variable: runs under way whose file was lost in one of the three ways the
code leaves open (the path was taken before the link back, the reclaimer died, a
release unlinked another's file). Slots start with or without a dead holder's file.
Junk files, fifos and links read as a dead holder's, so they are the value `Stale`.

### SessionLifecycle

`state`, `compiled`, `rejects`, `pane` are columns of `sessions`; `planned` and `spec`
the tasks; `window`, `branches`, `landed` what git and tmux hold; `pc`, `on`, `version`
what each command is doing; `gatePc`, `gateOn` the gate. `resteers` is a history
variable. A command's step is the stretch from one store read or write, or one git
or tmux effect, to the next; `Fail` ends a command between any two.

### MergeGate and Landing

`log` is the commits, each a set of ancestors and a set of changes; `target`, `branch`,
`remote`, `tracking` are refs into it; `index` and `tree` what the main checkout and the
worktree hold (a change is in the files and the index, or in neither); `head` and `away`
what they have checked out. `row`, `filed`, `bar`, `recorded` are the store: the session's
state, its open ledger entry, the baseline, the merge event. `run` is the gate's local
state: where it is, the plan (`pr`, `adopted`), the pins (`base`, `pin`), and two history
fields, `passed` and `landed`, for the refinement. The lock makes runs one at a time, so
there is one `run`; `MergeLock` says when that fails.

| code | action |
|---|---|
| `planMerge` (state, HEAD, `findOpenPullRequest`) | `planMerge` |
| worktree-clean | `Clean` |
| fresh-base: pin the target, look at the branch | `PinTarget`, then `Rebase` or `MergeTree`, `SwapBranch`, `FollowMerge`, `UndoMerge`; `Settle` pins the branch |
| `measureBranch` | `Measure`: it fails, throws, or passes with or without an accepted flag |
| `fileAcceptedDebt` | `fileAcceptedDebt` |
| HEAD and target read again, `fastForward` | `Recheck`, `MoveCheckout`, `MoveTarget`, `RestoreCheckout` |
| `pushBranch`, the PR calls, `assertPullRequestHead` | `PushBranch`, `TrackPush`, `OpenPullRequest`, `VerifyHead` |
| the record, the teardown, the ratchet | `RecordMerged`, `KillWindow`, `RemoveWorktree`, `RecordMerge`, `Ratchet` |

Abstractions. A rebase is one commit for those it replays, and any merge may conflict. A
commit takes all of the worktree's files. The session pushes by URL only, so it never
moves `tracking`; a push that did would only renew the lease. `Measure` is
a choice: what the stages compute is not modelled, nor is an entry a retry files under
other figures, another reason, or after the first was closed. `torn` is a
history variable: a ref and its checkout were apart when a commit, a switch or a crash fell
between the gate's two moves, or when a restore was refused. The code promises nothing
after that (its errors say so), and the properties about files are about the rest. A switch
of the main checkout that no plain run under way can see is left out; so is
a run that starts on another branch and merges into that one.

`Landing` has the commits that exist, the target's tip, the verdicts and landings of the
current run, and whether the session reads merged. `MergeGate` implements it: `KeepsPromise`.

### PullRequest

One session with an open pull request; `Cmds` run fix, kill, gate, re-gate and land.
`state`, `pane`, `rejects`, `log` are the row and its events; `worktree`, `branch`,
`pushed`, `tracking` git; `remote`, `origin`, `pulls` GitHub; `my[c]` what a command
has read. A tip is the set of commits it holds, so an ancestor is a subset.

| code | actions |
|---|---|
| `prepareFixRound`, `takeFixRoundEdge`, `startFixRound`, its undo | `FixReads`, `FixReview`, `FixLocks`, `restoreWorktree`, `takeFixRoundEdge`, `KillOldWindow`, `OpenWindow`, `StorePane`, `Kickoff`, `Judge`, `DropWindow` |
| `killSession` | `killSession`, `KillWindow`, `KillRow`, `Sweep` |
| the gate of a round, a re-gate | `planMerge`, `GateLocks`, `Settle`, `Measure`, `PushBranch`, `OpenPullRequest`, `VerifyHead`, `RecordMerged`, `CloseWindow`, `Teardown`, `RecordMerge`, `Reject`, `Park`, `SteerReport`, `Resume` |
| `pup land` | `LandReads`, `LandAsks`, `LandLocks`, `Land` |

What a landing looks like commit by commit is `LandMerge`'s: `mergedOnto` here is
whether the content is the pin's.

### Pane

One window, a session's or the conductor's. `box` is the text in the input box,
`pending` and `keys` what the interface was sent and has not acted on, `turn` the
agent's turn, `stamp` and `answer` the ages of the newest hook event and of the
newest `turn_died`. A step is one tmux call or one store call. `steerPane` is `Look`, `Clear`,
`Cleared`, `PasteText`, `PasteLanded`, `PressEnter`, `Verify`, `GiveUp`, `Record`; the
watchdog `Sweep`, `ReadDeadTurn`, `BeginResume`, `Resume`, `Nudge`. The interface shows
and acts when it likes, drops keys (`Swallow`, of which any number is one upset), opens dialogs; a
person types. `eaten` is a history variable: the Enters of a command that were dropped.

### Rules: ten parts that decide from a record

| module | state | actions and code |
|---|---|---|
| `Routing` | rung, log, state of one task's newest session | `Relaunch`, `Respawn`, `FixRound` and its undo, beside what the gate, the watchdog and commands append; `nextWindowRoute`, `windowFailure`, `fixRoundFailure` are folds of the log |
| `Conductor` | target, checkout and git's registration, profile, cap file, window, radar and the age of its beat | two starts, call by call, any killed: `Compile`, `WriteCap`, `Refreshed`, `Recut`, `Prune`, `Add`, `Cut`, `Index`, `Close`, `OpenWindow`, `Kickoff`, `Undo`, `Radar`; `Stop`; a radar that sweeps (`ScanOverlaps`), ends and leaves its beat (`RadarEnds`), is started again (`Watches`), and intervals that pass |
| `Baseline` | debt on the target, which tools run, the bar | `InitProject`, `GateDebt`, `Merge`, `Audit`, `AuditEnds`, with tools that break and come back |
| `Links` | the links vetted so far, the checkout | `Vet`, `LinkEnvironment`, over every set of two committed links with targets of up to three segments; `realpathSync` reads them as node:fs does, by their spelling, `LeadsTo` is where the file system goes |
| `CiReview` | the PR, its reviews, status, run and metrics record | the workflow's steps, two triggers, cancels and refused posts, findings edited or hidden; `reviewDigest`, `reviewVerdict`, `newestReviewRun` are what pup reads |
| `Answers` | branch, target, review, the round's events, replies | the worker, the bot, rounds and gates; `threadAnswers`, `filesTheRoundChanged` and the calls they come to, cut anywhere |
| `LandMerge` | the run of `pup land`, worktree, branch, peers | `mergedOnto` against what GitHub's buttons make, over every short history; teardown and steers |
| `Handoff` | row, window, document, log | two runs of `pup respawn` or `kill --respawn`: `RunStep` through ask, wait, kill, index, launch, kickoff; the session and a stranger write the file |
| `Recheck` | contents of three paths, texts or what has no sum of its own, HEAD, the calls | `PreBash`, `PostBash`, `PostTaskOutput`, `Edit`, beside writes, merges of the target and background processes |
| `Inbox` | row, log, ages, git's cached answers | every command that changes what the inbox reads; `Look` computes the line (`needOf`, `NEED_ORDER`) |

### Loops: six parts that wait and must end

| module | state | actions and code |
|---|---|---|
| `Controls` | the fleet, the table as read, cursor, question, flight, merge child | a key an action (`Ask`, `AnswerNow`, `AnswerLater`, `AnswerMerge`, `Cancel`, `KeyQuit`, `InterruptSelected`), `Landed`, `ChildEnds`, `Refresh`, others' changes |
| `Watch` | the loop's place, the sweep's list, turns and their ages | `Loop` (scan, sweep, report, sleep), faults, dialogs, the clock |
| `GateChild` | group, pipes, lifeline, verdict, pup | `Spawn`, `Fork`, `ProcessEnds`, `Stop`, `InterruptPup`, `WatcherKills`, `PupSteps` (`letGo`, `closePipes`, `settle`), `EndSandboxRun` |
| `Stages` | each job's state, the slot, the outcome | `Built`, `Measure`, `GetSlot`, `RunSuite`, `CommandEnds`, `SuitesDone`, `Dispose`, `Interrupt`, `Judge` |
| `DiffSize` | the rounds of `git grep`, who names whom | `Round`, `FollowBack`, `Split`, over every graph of three test files, a source and a document |
| `HookClock` | time, a read, its watcher | `ForkRead`, `Reap`, `StopWatcher`, `Return`, `OutOfTime`, `Allow`, `ReadEnds`, `Watcher`, `Tick` |

## Runs

| run | instance | what it shows |
|---|---|---|
| `MergeLock_all` | 3 runs, stalls, fair | exclusion unless intruded; live locks stay; every run that lives ends without its deadline |
| `TestSlots_all` | 2 gates, 1 worker, 2 slots, fair | suites bounded by the slots; no overtaking; every run goes ahead |
| `SessionLifecycle_safety` | 2 tasks, 1 command, cap 1, 2 sessions, reject cap 1, 3 failed gates | the cap; frozen spec; killed is stopped; bounded re-steers |
| `SessionLifecycle_overlap` | 1 task, 2 commands, 2 sessions | **violation**: two claims of one task |
| `MergeGate_safety` | 2 changes of the session, 1 of others, 4 commits | `KeepsPromise` (`Landing`); `WorkIsKept`; `DebtFollowsLandings`; `LeftBehindIsTold`; `ReviewedCommitsStay` |
| `MergeGate_switched` | 1 change, 2 commits | **violation**: a fast-forward over another branch's checkout |
| `PullRequest_safety` | 2 at a time of 3 commands, 3 failed gates, 2 PRs, 2 commits, 1 crash | types; only what was measured lands; no commit lost; merged is stopped; `CommandsKeepToTheRecord` |
| `PullRequest_killed` | the same without a crash | **violation**: a round that was killed is pushed, recorded and answered |
| `Pane_all` | 1 client, the watcher, a person, 1 command, 1 death, 1 upset | types; `MessageIsWholeOrNothing`; `SeenIsLeftAlone` |
| `Rules_fleet` | `Routing`, `Conductor`, `Baseline`, `Handoff`, each on the smallest instance its properties can fail on | one property a part (below) and the types, over 2.2 million states |
| `Rules_review` | `Links`, `CiReview`, `Answers`, `LandMerge`, `Recheck`, `Inbox`, likewise | the same, over 2.6 million states |
| `Loops_all` | the six parts: 2 rows, 2 sessions, 2 packages, 3 test files, 3 reads, fair | five properties (below) and the types, over 190 thousand states |

Where several promises are about one piece of state, a run checks their conjunction; each
conjunct is a definition of its own with its comment, and TLC names the conjunct of an action
property that fails.

| property | its conjuncts |
|---|---|
| `WorkIsKept` | `NothingCommittedIsLost`, `TargetKeepsItsWork`, `CheckoutsFollowRefs` |
| `DebtFollowsLandings` | `DebtIsFiledOnce`, `BarHasLanded` |
| `CommandsKeepToTheRecord` | `RoundStartsAtThePin`, `RoundHasItsOwnCap`, `LandingStands` |
| `MessageIsWholeOrNothing` | `OnRecordIffSubmitted`, `RefusedLeavesNothing` |
| `SeenIsLeftAlone` | `SeenDialogsAreLeftAlone`, `DraftsAreLeftAlone`, `ResumesOncePerStall` |
| `RungsAreEarned` (`Routing`) | `OneFailureOneRung`, `RoundsClimbOnRepeats`, `TopRungIsTheOperators` |
| `StartIsWhole` (`Conductor`) | `NoUntoldConductor`, `CapIsAsTold`, `GraphIsOfTheTip`, `OnlyALockIsFinal`, `StartedWithARadar` |
| `DebtIsJudgedOnce` (`Baseline`) | `KnownIsNotFlaggedAgain`, `BarRisesOnlyTold` |
| `BranchOwnsItsFiles` (`Links`, `Recheck`) | `NoLinkEscapes`, `LinkedFileIsSource`; `NoWriteGoesUnsaid`, `MergingInIsNoViolation` |
| `WaitIsTrue` (`CiReview`) | `ReadyIsRead`, `StatusHasItsReview`, `AnswerIsTheLastWord`, `NamedStepIsTaken`, `RoundGetsTheWholeRun` |
| `AnswersAreTrue` (`Answers`) | `ResolvedIsEarned`, `AnsweredOncePerHead`, `SummaryIsTrue` |
| `LandingIsThePins` (`LandMerge`) | `LandedIsThePin`, `ButtonIsTaken`, `OverlapsAreTold`, `PastIsKept` |
| `WindowIsAsSignalled` (`Handoff`) | `KickoffIsTheAnswer`, `GraphIsOfWhatItFinds`, `WaitingOpensNothing` |
| `InboxIsTrue` (`Inbox`) | `NobodyWaitsUnseen`, `NothingSettledIsSeen`, `BlockIsTold` |
| `VerdictsAreMeasured` (`Loops`) | of a child `PassIsWhole`, `InterruptedIsNoVerdict`; of a measurement `InterruptIsNoVerdict`, `OnlyItsOwnFailureIsRetried`; of a hook `AnswersInTime`, `PassIsAnswered` |
| `RunsAreHeld` (`Loops`) | `NothingOutlivesItsStage`, `HearsWhileAChildRuns`, `NeverUnconfined`, `NothingIsLeftRunning`, `OneSuiteAtATime`, `NothingIsLeft`, `OneActionAtATime`, `NoMergeOutlivesTheScreen` |
| `ReportIsTrue` (`Loops`) | `PassIsOfEveryCommand`, `FailureIsReported`, `OnlyUnloadedTestsAreTests` |
| `ScreenActsAsAsked` (`Loops`) | `ActsOnWhatItNamed`, `UnblocksOnlyTheBlocked` |
| `EverythingComesRound` (`Loops`, liveness) | `EveryDeadTurnIsResumed`, `KeysComeBack`, `NothingOutlivesPup`, `StoppedChildSettles`, `MeasurementEnds`, `SearchEnds` |

The types of `MergeLock`, `TestSlots`, `SessionLifecycle` and `MergeGate`, and
`PidlessOnlyBeforeWrite`, `HasItsSlot`, `WaitFilesAreWaits`, `MergedIsLanded` and
`TerminalForever`, are proved for every instance, so no run repeats them; `OneClaim` is proved of
commands one at a time and refuted of two. What two commands at once do to a row is in the
theorems, which bound neither commands nor tasks.

**Bounds.** Three lock runs are two dead ones and one to end; the intrusion itself
needs a fourth, so that the exception in `ExclusiveUnlessIntruded` is only ever needed
by a larger instance, and the theorem covers it. Three processes on two slots let one be reclaimed
while two take. `MaxSessions` 2 with two tasks covers a relaunch after a
kill and two tasks that compete for one place under the cap. `MaxFails` 3 is two
past `MaxRejects` 1, so a session is parked, unblocked and parked again.
`MaxEdits` 1 tells two versions of a spec apart. `MaxCommits` 4 of `MergeGate` is the first
commit, then one of the operator's, one of the session's and the rebase or the merge of them; or
one of the session's, one past the pin and one of the operator's in the way. In
`PullRequest` three commands are a round, what comes between and what meets it; the first run used its
reject cap up (`FirstRejects`), since a count that was never its own shows on nothing less; two pull
requests are one and its successor. `ClearLimit` 3 is two chunks and a try more. In `Rules`,
`MaxLog` 6 is a round after a respawn after a failure; two conductor starts are one and the
one that finds what it left; `StaleSweeps` 1, where the code has 3, is a beat that is fresh, one that
is just trusted and one that is not; `MaxUpsets` 2 a tool that goes and comes back; targets of three
segments are a link through a link and a climb; two pushes and two mishaps a head reviewed in
part after a run that failed; two versions and three commits of a landing a commit that
undoes another; two respawns one that overtakes; two calls one beside another, over texts of a tracked file and one
kind at a time of what has no sum of its own (`Makes`); `MaxLogged` 6
the longest history of one line of the inbox. In `Loops`, `MaxOutside` 3 blocks a
session, ends it and launches it again under a standing question; three test files make a ring
with a way in; `Timeout` 4 is the least whose deadline leaves a second for a read and a second past it.
Every bound is a CONSTANT with a guard that names it. Commands are symmetric in the
safety runs; runs with liveness properties use no symmetry.

**Fairness**, weak, and of one named action or process each. `MergeLock`: a run that is not
killed takes its next step (its calls return; every stage of a gate has a timeout) and clocks
run; no deadline is owed, so nobody is let off by giving up. `TestSlots`: a process takes its
next step; a gate's lateness is never owed. `Watch`: a loop that is up goes round and ages pass.
`Controls`: an action lands (each has a deadline) and a merge's process ends; an attach need not.
`GateChild`: pup's event loop and timers run, and so does the watcher; nothing a command does is
fair. `Stages`: a command ends (`GateChild` shows it does, by its timeout) and the waits have a
deadline. `DiffSize`: git answers. Kills, crashes, interrupts and failures are never fair. The
other modules have no liveness property: operators and agents are people and models, and
nothing makes them act.

**Deadlock** is not checked: in every module everything may be over
(every run ended, every question answered, every bound used up).

## Where the code and its words part

1. `SessionLifecycle_overlap`. `launchTask` checks the claim seconds before the row
   exists, and the insert has no guard. One dashboard gives commands one at a time
   (docs/02-cli.md: "While an action is in flight the keys are deaf"); a second
   terminal or the conductor does not wait for it.
2. `MergeGate_switched`. The comment on `fastForward` says the compare-and-swap covers the
   window after HEAD is read again. It covers a target that moved; a `git switch` moves
   only HEAD, the swap succeeds, and another branch's checkout has the session's changes.
3. `PullRequest_killed`. `gateAndMerge` reads the session once, when it plans. A `pup kill`
   during the gate of a round takes the row back to `merged`; the gate then pushes the
   abandoned round, and its transition to `merged` is a silent no-op. The plain gate of a
   first run has the same window.

Smaller departures, each an exception a property names, or a behaviour met while modelling:

- `steerPane` presses Enter up to `SUBMIT_RETRY_LIMIT` times more, each time the box still holds the
  text; after the last it does not look, though its comment says that "submission is verified against
  the pane and Enter retried" (`session-runtime.service.ts:1050-1051`). A steer whose every Enter the
  interface swallowed is on record with its message in the box (`AllSwallowed`, which
  `OnRecordIffSubmitted` excepts).
- "`start` also brings the conflict radar up when none is running" (docs/02-cli.md:171-172) is so of a
  radar that has been gone for 45 seconds. One that died or was stopped within them, or a scan by hand
  (`pup watch --once`), leaves a beat a start takes for a radar's, and it brings none up
  (`StartedWithARadar` says for how long).
- The gate refuses "committed symlinks [that] reach outside the checkout"
  (`merge-gate.service.ts:1134`) by what `realpathSync` of node:fs says, which joins each target by its
  spelling: with `d/k -> ..`, the link `l -> d/k/..` reads as `d` and leads to the checkout's parent.
  Only a dangling link is asked whether it climbs past a name (`climbsPastLink`, which `NoLinkEscapes`
  excepts).
- A reclaim lock stranded by a killed reclaimer is replaced by `rmdir` of its path, so of two
  runs that judged it stale the second can remove the first's; that, and a reclaim stalled past
  its stale time, is the only way two runs get inside (`ExclusiveUnlessIntruded`).
- A moved-aside live take can be linked back after its run released it, and stays until that
  process exits (`TestSlots`).
- A gap that init recorded stays recorded after a gate ratchets the full figure, so a tool
  that breaks again drops its figure untold, against the comment at `audit.service.ts:148`.
- A run of the review whose post was refused records a clean run, so the next push is
  reviewed only from that head on; the status says failure (`ReadyIsRead` excepts it).
- `pup ci wait` names `pup fix` for a review whose finding was edited or hidden on GitHub;
  `pup fix` refuses it, with the thread to resolve by hand (`NamedStepIsTaken` says so).
- The recheck of a Bash call has one sum for all links, fifos and unreadable files, for a name with
  a control character, for whatever git says is deleted, and one a size for large files: a path that was
  dirty and keeps such a sum changes unsaid (docs/adr/0063 lists these; `NoWriteGoesUnsaid` excepts them).
- Nothing retires a handoff request once it was answered: a second `pup respawn` relaunches at
  once on the previous document, where docs/02-cli.md:189-190 says it asks and waits.
- A gate killed between the transition to merged and the merge event leaves a pull request that
  no line of the inbox shows; one killed before it steers a rejected session, a row that only
  `pup kill` leads out of.
- A conductor start killed half way leaves an untold window; an audit beside a gate
  writes a bar it read before the gate's.
- The claude and tmux windows of a launch stay open for the seconds before its row exists, and
  a branch of a launch that was killed refuses every later launch of its task.

## Proofs

All theorems hold for every value of the constants under the named ASSUMEs
(distinctness of the "nothing" values, finiteness, bounds that are naturals).

**LockProofs**, of `MergeLock`. `TypeCorrect`, then `ExclusiveUntilIntruded`, `PidlessIsUnwritten`
and `LiveLockIsKept` from one inductive invariant. Exclusion alone is not inductive:
a run in `drop` would take a live lock away if nothing said what it knows. `IInv`
adds, until the first intrusion: `OneReclaimer` (a run inside the reclaim is the
maker of the reclaim lock, so there is one), `HolderDead` (the pid a reclaimer
remembers is a dead run's), `PidIsMaker` (a pid in the lock is its maker's),
`TakerOwns` (a run that is taking or inside is the maker of what is at the path)
and `Pidless`. `intruded` never goes back to FALSE, so the temporal theorem follows.

**LockProofs**, of `TestSlots`. `SlotIsHeld`, `WaitFilesAreOfWaits`, `NobodyOvertakes` and, from the
first, `SuitesAreBounded`. `HasItsSlot` is not inductive without `SetAside`: only a run that
inspects holds a file aside. `NoOvertaking` is about a step, so `Chosen` carries what the worker saw
from its choice to its take, and `Entered` says a gate counted then cannot start its wait anew.
The bound is a counting argument: a run that is neither lost nor aside nor late maps to its slot's
index, no two to one, and an injection into `1 .. NSlots` bounds the cardinality.

**SessionLifecycleProofs.** `TerminalIsForever` needs only that every write of a
state asks `canTransition`. `MergedWasLanded` needs `LandedFirst`: while the gate is
at `record` its session is landed. `ResteersAreBounded` needs `ReportsPaid`: every
re-steer was preceded by a count, with one more while the gate is about to steer.
`OneClaimWhenAlone`, `SpecFrozenWhenAlone` and `KilledIsStoppedWhenAlone` assume `Alone`, that
there is one command process, and use `Unraced`: what a launch read still holds when it
is used, since nothing else could have changed it. Run `SessionLifecycle_overlap`
shows that the assumption is needed.
`CapOverrunIsBounded` needs no such assumption: a launch that has read the room and not
inserted its row is counted in flight, and sessions and launches in flight together pass the cap
by at most the other commands (`CapInv`, by the cardinality of finite sets), since a read
of the room puts at most one command in flight for good. With one command that is the cap itself,
`CapRespectedWhenAlone`.

**MergeGateProofs.** One inductive invariant `Inv`, and the lemma `CommitGrows`: a new commit
changes none there was. `Closed` makes histories transitive, without which "the base is in
the pin" would not give "the target's past is in the pin's". `Stage` ties the run to the row
and to its verdict: without it the types let a run land without one. `Filed`, `Reviewed`,
`Based` and `Told` each strengthen one property with what a run in flight has done already.
`DebtFollows` is `DebtFiled` and `BarLanded` together.
`PromiseKept` then goes action by action: each is a step of `Landing` or shows nothing.
`WorkIsKeptHolds` is about what git's merges do to files, and needs a second invariant, `FilesInv`.
`Carried` says where a change of the session's may be at each step of a run: in the branch or
in the target's past (`Kept`, which only grows: `KeptGrows`), while a merge is under way in both of
its ends, once the branch may go in origin's too. It holds even of refs and checkouts caught
apart. While none is (`~torn`), `Sounds` says that every commit in use has all its past had, which is
what makes a merge drop nothing (`MergeKeeps`, with the merge base as a last common commit, `LatestExists`),
and `Foreign` that others' changes come with a base alone, so that the operator's next commit
cannot collide with the pin a checkout is about to show; with these `MainFollows` and
`TreeFollows` give each checkout's files between the gate's two moves. `RunGoes` and `FilesMove`
reduce some thirty actions to what they do to the run and to the files.

**PullRequestProofs.** One inductive invariant `PRInv`: the shared record (`Shared`), what each
command knows at its step (`Sound(c)`), who has the lock (`LockHeld`) and who still will close a
merged session's window (`WindowIsSeen`). `Grows` and `Spares` say what any step leaves to the
commands that do not take it, so that an action is proved for its own command alone
(`SparedIsSound`, `OneMoves`). `LandsOnlyMeasured` is not inductive without `LandSound` (a `land`
under the lock is of a pull request seen merged at its pin) and `LogNames` (the pin of a merge event
was measured). `CommitsAreKept` rests on `GatePin` (what a forced push overwrites is on the
branch, on a closed pull request or dropped: `Kept`) and on `PlanSound`, which ties a plan to the mark of the
row it was made from: the model's form of "read before the lock, checked again under it".
`CommandsKeepToTheRecordHolds` is then about single steps: `FixSound` for where a round starts,
`RowStands` for its own reject base, `LockHeld` and `GateRow` for nothing moving after a landing.

**PaneProofs.** `Typed` is the types with `Counted` and `Kinds` (how many Ctrl-Us a process has
pressed at which step, and which command is where) and `Gone` (a dead window holds nothing).
`SeenIsLeftAloneHolds`, of any clients and the one watcher, needs `FacedEnds` (who saw a dialog is past pressing), `DraftIsLate` (a
draft in the box of one that looked came after the look) and `StallIsOpen`.
`MessageIsWholeOrNothingHolds` follows one message of an undisturbed process through look, paste,
Enter, verify and clearing (`Phase`), where it is part by part in the box, on its way or submitted, and
proves of everyone else's steps that they disturb it or leave it alone (`Apart`, `Untouched`); any number
of keys may be swallowed, and a steer that has pressed Enter n + 1 times lost n of them, or is
submitted, so that it ends unsubmitted only if all were (`AllSwallowed`). It
assumes `ClearLimit > 2`: with two Ctrl-Us the first can come before the pasted text shows
and the second leaves a piece of it to be submitted. CLEAR_KEY_LIMIT is 64.

**LoopsProofs** proves of all six parts of `Loops` that the part's invariant holds at first and is
kept by the part's steps, shows that the part which is the subject keeps its own, and draws the
theorems `...Holds`: one a conjunct, and `VerdictsAreMeasuredHolds`, `RunsAreHeldHolds`,
`ScreenActsAsAskedHolds` and `ReportIsTrueHolds` of the whole.
For a child, `Whole` is the heart: of a child nothing has stopped the pipes
are open and no holder was killed, and the lifeline is let go only when nobody holds them; without
it a pass could be of a process cut short. `Closed` is the sweep before the promise, `Hearing`
the handlers, `Confined` what a remembered sandbox mode says of the host.
For a hook, `Timely` bounds every sleep by arithmetic over the whole-second clock,
`Watched` and `Read` tie the read and its watcher to the script's place.
For the keys, `Question` says that what is asked or in flight is what was wanted when the
screen named it, and `Merging` ties the child and its pane to the flight.
For a measurement, `Alone` is the phase before the tests, `Amid` that what an interrupt struck still
shows on a job (so no later result can hide it), and `Chained` that a running suite has its slot and
its predecessors are done; `ReportInv` adds that the tests start in turn, so that no report names an
unrun one before a failure.
For the diff-size split, `SizeInv` says that everyone who names a test that was asked for is known, and
that what is reached is loaded by something and is followed back or queued.
`TypeCorrect` is about the cursor most of all: `LinesAreApart` keeps `CursorIsOnARow`; `RunsBounded`
and `RowsNamed` strengthen the types of the keys.

**ReviewProofs** proves of six parts of `Rules` what the part keeps while it moves (`LandMerge`,
`CiReview`, `Inbox`, `Recheck`, `Answers`, `Links`); **RulesProofs** does the same of the others, shows
that the part which is the subject keeps its own, and draws the theorems.
`Handoff` (`HandoffInv`): a run that asked knows its request's place in the log (`IsAsked`), what it
kills a window for was signalled after that request (`IsAnswered`), and from the kill to the launch
nobody works and the index is of the worktree (`IsStill`, until a stranger crosses it).
`Conductor` (`ConductorInv`): where a start that was never beside another has come with its cut, cap
and window (`CutIsOwn`, `WindowIsOwn`), so that the next one finds a whole window or none (`WholeWindow`). `BeatStands`: the newest beat is
no younger than the last moment a radar ran or scanned, so a beat that is trusted is told of one gone
no longer than that.
`LandMerge` (`LandInv`): a landing is what the gate, GitHub and the target can have left (`GivenOK`);
the rest is about lists of any length: which commits of the target's fit the pin's, one by one or squashed.
`CiReview` (`ReviewInv`): what a record of the metrics stands for was read (`ReadOK`), by way of the run
under way; a commit's past is the least set that holds its parents, and `PastStays` shows that a push
leaves it. `StatusOK` and `ShownOK` tie the status and the threads to the run that gives them.
`Inbox` (`InboxInv`): every reading the inbox makes of a log (its newest event of some types, its newest
block, whether it failed, how many pull requests it opened) is gathered in `Says`, and `SaysMore` gives what
one more event changes of it, so that no proof after it looks into the log (`ReadsTheLog`). `AsksOK`,
`PrOK`, `CacheOK` and `WoundsOK` then tie what the log says to what is so: a pull request the log
has open is pinned, landed, or was left by a command that was cut; what git said of a commit
stays so until the target is set back. `LineOK` is about the look itself: whatever moves makes
the line unread.
`Baseline` (`BaselineInv`): until a gate and an audit meet, each still has the bar it read
(`IsStillBar`), and a measurement lacks only what an adapter that did not run would have found
(`IsMeasured`).
`Recheck` (`RecheckInv`): a call that kept to its scope has a snapshot that covers whatever is out of
it, a snapshot's hashes are of what its call began on and its other sums tell nothing (`FingerprintTells`), the tip is the target's while a merge is in
progress, and what a checked call wrote is said.
`Answers` (`AnswersInv`): what pup posted is of pinned heads and once for each, what the branch has
beyond the round's start is the worker's own or the target's (`IsOwned`), each call still to come is
right (`CallOK`), and a summary counts what is done or under way.
`Routing` (`RoutingInv`): each round begins with its own respawn (`Paired`), one that was undone is
followed by one that counts by the time its session runs again (`HasRestarted`), and what the router
folds out of the log is what happened to the window and to the rounds (`TellsHit`, `TellsRounds`),
unless a command was cut between its route and its event.
`Links` (`LinksInv`): who is vetted does not escape, and the environment comes after all are vetted.
What that says of a walk from link to link is an induction over its steps. The library's induction
theorems cannot be used for it, but its well-founded order can: `CountsUp` is induction over a set of
numbers, `Iterates` that a step taken again and again is a function, and `WalkIs`, `SpellingIs` and `ReadingIs`
are from it the equations of the three recursive definitions, for targets of any length. What realpathSync
says of a passed link comes to two facts (`PassedIs`): it stays inside by its spelling, and if it does not
resolve it climbs past no name. The first, with no target that climbs past a link, has the walk go where
the spelling says, `AsSpelt`, so that it comes to a place inside (`SpeltStays`). A target that
climbs past no name and whose spelling stays inside is names alone, or in d one climb before them
(`SpeltInside`), so a walk over passed links has names ahead of it, or is on its way along a link that
was found inside without the environment and goes the same way with it (`Stays`, `FoundStays`,
`GoesAlong`). For the second name of a file, no walk comes to it whose links' spellings keep off
its path (`Away`): what leads to it is closed under prefixes.
`TypeCorrect` then holds every part to its types and its bounds at once (`PartsTyped`, with `PartsKept`
from the theorems before it). Some types are not inductive alone: a handoff's windows are bounded
through the runs that may have opened one (`HandoffBounded`, for which `Respawns` must be finite), a
review through the heads its run knows (`CiBounded`), a log through what a command can add
(`InboxBounded`).

**Only model-checked** is all liveness: `EveryRunEnds`, `EveryRunGoesAhead` and
`EverythingComesRound` need fairness and ENABLED, which are out of the prover's reach. Each
other property of a passing run is stated by a theorem. `MergeGate` is proved to implement `Landing`
as a safety specification, which is all `Landing` is.

**What the proofs take from outside.** `LeadsTo` is what a file system does: component by component,
where a ".." climbs from wherever the name before it resolves. `realpathSync` is what node:fs does,
which is what `merge-gate.service.ts` imports: a link's target is joined to its directory by its
spelling, and only a link that resolves is read at all. The two part where a target climbs past
another link (`climbsPastLink`), and the theorem is about links of which none does: with
`d/k -> ..`, `l -> d/k/..` reads as `d` and leads out. That `Longest` steps are enough to tell a loop is not needed by the proofs,
which hold for any bound.

## Not modelled

- Wording, layout, logging and configuration; what a command's output is parsed to; which globs
  overlap; what the sandbox's policy text allows.
- A session that tampers with `.git` or the slots: lock identities are compared in
  the code for that case too, but here directories change only by pup's own calls. Forged
  refs and configs in a gate's cut.
- Reuse of a dead process's pid while a lock names it; an operator who removes a
  pidless lock by hand.
- `waited`, and planning again after a wait: `planMerge` is one read under the lock.
- In `MergeGate`: a run on another branch than the target, the ledger's own commands, the
  decision draft, the scope audit's patterns.
- In `SessionLifecycle`: `--over-cap`, the memory floor, which fields an edit merges, migrations.
- In `Baseline`: coverage and complexity, which are judged one at a time. In `CiReview`:
  where in a diff a finding is anchored.
- In `Pane`: a second watchdog. Two radars, which `pup watch` by hand beside the window's makes, may
  each read a dead turn before the other records its resume, and resume it twice.
- Transcripts and the utility model's calls; the web dashboard, report, mind map and usage;
  the adapters; the code map; intents and decision records. They read and lay out text, run a tool,
  or write once.

## Plan

1. The plain gate beside `pup kill` in `MergeGate`, and planning again after a wait.
2. More than two committed links, and links to links in directories of their own, in `Links`.
