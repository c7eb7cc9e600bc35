---------------------------- MODULE PullRequest ----------------------------
(***************************************************************************)
(* What happens to a session after its gate opened a pull request: fix      *)
(* rounds (fix-round.service.ts), the one way back out of `merged`, the     *)
(* gate of a round (merge-gate.service.ts), re-gates of a moved head        *)
(* (regate.service.ts), `pup land` (land.service.ts) and `pup kill`         *)
(* (session-lifecycle.service.ts), beside GitHub, the worker and the        *)
(* operator. One session, onto one target that only pull requests move.     *)
(*                                                                          *)
(* Each command is a process. A step is one call on the store, git, tmux    *)
(* or GitHub that the others can see or be seen by, and a command may throw *)
(* or be killed between any two. Fix, gate and land hold the merge lock     *)
(* (module MergeLock) for part of their run, kill never does.               *)
(*                                                                          *)
(* A branch's tip is the set of the commits it holds, {} where there is no  *)
(* branch, so an ancestor is a subset. The plain gate is in MergeGate, and  *)
(* so are a rebase, a merge of the target and a commit lost to a push.      *)
(***************************************************************************)
EXTENDS SessionStates, Integers, Sequences, SequencesExt

CONSTANTS
    Cmds,        \* the processes that run a command
    NoOne,       \* the merge lock is free
    MaxRejects,  \* MAX_REJECTS_BEFORE_BLOCKED, 2 in the code
    FirstRejects, \* what the first run used of it
    MaxCommits,  \* bound: commits in all
    MaxBegun,    \* bound: commands run
    MaxFails,    \* bound: rejections in all
    MaxPulls,    \* bound: pull requests
    MaxCrashes   \* bound: killed commands

ASSUME NoOneAssumption == NoOne \notin Cmds
ASSUME BoundsAssumption == /\ MaxRejects \in Nat
                           /\ FirstRejects \in 0 .. MaxRejects
                           /\ MaxCommits \in Nat \ {0}
                           /\ MaxBegun \in Nat
                           /\ MaxFails \in Nat
                           /\ MaxPulls \in Nat \ {0}
                           /\ MaxCrashes \in Nat

Commits == 1 .. MaxCommits
Tips == SUBSET Commits

VARIABLES
    state,      \* sessions.state
    pane,       \* sessions.tmux_target: the round whose window it names, 0 NULL
    rejects,    \* sessions.reject_count
    log,        \* the session's merge, fix_round and landed events
    window,     \* the window up under the session's name, by its round, 0 none
    worktree,   \* is the session's worktree there and registered
    branch,     \* the session's local branch
    pushed,     \* the branch's tracking ref, which the lease is on
    remote,     \* the branch on origin
    origin,     \* what origin's target holds by ancestry
    tracking,   \* the target's tracking ref
    pulls,      \* the branch's pull requests on GitHub
    lock,       \* who holds the merge lock
    pc,         \* what each command does next
    my,         \* what each command has read
    fresh,      \* the commits made so far
    measured,   \* history: the tips the stages passed on
    abandoned,  \* history: the rounds `pup kill` or an undo ended
    failed,     \* history: the gates that rejected the session in this round
    discarded,  \* history: the commits the operator dropped with a branch
    loose,      \* history: a window that only a dead, failed or overtaken command closes
    begun,      \* commands run so far
    crashes     \* commands killed so far

row == <<state, pane, rejects, log>>
git == <<worktree, branch, pushed, tracking>>
github == <<remote, origin, pulls>>
history == <<measured, abandoned, failed, discarded, loose>>
bounds == <<begun, crashes>>
vars == <<row, window, git, github, lock, pc, my, fresh, history, bounds>>

FixSteps == {"review", "fixlock", "restore", "edge", "oldwindow", "open", "store",
             "drop", "kickoff", "judge"}
UndoSteps == {"killwindow", "killrow", "sweep"}
GateSteps == {"gatelock", "pin", "stages", "push", "pr", "verify", "record", "close",
              "teardown", "event", "reject", "park", "steer", "resume"}
LandSteps == {"asks", "landlock", "land"}
Steps == {"idle"} \cup FixSteps \cup UndoSteps \cup GateSteps \cup LandSteps

\* What a command has read: the pull request and pin of the newest merge, the
\* round it started, the state a kill read, the open pull request a gate
\* adopts, the moved head a re-gate is about, the mark its plan was made at.
Frame == [pin : Tips, pr : 0 .. MaxPulls, round : Nat,
          from : SessionState, head : Tips, mark : SessionState \X Nat \X Nat]
Blank == [pin |-> {}, pr |-> 0, round |-> 0, from |-> "merged", head |-> {},
          mark |-> <<"merged", 0, 0>>]

Pull == [state : {"OPEN", "MERGED", "CLOSED"}, head : Tips,
         how : {"none", "merge", "squash", "altered"}, reviewed : Tips]
Event == [type : {"merge", "landed"}, pr : 1 .. MaxPulls, pin : Tips]
         \cup [type : {"fix_round"}, base : Nat]

TypeOK ==
    /\ state \in SessionState
    /\ pane \in Nat /\ window \in Nat /\ rejects \in Nat
    /\ log \in Seq(Event)
    /\ worktree \in BOOLEAN
    /\ {branch, pushed, remote, origin, tracking} \subseteq Tips
    /\ pulls \in Seq(Pull) /\ Len(pulls) \in 1 .. MaxPulls
    /\ lock \in Cmds \cup {NoOne}
    /\ pc \in [Cmds -> Steps]
    /\ my \in [Cmds -> Frame]
    /\ fresh \in Commits
    /\ measured \in SUBSET Tips
    /\ abandoned \in SUBSET Nat
    /\ failed \in Nat
    /\ discarded \in SUBSET Commits
    /\ loose \in BOOLEAN
    /\ begun \in 0 .. MaxBegun
    /\ crashes \in 0 .. MaxCrashes
-----------------------------------------------------------------------------
(* The event log, and what is read from it.                                 *)

\* currentFixRound: a round ends at the merge its gate records
inRound == Last(log).type = "fix_round"

\* newestMerge: the merge that stands, or the landing after it
Newest(events) ==
    LET at == CHOOSE i \in DOMAIN events :
                  /\ events[i].type # "fix_round"
                  /\ \A j \in DOMAIN events : j > i => events[j].type = "fix_round"
    IN  events[at]
newestMerge == Newest(log)
hasLanded == newestMerge.type = "landed"

\* sessionMark: what another run changes about the session
sessionMark == <<state, rejects, Len(log)>>

\* fixRoundRejectBase
rejectBase == IF inRound THEN Last(log).base ELSE 0

\* findOpenPullRequest: the branch's one open pull request, 0 for none
FirstOpen(listed) == IF \E i \in DOMAIN listed : listed[i].state = "OPEN"
                     THEN CHOOSE i \in DOMAIN listed : listed[i].state = "OPEN"
                     ELSE 0
openPull == FirstOpen(pulls)
-----------------------------------------------------------------------------
(* Processes.                                                               *)

At(c, step) == pc[c] = step
Goto(c, step) == pc' = [pc EXCEPT ![c] = step] /\ UNCHANGED my
Begin(c, step, frame) == /\ At(c, "idle")
                         /\ begun < MaxBegun
                         /\ begun' = begun + 1
                         /\ pc' = [pc EXCEPT ![c] = step]
                         /\ my' = [my EXCEPT ![c] = frame]
                         /\ UNCHANGED lock
Then(c, step, frame) == /\ pc' = [pc EXCEPT ![c] = step]
                        /\ my' = [my EXCEPT ![c] = frame]

\* A command ends, by its last step or a throw, and with it what it holds
End(c) == /\ pc' = [pc EXCEPT ![c] = "idle"]
          /\ my' = [my EXCEPT ![c] = Blank]
          /\ lock' = IF lock = c THEN NoOne ELSE lock

\* Every step may throw; a step that has more to undo says so itself
Throws(c) ==
    /\ pc[c] \notin {"idle", "oldwindow", "open", "store", "drop", "kickoff", "judge",
                     "event", "park", "steer"}
    /\ loose' = (loose \/ pc[c] \in {"killwindow", "close"})
    /\ End(c)
    /\ UNCHANGED <<row, window, git, github, fresh, measured, abandoned, failed,
                   discarded, bounds>>

\* The lock is free and taken, or held and the command gives up
TakesLock(c) == lock = NoOne /\ lock' = c
Busy(c) == lock # NoOne /\ End(c)

\* transitionSession: a row already there stays, and an edge not in the table throws
Moves(to) == state = to \/ canTransition(state, to)
-----------------------------------------------------------------------------
(* `pup fix`.                                                               *)

\* startFixRound: the row and its newest merge
FixReads(c) ==
    /\ state = "merged"
    /\ ~hasLanded
    /\ Begin(c, "review", [Blank EXCEPT !.pin = newestMerge.pin, !.pr = newestMerge.pr])
    /\ UNCHANGED <<row, window, git, github, fresh, history, crashes>>

\* reviewVerdict: open, its head at the pin, and the bot's threads on that head
FixReview(c) ==
    /\ At(c, "review")
    /\ LET pull == pulls[my[c].pr]
       IN  IF pull.state = "OPEN" /\ pull.head = my[c].pin /\ pull.reviewed = pull.head
           THEN Goto(c, "fixlock") /\ UNCHANGED lock
           ELSE End(c)
    /\ UNCHANGED <<row, window, git, github, fresh, history, bounds>>

\* MUTANT: the landing is not asked for again
assertStillPinned_PinOnly(c) ==
    newestMerge.pin = my[c].pin /\ ~(my[c].pin \subseteq tracking)

\* assertStillPinned, under the lock: the merge stands and has not landed
assertStillPinned(c) ==
    /\ ~hasLanded
    /\ newestMerge.pin = my[c].pin
    /\ ~(my[c].pin \subseteq tracking)

FixLocks(c) ==
    /\ At(c, "fixlock")
    /\ \/ TakesLock(c) /\ assertStillPinned(c) /\ Goto(c, "restore")
       \/ lock = NoOne /\ ~assertStillPinned(c) /\ End(c)
       \/ Busy(c)
    /\ UNCHANGED <<row, window, git, github, fresh, history, bounds>>

\* restoreWorktree: a branch elsewhere or a surviving worktree is refused, and
\* a checkout that throws takes the new worktree with it when it can
restoreWorktree(c) ==
    /\ At(c, "restore")
    /\ branch \in {{}, my[c].pin}
    /\ ~worktree
    /\ branch' = my[c].pin
    /\ \/ worktree' = TRUE /\ Goto(c, "edge") /\ UNCHANGED lock
       \/ worktree' \in BOOLEAN /\ End(c)
    /\ UNCHANGED <<row, window, pushed, tracking, github, fresh, history, bounds>>

\* takeFixRoundEdge: the edge, the pane and the event in one write
takeFixRoundEdge(c) ==
    /\ At(c, "edge")
    /\ state = "merged"
    /\ state' = "running"
    /\ pane' = 0
    /\ log' = Append(log, [type |-> "fix_round", base |-> rejects])
    /\ failed' = 0
    /\ Then(c, "oldwindow", [my[c] EXCEPT !.round = Len(log) + 1])
    /\ lock' = NoOne
    /\ UNCHANGED <<rejects, window, git, github, fresh, measured, abandoned, discarded,
                   loose, bounds>>

\* relaunchWorker kills a window of this name, then opens its own, which a
\* window of the name and a worktree that is gone refuse
KillOldWindow(c) ==
    /\ At(c, "oldwindow")
    /\ \/ window' = 0 /\ Goto(c, "open")
       \/ UNCHANGED window /\ Goto(c, "judge")
    /\ UNCHANGED <<row, git, github, lock, fresh, history, bounds>>

OpenWindow(c) ==
    /\ At(c, "open")
    /\ \/ window = 0 /\ worktree /\ window' = my[c].round /\ Goto(c, "store")
       \/ UNCHANGED window /\ Goto(c, "judge")
    /\ UNCHANGED <<row, git, github, lock, fresh, history, bounds>>

\* MUTANT: the pane is stored whatever became of the row
StorePane_Unchecked(c) ==
    /\ At(c, "store")
    /\ pane' = my[c].round
    /\ Goto(c, "kickoff")
    /\ UNCHANGED <<state, rejects, log, window, git, github, lock, fresh, history, bounds>>

\* The pane is stored on a running row only: the row of a killed round gets none
StorePane(c) ==
    /\ At(c, "store")
    /\ IF state = "running"
       THEN pane' = my[c].round /\ Goto(c, "kickoff")
       ELSE UNCHANGED pane /\ Goto(c, "drop")
    /\ UNCHANGED <<state, rejects, log, window, git, github, lock, fresh, history, bounds>>

DropWindow(c) ==
    /\ At(c, "drop")
    /\ window' = 0
    /\ End(c)
    /\ UNCHANGED <<row, git, github, fresh, history, bounds>>

\* The kickoff lands in the round's window, or the round is judged and undone
Kickoff(c) ==
    /\ At(c, "kickoff")
    /\ \/ window = my[c].round /\ End(c)
       \/ Goto(c, "judge") /\ UNCHANGED lock
    /\ UNCHANGED <<row, window, git, github, fresh, history, bounds>>

\* isOwnRound and undoRound: killSession, or the window alone when a `pup kill`
\* took the row back already
isOwnRound(c) == inRound /\ Len(log) = my[c].round

Judge(c) ==
    /\ At(c, "judge")
    /\ IF isOwnRound(c)
       THEN Then(c, "killwindow", [my[c] EXCEPT !.from = state]) /\ UNCHANGED lock
       ELSE End(c)
    /\ UNCHANGED <<row, window, git, github, fresh, history, bounds>>
-----------------------------------------------------------------------------
(* `pup kill`, and the undo of a round: my.round tells them apart.          *)

killSession(c) ==
    /\ ~(state = "killed")
    /\ Begin(c, "killwindow", [Blank EXCEPT !.from = state, !.mark = sessionMark])
    /\ UNCHANGED <<row, window, git, github, fresh, history, crashes>>

\* An undo that found the row merged again closes the window and writes no row
KillWindow(c) ==
    /\ At(c, "killwindow")
    /\ window' = 0
    /\ Goto(c, IF my[c].round > 0 /\ my[c].from = "merged" THEN "sweep" ELSE "killrow")
    /\ UNCHANGED <<row, git, github, lock, fresh, history, bounds>>

\* Back to merged along the edge from the state it read, which throws when the
\* row moved, or killed; the round is asked for now, the state was read before
KillsRound(c) == ~isTerminal(my[c].from) /\ inRound

\* What the kill is about is another round by now, or a round where it read none
IsStale(c) == \/ my[c].round = 0 /\ my[c].mark[3] # Len(log)
              \/ my[c].round > 0 /\ my[c].round # Len(log)

KillRow(c) ==
    /\ At(c, "killrow")
    /\ \/ /\ KillsRound(c)
          /\ state = my[c].from
          /\ state' = "merged"
          /\ pane' = 0
          /\ abandoned' = abandoned \cup {Len(log)}
       \/ /\ ~KillsRound(c)
          /\ Moves("killed")
          /\ state' = "killed"
          /\ UNCHANGED <<pane, abandoned>>
    /\ loose' = (loose \/ IsStale(c) \/ window > 0)
    /\ IF my[c].round > 0 THEN Goto(c, "sweep") /\ UNCHANGED lock ELSE End(c)
    /\ UNCHANGED <<rejects, log, window, git, github, fresh, measured, failed,
                   discarded, bounds>>

\* rmSync and the prune, whoever's worktree is at the path by now
Sweep(c) ==
    /\ At(c, "sweep")
    /\ worktree' = FALSE
    /\ loose' = (loose \/ IsStale(c) \/ \E o \in Cmds : At(o, "edge"))
    /\ End(c)
    /\ UNCHANGED <<row, window, branch, pushed, tracking, github, fresh, measured,
                   abandoned, failed, discarded, bounds>>
-----------------------------------------------------------------------------
(* `pup merge --pr`: a round's gate, and the re-gate of a moved head.       *)

\* planMerge: a session that awaits review, and the open pull request it adopts
PlansRound == state = "awaiting-review"

\* mergeToRegate and planRegate: merged, not landed, its pull request open with
\* its head past the pin
PlansRegate ==
    /\ state = "merged"
    /\ ~hasLanded
    /\ newestMerge.pr = openPull
    /\ pulls[openPull].head # newestMerge.pin

\* pr is what the plan adopts, head the moved head a re-gate is about
Plan == [Blank EXCEPT !.pr = openPull, !.mark = sessionMark, !.from = state,
                      !.head = IF PlansRegate THEN pulls[openPull].head ELSE {}]

planMerge(c) ==
    /\ PlansRound \/ PlansRegate
    /\ Begin(c, "gatelock", Plan)
    /\ UNCHANGED <<row, window, git, github, fresh, history, crashes>>

\* runMergeGate: planned again under the lock when another run changed the session
GateLocks(c) ==
    /\ At(c, "gatelock")
    /\ \/ TakesLock(c) /\ sessionMark = my[c].mark /\ Goto(c, "pin")
       \/ /\ TakesLock(c)
          /\ sessionMark # my[c].mark
          /\ PlansRound \/ PlansRegate
          /\ Then(c, "pin", Plan)
       \/ /\ lock = NoOne
          /\ sessionMark # my[c].mark /\ ~(PlansRound \/ PlansRegate)
          /\ End(c)
       \/ Busy(c)
    /\ UNCHANGED <<row, window, git, github, fresh, history, bounds>>

\* pinRegatedHead: the local branch holds the head GitHub reports.
\* gateAndMerge: the branch still holds what its open pull request was pushed.
Regates(c) == my[c].from = "merged"

Settle(c) ==
    /\ At(c, "pin")
    /\ IF Regates(c)
       THEN branch = my[c].head /\ Then(c, "stages", [my[c] EXCEPT !.pin = branch])
       ELSE /\ worktree /\ branch # {}
            /\ IF my[c].pr = 0 \/ pushed \subseteq branch
               THEN Then(c, "stages", [my[c] EXCEPT !.pin = branch])
               ELSE Goto(c, "reject")
    /\ UNCHANGED <<row, window, git, github, lock, fresh, history, bounds>>

\* measureBranch: pass, fail, or flags nobody accepted (refuseGate). A re-gate
\* rejects nothing, and pushes nothing: its pin is the head GitHub shows.
Measure(c) ==
    /\ At(c, "stages")
    /\ \/ /\ measured' = measured \cup {my[c].pin}
          /\ Goto(c, IF Regates(c) THEN "verify" ELSE "push")
          /\ UNCHANGED lock
       \/ UNCHANGED measured /\ End(c)
       \/ UNCHANGED <<measured, lock>> /\ ~Regates(c) /\ Goto(c, "reject")
    /\ UNCHANGED <<row, window, git, github, fresh, abandoned, failed, discarded,
                   loose, bounds>>

\* The head of whatever pull request is open follows its branch
Show(tip) == pulls' = [i \in DOMAIN pulls |->
                 IF pulls[i].state = "OPEN" THEN [pulls[i] EXCEPT !.head = tip]
                 ELSE pulls[i]]

\* pushBranch: plain when a pull request was adopted or there is no tracking
\* ref, else a rewrite leased on what pup pushed last
PushBranch(c) ==
    /\ At(c, "push")
    /\ IF my[c].pr > 0 \/ pushed = {} THEN remote \subseteq my[c].pin ELSE remote = pushed
    /\ remote' = my[c].pin
    /\ pushed' = my[c].pin
    /\ Show(my[c].pin)
    /\ Goto(c, "pr")
    /\ UNCHANGED <<row, window, worktree, branch, tracking, origin, lock, fresh, history, bounds>>

\* rewritePullRequest on the adopted one, else createPullRequest, which GitHub
\* refuses beside an open one and over nothing the target lacks
OpenPullRequest(c) ==
    /\ At(c, "pr")
    /\ \/ my[c].pr > 0 /\ Goto(c, "verify") /\ UNCHANGED pulls
       \/ /\ my[c].pr = 0 /\ openPull = 0 /\ Len(pulls) < MaxPulls
          /\ ~(remote \subseteq origin)
          /\ pulls' = Append(pulls, [state |-> "OPEN", head |-> remote,
                                     how |-> "none", reviewed |-> {}])
          /\ Then(c, "verify", [my[c] EXCEPT !.pr = Len(pulls')])
    /\ UNCHANGED <<row, window, git, remote, origin, lock, fresh, history, bounds>>

\* assertPullRequestHead
VerifyHead(c) ==
    /\ At(c, "verify")
    /\ pulls[my[c].pr].head = my[c].pin
    /\ Goto(c, IF Regates(c) THEN "event" ELSE "record")
    /\ UNCHANGED <<row, window, git, github, lock, fresh, history, bounds>>

RecordMerged(c) ==
    /\ At(c, "record")
    /\ Moves("merged")
    /\ state' = "merged"
    /\ Goto(c, "close")
    /\ UNCHANGED <<pane, rejects, log, window, git, github, lock, fresh, history, bounds>>

\* The window, then the worktree, which may be kept, and the branch at the pin
CloseWindow(c) ==
    /\ At(c, "close")
    /\ window' = 0
    /\ Goto(c, "teardown")
    /\ UNCHANGED <<row, git, github, lock, fresh, history, bounds>>

Teardown(c) ==
    /\ At(c, "teardown")
    /\ \/ UNCHANGED <<worktree, branch>>
       \/ worktree' = FALSE /\ branch' = IF branch = my[c].pin THEN {} ELSE branch
    /\ Goto(c, "event")
    /\ UNCHANGED <<row, window, pushed, tracking, github, lock, fresh, history, bounds>>

\* MUTANT: the event names the pull request that is open by now
RecordMerge_OpenPull(c) ==
    /\ At(c, "event")
    /\ log' = Append(log, [type |-> "merge", pr |-> openPull, pin |-> my[c].pin])
    /\ End(c)
    /\ UNCHANGED <<state, pane, rejects, window, git, github, fresh, history, bounds>>

\* recordMerge, the end of the round
RecordMerge(c) ==
    /\ At(c, "event")
    /\ log' = Append(log, [type |-> "merge", pr |-> my[c].pr, pin |-> my[c].pin])
    /\ End(c)
    /\ UNCHANGED <<state, pane, rejects, window, git, github, fresh, history, bounds>>

\* rejectOrBlock: the count, the rejection, then the park or the steer
Reject(c) ==
    /\ At(c, "reject")
    /\ rejects < MaxFails
    /\ rejects' = rejects + 1
    /\ failed' = failed + 1
    /\ IF Moves("rejected")
       THEN /\ state' = "rejected"
            /\ Goto(c, IF rejects' - rejectBase > MaxRejects THEN "park" ELSE "steer")
            /\ UNCHANGED lock
       ELSE UNCHANGED state /\ End(c)
    /\ UNCHANGED <<pane, log, window, git, github, fresh, measured, abandoned,
                   discarded, loose, bounds>>

Park(c) ==
    /\ At(c, "park")
    /\ state' = IF Moves("blocked") THEN "blocked" ELSE state
    /\ End(c)
    /\ UNCHANGED <<pane, rejects, log, window, git, github, fresh, history, bounds>>

\* The report reaches the recorded pane's window, or the session is parked
SteerReport(c) ==
    /\ At(c, "steer")
    /\ Goto(c, IF pane > 0 /\ window = pane THEN "resume" ELSE "park")
    /\ UNCHANGED <<row, window, git, github, lock, fresh, history, bounds>>

Resume(c) ==
    /\ At(c, "resume")
    /\ Moves("running")
    /\ state' = "running"
    /\ End(c)
    /\ UNCHANGED <<pane, rejects, log, window, git, github, fresh, history, bounds>>
-----------------------------------------------------------------------------
(* `pup land`.                                                              *)

LandReads(c) ==
    /\ state = "merged"
    /\ ~hasLanded
    /\ Begin(c, "asks", [Blank EXCEPT !.pin = newestMerge.pin, !.pr = newestMerge.pr])
    /\ UNCHANGED <<row, window, git, github, fresh, history, crashes>>

\* MUTANT: merged is enough, wherever its head was
LandAsks_AnyHead(c) ==
    /\ At(c, "asks")
    /\ IF pulls[my[c].pr].state = "MERGED"
       THEN Goto(c, "landlock") /\ UNCHANGED lock
       ELSE End(c)
    /\ UNCHANGED <<row, window, git, github, fresh, history, bounds>>

\* readPullRequestLanding: merged on GitHub, with its head at the pin
LandAsks(c) ==
    /\ At(c, "asks")
    /\ IF pulls[my[c].pr].state = "MERGED" /\ pulls[my[c].pr].head = my[c].pin
       THEN Goto(c, "landlock") /\ UNCHANGED lock
       ELSE End(c)
    /\ UNCHANGED <<row, window, git, github, fresh, history, bounds>>

\* Under the lock the state and the landing are read again, not the pin
LandLocks(c) ==
    /\ At(c, "landlock")
    /\ \/ TakesLock(c) /\ state = "merged" /\ ~hasLanded /\ Goto(c, "land")
       \/ lock = NoOne /\ ~(state = "merged" /\ ~hasLanded) /\ End(c)
       \/ Busy(c)
    /\ UNCHANGED <<row, window, git, github, fresh, history, bounds>>

\* mergedOnto: what GitHub landed is the gate's content
mergedOnto(c) == pulls[my[c].pr].how # "altered"

\* MUTANT: the branch goes wherever it is
Land_AnyBranch(c) ==
    /\ At(c, "land")
    /\ mergedOnto(c)
    /\ tracking' = origin
    /\ worktree' = FALSE /\ branch' = {}
    /\ log' = Append(log, [type |-> "landed", pr |-> my[c].pr, pin |-> my[c].pin])
    /\ End(c)
    /\ UNCHANGED <<state, pane, rejects, window, pushed, github, fresh, history, bounds>>

\* The fetched tip onto the tracking ref, the teardown, and the event
Land(c) ==
    /\ At(c, "land")
    /\ mergedOnto(c)
    /\ tracking' = origin
    /\ \/ UNCHANGED <<worktree, branch>>
       \/ /\ worktree' = FALSE
          /\ branch' = IF branch \subseteq origin \/ branch \subseteq my[c].pin
                       THEN {} ELSE branch
    /\ log' = Append(log, [type |-> "landed", pr |-> my[c].pr, pin |-> my[c].pin])
    /\ End(c)
    /\ UNCHANGED <<state, pane, rejects, window, pushed, github, fresh, history, bounds>>
-----------------------------------------------------------------------------
(* The worker, the operator, GitHub.                                        *)

commands == <<lock, pc, my>>

Commit == fresh < MaxCommits /\ fresh' = fresh + 1

WorkerCommits ==
    /\ window > 0 /\ worktree /\ branch # {}
    /\ Commit
    /\ branch' = branch \cup {fresh'}
    /\ UNCHANGED <<row, window, worktree, pushed, tracking, github, commands, history, bounds>>

\* markSessionDone
WorkerDone ==
    /\ window > 0
    /\ canTransition(state, "awaiting-review")
    /\ state' = "awaiting-review"
    /\ UNCHANGED <<pane, rejects, log, window, git, github, commands, fresh, history, bounds>>

\* `pup unblock`
Unblock ==
    /\ state = "blocked"
    /\ state' = "running"
    /\ UNCHANGED <<pane, rejects, log, window, git, github, commands, fresh, history, bounds>>

WindowDies ==
    /\ window > 0
    /\ window' = 0
    /\ UNCHANGED <<row, git, github, commands, fresh, history, bounds>>

\* What the refusals tell the operator to do, with no command at the worktree:
\* remove that of a round that is over, and bring its branch to the pull request's head
CleansWorktree ==
    /\ state = "merged" /\ window = 0 /\ worktree /\ lock = NoOne
    /\ worktree' = FALSE
    /\ UNCHANGED <<row, window, branch, pushed, tracking, github, commands, fresh, history, bounds>>

ResetsBranch ==
    /\ state = "merged" /\ ~worktree /\ branch # remote /\ lock = NoOne
    /\ branch' = remote
    /\ discarded' = discarded \cup (branch \ remote)
    /\ UNCHANGED <<row, window, worktree, pushed, tracking, github, commands, fresh,
                   measured, abandoned, failed, loose, bounds>>

SomeonePushes ==
    /\ Commit
    /\ remote' = remote \cup {fresh'}
    /\ Show(remote')
    /\ UNCHANGED <<row, window, git, origin, commands, history, bounds>>

\* The review bot opens threads on the head
Reviews ==
    /\ openPull > 0
    /\ pulls' = [pulls EXCEPT ![openPull].reviewed = pulls[openPull].head]
    /\ UNCHANGED <<row, window, git, remote, origin, commands, fresh, history, bounds>>

\* The operator's merge click: a merge commit, a squash, or one with changes of its own
MergesPull ==
    /\ openPull > 0
    /\ \E how \in {"merge", "squash", "altered"} :
         pulls' = [pulls EXCEPT ![openPull].state = "MERGED", ![openPull].how = how]
    /\ origin' = IF pulls'[openPull].how = "squash" THEN origin
                 ELSE origin \cup pulls[openPull].head
    /\ UNCHANGED <<row, window, git, remote, commands, fresh, history, bounds>>

ClosesPull ==
    /\ openPull > 0
    /\ pulls' = [pulls EXCEPT ![openPull].state = "CLOSED"]
    /\ UNCHANGED <<row, window, git, remote, origin, commands, fresh, history, bounds>>

\* A killed command leaves what it did; its lock is reclaimed (module MergeLock)
Crash(c) ==
    /\ crashes < MaxCrashes
    /\ pc[c] # "idle"
    /\ crashes' = crashes + 1
    /\ loose' = (loose \/ pc[c] \in {"store", "drop", "kickoff", "judge", "killwindow", "close"})
    /\ End(c)
    /\ UNCHANGED <<row, window, git, github, fresh, measured, abandoned, failed, discarded, begun>>
-----------------------------------------------------------------------------
\* The session as its first gate left it: pull request 1 open at the pin
Init ==
    /\ state = "merged" /\ pane = 0 /\ rejects = FirstRejects
    /\ log = <<[type |-> "merge", pr |-> 1, pin |-> {1}]>>
    /\ window = 0 /\ worktree = FALSE /\ branch = {}
    /\ pushed = {1} /\ remote = {1} /\ origin = {} /\ tracking = {}
    /\ pulls = <<[state |-> "OPEN", head |-> {1}, how |-> "none", reviewed |-> {}]>>
    /\ lock = NoOne
    /\ pc = [c \in Cmds |-> "idle"]
    /\ my = [c \in Cmds |-> Blank]
    /\ fresh = 1
    /\ measured = {{1}} /\ abandoned = {} /\ failed = 0 /\ discarded = {}
    /\ loose = FALSE
    /\ begun = 0 /\ crashes = 0

FixRound(c) == \/ FixReads(c) \/ FixReview(c) \/ FixLocks(c) \/ restoreWorktree(c)
               \/ takeFixRoundEdge(c) \/ KillOldWindow(c) \/ OpenWindow(c)
               \/ StorePane(c) \/ DropWindow(c) \/ Kickoff(c) \/ Judge(c)
Kill(c) == killSession(c) \/ KillWindow(c) \/ KillRow(c) \/ Sweep(c)
GateRun(c) == \/ planMerge(c) \/ GateLocks(c) \/ Settle(c) \/ Measure(c)
              \/ PushBranch(c) \/ OpenPullRequest(c) \/ VerifyHead(c)
              \/ RecordMerged(c) \/ CloseWindow(c) \/ Teardown(c) \/ RecordMerge(c)
              \/ Reject(c) \/ Park(c) \/ SteerReport(c) \/ Resume(c)
Lands(c) == LandReads(c) \/ LandAsks(c) \/ LandLocks(c) \/ Land(c)
World == \/ WorkerCommits \/ WorkerDone \/ Unblock \/ WindowDies
         \/ CleansWorktree \/ ResetsBranch
         \/ SomeonePushes \/ Reviews \/ MergesPull \/ ClosesPull

Next == \/ \E c \in Cmds : FixRound(c) \/ Kill(c) \/ GateRun(c) \/ Lands(c)
                            \/ Throws(c) \/ Crash(c)
        \/ World

Spec == Init /\ [][Next]_vars
-----------------------------------------------------------------------------
(* What it promises.                                                        *)

(* What pup says has landed is what a gate measured: the pull request of    *)
(* every `landed` event was merged with its head at a pin the stages passed *)
(* on, and with nothing else in it (decisions 82, 131). *)
LandsOnlyMeasured ==
    \A i \in DOMAIN log : log[i].type = "landed" =>
        /\ log[i].pin \in measured
        /\ pulls[log[i].pr].state = "MERGED"
        /\ pulls[log[i].pr].head = log[i].pin
        /\ pulls[log[i].pr].how # "altered"

(* No commit of the worker's or of anyone on the pull request is lost by a  *)
(* restore, a push, a teardown or an undo: a branch, a pull request or the  *)
(* target holds it, or the operator dropped it with a branch. *)
CommitsAreKept ==
    (1 .. fresh) \subseteq (branch \cup remote \cup origin \cup discarded
                            \cup UNION {pulls[i].head : i \in DOMAIN pulls})

(* When no command is running, a merged session has no window: a round that *)
(* was killed, undone or gated leaves no worker behind, but for a command   *)
(* that died or was overtaken where only it would close one. *)
MergedIsStopped ==
    (state = "merged" /\ ~loose /\ \A c \in Cmds : At(c, "idle")) => window = 0

(* A round starts at the pin of the merge that stands, in a worktree on     *)
(* that commit, and never after the landing, whatever a re-gate, a land or  *)
(* an operator did while the review was read (assertStillPinned), unless an  *)
(* overtaken undo swept its worktree. *)
RoundStartsAtThePin ==
    [][ (Len(log') > Len(log) /\ Last(log').type = "fix_round" /\ ~loose)
        => ~hasLanded /\ worktree /\ newestMerge.pin \subseteq branch ]_vars

(* A round has a reject cap of its own: it is parked for it after more than *)
(* MaxRejects of its gates failed and steered until then, however many the  *)
(* first run or an earlier round had (decision 90). *)
RoundHasItsOwnCap ==
    [][ \A c \in Cmds : At(c, "reject") =>
          /\ At(c, "park")' => failed' > MaxRejects
          /\ At(c, "steer")' => failed' <= MaxRejects ]_vars

(* A landing is the last word: no kill, undo, gate or round that read the   *)
(* session before it moves the session or its record after it. *)
LandingStands == [][hasLanded => UNCHANGED <<state, log>>]_vars

(* A command acts on the session's record as it stands, whatever it read    *)
(* before: where a round starts, how often it is steered, and that a        *)
(* landing is the end (assertStillPinned, rejectBase, landSession). *)
CommandsKeepToTheRecord == RoundStartsAtThePin /\ RoundHasItsOwnCap /\ LandingStands

(* roundTheNewestMergeEnded's comment says that only the gate of a session  *)
(* in its round records a merge whose threads are answered: "a round `pup   *)
(* kill` undid is back in `merged`, which a re-gate takes". *)
OnlyALiveRoundIsAnswered ==
    [][ \A c \in Cmds : (At(c, "event") /\ ~Regates(c) /\ Len(log') > Len(log))
          => Len(log) \notin abandoned ]_vars
=============================================================================
