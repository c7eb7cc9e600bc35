----------------------------- MODULE MergeGate -----------------------------
(***************************************************************************)
(* `pup merge` of one session (merge-gate.service.ts), plain or `--pr`, run *)
(* again and again, killed anywhere, beside the session, which goes on      *)
(* editing and committing until the gate closes its window, and beside the  *)
(* operator, who commits to the target and switches the main checkout.      *)
(* The merge lock (module MergeLock) makes the runs one at a time. Another  *)
(* session's landing is, to this one, a commit on the target.               *)
(*                                                                          *)
(* A commit is its history and the changes its tree has, one file a change; *)
(* so is an index, files included. git's merges are their effect on the     *)
(* changes, and any of them may conflict. A rebase is one commit, for the   *)
(* ones it replays.                                                         *)
(*                                                                          *)
(* Left out: fix rounds, re-gates and `pup land`, which start from          *)
(* `merged`; `pup kill` (module SessionLifecycle); a run while the main     *)
(* checkout is on another branch, which merges into that one; and refs,     *)
(* config and links a session forged.                                       *)
(***************************************************************************)
EXTENDS Integers, Sequences, FiniteSets

CONSTANTS
    Mine,        \* the changes the session may make
    Theirs,      \* the changes others may make on the target
    MaxCommits   \* bound: commits in all, the first included

ASSUME ChangesAssumption == Mine \cap Theirs = {}
ASSUME BoundAssumption == MaxCommits \in Nat \ {0}

VARIABLES
    log,       \* the commits made: what each has in its history and its tree
    target,    \* refs/heads/<target>
    head,      \* the branch the main checkout is on
    index,     \* the main checkout's files and index
    branch,    \* refs/heads/pup/<session>
    tree,      \* the worktree's files and index
    away,      \* the worktree has something else than the branch checked out
    alive,     \* the session's window is up
    row,       \* sessions.state
    remote,    \* the branch on origin
    tracking,  \* refs/remotes/origin/<branch>
    pr,        \* the open pull request, unseen by the run that looked before
    filed,     \* the ledger's open entries for the session's flag
    bar,       \* the commit the debt baseline was measured on
    recorded,  \* the merge event: the commit, and whether it names commits left behind
    run,       \* the gate; its `passed` and `landed` are history
    owed,      \* history: a flagged commit landed under --accept-debt
    torn       \* history: a ref and its checkout were caught apart

vars == <<log, target, head, index, branch, tree, away, alive, row, remote,
          tracking, pr, filed, bar, recorded, run, owed, torn>>

main == <<target, head, index>>
worktree == <<branch, tree, away, alive>>
origin == <<remote, tracking, pr>>
store == <<row, filed, bar, recorded>>
history == <<owed, torn>>

None == 0
Root == 1
Commits == 1 .. Len(log)
Changes == Mine \cup Theirs

Past(c) == log[c].past
Has(c) == log[c].has
New == Len(log) + 1

\* The next commit, on top of `heads`, with the tree `has`.
commitTree(heads, has) ==
    /\ Len(log) < MaxCommits
    /\ log' = Append(log, [past |-> {New} \cup UNION {Past(c) : c \in heads}, has |-> has])

Tip(name) == IF name = "target" THEN target ELSE Root

\* `read-tree -m -u from to`: the files that differ are written, others kept.
readTree(files, from, to) ==
    (files \ (Has(from) \ Has(to))) \cup (Has(to) \ Has(from))

mergeBase(a, b) ==
    CHOOSE c \in Past(a) \cap Past(b) : \A d \in Past(a) \cap Past(b) : d <= c

\* The tree of `theirs` with what `ours` changed since their base.
threeWay(ours, theirs) ==
    LET base == mergeBase(ours, theirs)
    IN  (Has(theirs) \cup (Has(ours) \ Has(base))) \ (Has(base) \ Has(ours))

Idle == [pc |-> "idle", pr |-> FALSE, adopted |-> FALSE,
         base |-> None, tip |-> None, mid |-> None, follow |-> FALSE,
         pin |-> None, flag |-> FALSE, passed |-> {}, landed |-> {}]

Fresh == {"clean", "pin", "rebase", "mergeTree", "swap", "follow", "undo", "settle"}
Pinned == {"measure", "file", "recheck", "checkout", "cas", "restore",
           "push", "track", "open", "verify"}
After == {"record", "window", "worktree", "event", "ratchet"}

LogOK ==
    /\ log \in Seq([past : SUBSET (1 .. MaxCommits), has : SUBSET Changes])
    /\ Len(log) \in 1 .. MaxCommits
    /\ \A c \in Commits : c \in Past(c) /\ Past(c) \subseteq Commits

RunOK ==
    /\ run \in [pc : {"idle"} \cup Fresh \cup Pinned \cup After,
                pr : BOOLEAN, adopted : BOOLEAN,
                base : Commits \cup {None}, tip : Commits \cup {None},
                mid : Commits \cup {None}, follow : BOOLEAN,
                pin : Commits \cup {None}, flag : BOOLEAN,
                passed : SUBSET (Commits \X Commits), landed : SUBSET Commits]
    /\ run.pc \in Fresh \ {"clean", "pin"} => run.base # None
    /\ run.pc \in {"swap", "follow", "undo"} => run.tip # None /\ run.mid # None
    /\ run.pc \in Pinned => run.pin # None /\ run.base \in Past(run.pin)
    /\ run.pc \in After => run.pin # None

TypeOK ==
    /\ LogOK
    /\ RunOK
    /\ target \in Commits
    /\ head \in {"target", "other"}
    /\ index \in SUBSET Changes
    /\ branch \in Commits \cup {None}
    /\ tree \in SUBSET Changes
    /\ away \in BOOLEAN
    /\ alive \in BOOLEAN
    /\ row \in {"running", "awaiting-review", "merged"}
    /\ remote \in Commits \cup {None}
    /\ tracking \in Commits \cup {None}
    /\ pr \in {"none", "unseen", "open"}
    /\ filed \in Nat
    /\ bar \in Commits
    /\ recorded \in [sha : Commits \cup {None}, left : BOOLEAN]
    /\ owed \in BOOLEAN
    /\ torn \in BOOLEAN

Init ==
    /\ log = <<[past |-> {Root}, has |-> {}]>>
    /\ target = Root
    /\ head = "target"
    /\ index = {}
    /\ branch = Root
    /\ tree = {}
    /\ away = FALSE
    /\ alive = TRUE
    /\ row = "running"
    /\ remote = None
    /\ tracking = None
    /\ pr = "none"
    /\ filed = 0
    /\ bar = Root
    /\ recorded = [sha |-> None, left |-> FALSE]
    /\ run = Idle
    /\ owed = FALSE
    /\ torn = FALSE

At(pc) == run.pc = pc

(* The operator, in the main checkout. *)

\* Between the checkout's move and the ref's, in either order.
MainApart == run.pc \in {"cas", "restore"}
WorktreeApart == run.pc \in {"follow", "undo"}

OperatorCommits ==
    /\ head = "target"
    /\ \E x \in Theirs \ index :
        /\ commitTree({target}, index \cup {x})
        /\ index' = index \cup {x}
    /\ target' = New
    /\ torn' = (torn \/ MainApart)
    /\ UNCHANGED <<head, worktree, origin, store, run, owed>>

\* After the gate's last look at HEAD a switch changes what it checks out over.
\* A switch away that no plain merge under way can see is left out.
OperatorSwitches ==
    /\ head = "target" => ~At("idle") /\ ~run.pr /\ run.landed = {}
    /\ head' = IF head = "target" THEN "other" ELSE "target"
    /\ index' = readTree(index, Tip(head), Tip(head'))
    /\ torn' = (torn \/ run.pc \in {"checkout", "cas", "restore"})
    /\ UNCHANGED <<log, target, worktree, origin, store, run, owed>>

(* The session, in its worktree and on GitHub. *)

Works == alive /\ branch # None

AgentEdits ==
    /\ Works /\ ~away
    /\ \E x \in Mine \ tree : tree' = tree \cup {x}
    /\ UNCHANGED <<log, main, branch, away, alive, origin, store, run, history>>

\* A commit takes the files as they are, whatever the branch has come to name.
AgentCommits ==
    /\ Works /\ ~away
    /\ tree # Has(branch)
    /\ commitTree({branch}, tree)
    /\ branch' = New
    /\ torn' = (torn \/ WorktreeApart)
    /\ UNCHANGED <<main, tree, away, alive, origin, store, run, owed>>

\* After the gate's look at the worktree's HEAD a switch changes what it moves.
\* Past the pin nothing looks.
AgentSwitches ==
    /\ Works
    /\ ~away => tree = Has(branch) /\ run.pc \in Fresh
    /\ away' = ~away
    /\ tree' = IF away THEN Has(branch) ELSE tree
    /\ torn' = (torn \/ At("swap") \/ WorktreeApart)
    /\ UNCHANGED <<log, main, branch, alive, origin, store, run, owed>>

\* By its URL, or from GitHub's pages: the tracking ref stays behind, which is
\* what the lease is for.
AgentPushes ==
    /\ Works
    /\ remote # branch
    /\ remote' = branch
    /\ UNCHANGED <<log, main, worktree, tracking, pr, store, run, history>>

\* GitHub opens no pull request over nothing.
Opens ==
    /\ pr = "none"
    /\ remote \notin Past(target) \cup {None}

OpensByHand ==
    /\ Opens
    /\ pr' = IF run.pc # "idle" THEN "unseen" ELSE "open"
    /\ UNCHANGED <<log, main, worktree, remote, tracking, store, run, history>>

SessionDone ==
    /\ Works
    /\ row = "running"
    /\ row' = "awaiting-review"
    /\ UNCHANGED <<log, main, worktree, origin, filed, bar, recorded, run, history>>

(* The gate. *)

Goto(pc) == run' = [run EXCEPT !.pc = pc]

\* A throw, or the process killed: the lock is let go, and nothing put back.
GateEnds == run' = Idle

Quiet == UNCHANGED <<log, main, worktree, origin, store, history>>
Throws == GateEnds /\ Quiet

\* rejectOrBlock: re-steered, or parked and unblocked (module SessionLifecycle).
Rejected ==
    /\ row' = "running"
    /\ GateEnds
    /\ UNCHANGED <<filed, bar, recorded>>

Rejects == Rejected /\ UNCHANGED <<log, main, worktree, origin, history>>

planMerge ==
    /\ At("idle")
    /\ row = "awaiting-review"
    /\ head = "target"
    /\ \E asPr \in BOOLEAN :
        run' = [Idle EXCEPT !.pc = "clean", !.pr = asPr,
                            !.adopted = asPr /\ pr # "none"]
    /\ pr' = IF pr = "unseen" THEN "open" ELSE pr
    /\ UNCHANGED <<log, main, worktree, remote, tracking, store, history>>

Clean ==
    /\ At("clean")
    /\ IF away \/ tree = Has(branch) THEN Goto("pin") /\ Quiet ELSE Rejects

\* fresh-base, first half: the target is pinned and the branch looked at.
PinTarget ==
    /\ At("pin")
    /\ IF run.adopted /\ tracking # None /\ tracking \notin Past(branch)
       THEN Rejects
       ELSE /\ run' = [run EXCEPT
                    !.base = target,
                    !.pc = CASE target \in Past(branch) -> "settle"
                             [] target \notin Past(branch) /\ run.adopted -> "mergeTree"
                             [] OTHER -> "rebase"]
            /\ Quiet

\* The rebase moves what the worktree has checked out; a dirty one refuses it.
Rebase ==
    /\ At("rebase")
    /\ \/ Rejects
       \/ away /\ Goto("settle") /\ Quiet
       \/ /\ ~away
          /\ tree = Has(branch)
          /\ LET files == threeWay(branch, run.base)
             IN  /\ tree' = files
                 /\ IF files = Has(run.base)
                    THEN branch' = run.base /\ log' = log
                    ELSE branch' = New /\ commitTree({run.base}, files)
          /\ Goto("settle")
          /\ UNCHANGED <<main, away, alive, origin, store, history>>

(* mergeTargetInto: the branch of an open pull request. *)

MergeTree ==
    /\ At("mergeTree")
    /\ \/ Rejects
       \/ Throws
       \/ /\ commitTree({branch, run.base}, threeWay(branch, run.base))
          /\ run' = [run EXCEPT !.pc = "swap", !.tip = branch, !.mid = New,
                                !.follow = ~away]
          /\ UNCHANGED <<main, worktree, origin, store, history>>

SwapBranch ==
    /\ At("swap")
    /\ IF branch # run.tip
       THEN Rejects
       ELSE /\ branch' = run.mid
            /\ Goto(IF run.follow THEN "follow" ELSE "settle")
            /\ UNCHANGED <<log, main, tree, away, alive, origin, store, history>>

FollowMerge ==
    /\ At("follow")
    /\ \/ Goto("undo") /\ UNCHANGED tree
       \/ Goto("settle") /\ tree' = readTree(tree, run.tip, run.mid)
    /\ UNCHANGED <<log, main, branch, away, alive, origin, store, history>>

\* Mutant: the branch is left on the merge, its worktree on the old tip.
UndoMerge_Left ==
    /\ At("undo")
    /\ Rejects

UndoMerge ==
    /\ At("undo")
    /\ \/ /\ branch = run.mid
          /\ branch' = run.tip
          /\ \/ Rejected
             \/ GateEnds /\ UNCHANGED store
          /\ UNCHANGED <<log, main, tree, away, alive, origin, history>>
       \/ /\ branch # run.mid
          /\ Throws

\* fresh-base, second half: the branch is pinned.
Settle ==
    /\ At("settle")
    /\ IF run.base \in Past(branch)
       THEN /\ run' = [run EXCEPT !.pc = "measure", !.pin = branch, !.tip = None,
                                  !.mid = None, !.follow = FALSE]
            /\ Quiet
       ELSE Rejects

\* measureBranch, on the gate's own checkout of the pin: a hard stage fails, an
\* interrupt or a flag without --accept-debt ends the run, or the pin passes,
\* with a flag accepted or with none. An empty diff flags nothing.
Measure ==
    /\ At("measure")
    /\ \/ Rejects
       \/ Throws
       \/ \E flag \in BOOLEAN :
            /\ flag => Has(run.pin) # Has(run.base)
            /\ run' = [run EXCEPT !.pc = "file", !.flag = flag,
                                  !.passed = {<<run.pin, run.base>>}]
            /\ Quiet

\* Mutant: every run files its flag.
fileAcceptedDebt_Twice ==
    /\ At("file")
    /\ IF ~run.pr /\ target # run.base
       THEN Throws
       ELSE /\ filed' = IF run.flag THEN filed + 1 ELSE filed
            /\ Goto(IF run.pr THEN "push" ELSE "recheck")
            /\ UNCHANGED <<log, main, worktree, origin, row, bar, recorded, history>>

fileAcceptedDebt ==
    /\ At("file")
    /\ IF ~run.pr /\ target # run.base
       THEN Throws
       ELSE /\ filed' = IF run.flag /\ filed = 0 THEN filed + 1 ELSE filed
            /\ Goto(IF run.pr THEN "push" ELSE "recheck")
            /\ UNCHANGED <<log, main, worktree, origin, row, bar, recorded, history>>

\* A commit is on the target, or published.
Lands(c) ==
    /\ run' = [Idle EXCEPT !.pc = "record", !.pr = run.pr, !.pin = run.pin,
                           !.landed = {c}]
    /\ owed' = (owed \/ run.flag)

(* A plain merge. *)

\* HEAD, then the target, right before the checkout moves.
Recheck ==
    /\ At("recheck")
    /\ \/ head = "target" /\ target = run.base /\ Goto("checkout") /\ Quiet
       \/ Throws

\* The checkout moves first; git refuses it over a local change.
MoveCheckout ==
    /\ At("checkout")
    /\ \/ Throws
       \/ /\ index' = readTree(index, run.base, run.pin)
          /\ Goto("cas")
          /\ UNCHANGED <<log, target, head, worktree, origin, store, history>>

\* Mutant: the branch is landed by name.
MoveTarget_ByName ==
    /\ At("cas")
    /\ target = run.base
    /\ target' = branch
    /\ Lands(branch)
    /\ UNCHANGED <<log, head, index, worktree, origin, store, torn>>

\* The compare-and-swap, which git may refuse for reasons of its own.
MoveTarget ==
    /\ At("cas")
    /\ \/ /\ target = run.base
          /\ target' = run.pin
          /\ Lands(run.pin)
          /\ UNCHANGED <<log, head, index, worktree, origin, store, torn>>
       \/ Goto("restore") /\ Quiet

\* Or the restore is refused, and the operator told the line to run.
RestoreCheckout ==
    /\ At("restore")
    /\ GateEnds
    /\ \/ index' = readTree(index, run.pin, run.base) /\ UNCHANGED torn
       \/ torn' = TRUE /\ UNCHANGED index
    /\ UNCHANGED <<log, target, head, worktree, origin, store, owed>>

(* A merge into a pull request. *)

\* Mutant: every push rewrites the branch.
PushBranch_Forced ==
    /\ At("push")
    /\ remote' = run.pin
    /\ Goto("track")
    /\ UNCHANGED <<log, main, worktree, tracking, pr, store, history>>

\* An adopted branch, or one never pushed, takes a plain push, any other a
\* forced one with the last push as its lease.
PushBranch ==
    /\ At("push")
    /\ \/ Throws
       \/ /\ IF ~run.adopted /\ tracking # None
             THEN remote = tracking
             ELSE remote = None \/ remote \in Past(run.pin)
          /\ remote' = run.pin
          /\ Goto("track")
          /\ UNCHANGED <<log, main, worktree, tracking, pr, store, history>>

TrackPush ==
    /\ At("track")
    /\ tracking' = run.pin
    /\ Goto("open")
    /\ UNCHANGED <<log, main, worktree, remote, pr, store, history>>

\* The pull request is created, which fails if there is one, or rewritten.
OpenPullRequest ==
    /\ At("open")
    /\ \/ Throws
       \/ /\ run.adopted \/ pr = "none"
          /\ pr' = "open"
          /\ Goto("verify")
          /\ UNCHANGED <<log, main, worktree, remote, tracking, store, history>>

VerifyHead ==
    /\ At("verify")
    /\ \/ Throws
       \/ /\ remote = run.pin
          /\ Lands(run.pin)
          /\ UNCHANGED <<log, main, worktree, origin, store, torn>>

(* Merged: recorded, torn down, ratcheted. *)

RecordMerged ==
    /\ At("record")
    /\ row' = "merged"
    /\ Goto("window")
    /\ UNCHANGED <<log, main, worktree, origin, filed, bar, recorded, history>>

\* Mutant: a window renamed from inside is not found.
KillWindow_ByName ==
    /\ At("window")
    /\ alive' \in {alive, FALSE}
    /\ Goto("worktree")
    /\ UNCHANGED <<log, main, branch, tree, away, origin, store, history>>

KillWindow ==
    /\ At("window")
    /\ alive' = FALSE
    /\ Goto("worktree")
    /\ UNCHANGED <<log, main, branch, tree, away, origin, store, history>>

\* The branch goes with its worktree, if it still names the pin; a worktree that
\* cannot go keeps it.
RemoveWorktree ==
    /\ At("worktree")
    /\ branch' \in {branch, None}
    /\ branch' = None => branch = run.pin
    /\ Goto("event")
    /\ UNCHANGED <<log, main, tree, away, alive, origin, store, history>>

RecordMerge ==
    /\ At("event")
    /\ recorded' = [sha |-> run.pin, left |-> branch \notin {None, run.pin}]
    /\ Goto("ratchet")
    /\ UNCHANGED <<log, main, worktree, origin, row, filed, bar, history>>

\* Where the stages measured any debt, which a merge need not.
Ratchet ==
    /\ At("ratchet")
    /\ bar' \in {bar, IF run.pr THEN bar ELSE run.pin}
    /\ GateEnds
    /\ UNCHANGED <<log, main, worktree, origin, row, filed, recorded, history>>

\* The run is killed, or a step it trusts throws.
Crash ==
    /\ ~At("idle")
    /\ GateEnds
    /\ torn' = (torn \/ MainApart \/ WorktreeApart)
    /\ UNCHANGED <<log, main, worktree, origin, store, owed>>

Operator == OperatorCommits \/ OperatorSwitches \/ OpensByHand
Agent == AgentEdits \/ AgentCommits \/ AgentSwitches \/ AgentPushes \/ SessionDone
FreshBase == \/ Clean \/ PinTarget \/ Rebase \/ MergeTree \/ SwapBranch
             \/ FollowMerge \/ UndoMerge \/ Settle
FastForward == Recheck \/ MoveCheckout \/ MoveTarget \/ RestoreCheckout
PullRequest == PushBranch \/ TrackPush \/ OpenPullRequest \/ VerifyHead
Merged == \/ RecordMerged \/ KillWindow \/ RemoveWorktree \/ RecordMerge
          \/ Ratchet
Gate == \/ planMerge \/ FreshBase \/ Measure \/ fileAcceptedDebt
        \/ FastForward \/ PullRequest \/ Merged

Next == Operator \/ Agent \/ Gate \/ Crash

Spec == Init /\ [][Next]_vars

(* Properties. *)

\* The gate does what Landing promises: a commit lands only on the base its
\* stages measured it over, whatever the session and the operator do
\* meanwhile, and the session reads merged only after something of it landed
\* or was published.
Promise == INSTANCE Landing WITH
    Commit <- 1 .. MaxCommits, known <- Commits, tip <- target,
    checked <- run.passed, landed <- run.landed, merged <- (row = "merged")
KeepsPromise == Promise!Spec

\* A change the session committed is in a commit that the target, its branch
\* or origin still reaches: a rebase, a merge undone or a branch deleted with
\* commits past the pin drops none.
Reached == UNION {Past(c) : c \in {target, branch, remote} \ {None}}
NothingCommittedIsLost ==
    \A c \in Commits, x \in Mine : x \in Has(c) => \E d \in Reached : x \in Has(d)

\* Nothing the target ever had is gone from it: the session's commits carry the
\* target's own files, a failed merge into its branch included, unless a ref
\* and its checkout were caught apart.
TargetKeepsItsWork ==
    ~torn => \A c \in Past(target) : Has(c) \subseteq Has(target)

\* The main checkout has the files of the branch it is on, and the worktree's
\* has none of its branch's missing, outside the gate's own two moves.
CheckoutsFollowRefs ==
    ~torn => /\ ~MainApart => index = Has(Tip(head))
             /\ alive /\ ~away /\ ~WorktreeApart => Has(branch) \subseteq tree

\* No push of the gate's drops a commit that an open pull request it knew of
\* holds.
ReviewedCommitsStay ==
    [][pr = "open" /\ run' # run /\ remote' # remote => remote \in Past(remote)']_vars

\* Accepted debt is on the ledger once it has landed, and never twice, however
\* many runs were aborted or killed after filing it.
DebtIsFiledOnce == filed <= 1 /\ (owed => filed = 1)

\* The debt baseline describes something the target has.
BarHasLanded == bar \in Past(target)

\* The merge event says whether the branch holds commits past the pin, and no
\* commit comes after it was counted.
LeftBehindIsTold ==
    recorded.sha # None => recorded.left = (branch \notin {None, recorded.sha})

\* Nobody's work is lost on the way: neither the session's commits, nor the
\* target's files, nor a checkout's (mergeTargetInto, fastForward, removeWorktree).
WorkIsKept == NothingCommittedIsLost /\ TargetKeepsItsWork /\ CheckoutsFollowRefs

\* The ledger and the bar follow what landed: no debt twice or untold, no bar of
\* a commit that is not there (fileAcceptedDebt, the ratchet).
DebtFollowsLandings == DebtIsFiledOnce /\ BarHasLanded

\* A fast-forward that goes through moved the checkout of the target's branch.
LandsOnItsOwnCheckout ==
    [][At("cas") /\ run'.pc = "record" => head = "target"]_vars
=============================================================================
